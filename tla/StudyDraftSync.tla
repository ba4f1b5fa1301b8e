--------------------------- MODULE StudyDraftSync ---------------------------
(***************************************************************************)
(* The browser's side of a practice session: tabs that show one server     *)
(* draft, keep what the learner does in a working copy, save it after a    *)
(* pause, merge what other tabs and devices saved, tell each other of new  *)
(* revisions, survive a reload with an unanswered request, and submit.     *)
(*                                                                         *)
(* Between two awaits a tab runs alone: an action is one such turn. A call *)
(* to the server is in flight from one turn to another, and the server     *)
(* answers it by an action of its own. A tab may give a call up (time-out, *)
(* lost connection) while the request is still on its way: requests that   *)
(* write stay on the wire until the server handles them, however late.     *)
(*                                                                         *)
(* A draft is a value for each of its fields. Selected options, times and  *)
(* the current question are all fields: the merge treats them alike, but   *)
(* for a list of conflicts that nothing reads.                             *)
(***************************************************************************)
EXTENDS Integers, Sequences, FiniteSets

CONSTANTS
    Tabs,         \* tabs of one browser on one practice session
    Fields,       \* fields of the draft
    Values,       \* what a field can hold
    Blank,        \* what a field of a new draft holds
    MaxEdits,     \* bound: edits of all tabs
    MaxFailures,  \* bound: calls given up, storage refused, reconnections
    MaxReloads,   \* bound: reloads of all tabs
    MaxDevice,    \* bound: what another device saves, or submits
    None

ASSUME FieldsAssumption == Blank \in Values /\ None \notin Values

ASSUME TabsAssumption == None \notin Tabs

ASSUME BudgetAssumption == {MaxEdits, MaxFailures, MaxReloads, MaxDevice} \subseteq Nat

VARIABLES
    history,  \* server: the content of each revision from 0, and who saved it
    saved,    \* server: idempotency records of the tabs' requests
    closed,   \* server: the session was submitted
    wire,     \* writing requests the server has not handled
    tab,      \* the tabs
    signals,  \* revisions on the BroadcastChannel to each tab
    typed,    \* history: what was typed in each tab, not yet saved or replaced
    budget    \* what the bounds leave

vars == <<history, saved, closed, wire, tab, signals, typed, budget>>

----------------------------------------------------------------------------
(* Data.                                                                    *)

Content == [Fields -> Values]
Diff == [Fields -> Values \cup {None}]
NoDiff == [f \in Fields |-> None]
Snapshot == [revision: Nat, content: Content]
Keys == Tabs \X Nat

Frozen == [key: Keys, content: Content, rejected: BOOLEAN]
WorkingCopy == [base: Snapshot, local: Diff, frozen: Frozen \cup {None}, post: Diff]
Request == [key: Keys, content: Content, expected: Nat, final: BOOLEAN]
Reply == [kind: {"ok", "conflict", "refused"}, snapshot: Snapshot \cup {None}]
Call == [boundary: Snapshot \cup {None}, reply: Reply \cup {None}]
Calls == {"put", "get", "fetch", "query", "submit"}

Tab == [open: BOOLEAN,                        \* the page is mounted
        over: BOOLEAN,                        \* terminalScopeRef
        copy: WorkingCopy \cup {None},        \* draftWorkingCopy in memory
        stored: WorkingCopy \cup {None},      \* its copy in the session storage
        status: {"clean", "dirty", "saving", "conflict", "failed"},
        blocked: BOOLEAN,                     \* isDraftConflictPending
        alarm: BOOLEAN,                       \* integrityBlockScopeRef
        pending: Nat,                         \* pendingRemoteRevisionRef, or 0
        deferred: BOOLEAN,                    \* deferredRemoteRevisionScope
        trusted: Snapshot \cup {None},        \* validatedCanonicalRef
        attempt: Request \cup {None},         \* the stored submission attempt
        keys: Nat,                            \* keys this tab has drawn
        calls: [Calls -> Call \cup {None}]]

\* Mutant of Apply: the changes replace the draft they were made to.
ApplyAlone(content, diff) == diff

Apply(content, diff) ==
    [f \in Fields |-> IF diff[f] = None THEN content[f] ELSE diff[f]]

DiffOf(from, to) ==
    [f \in Fields |-> IF from[f] = to[f] THEN None ELSE to[f]]

\* Mutant of Merge: where both sides changed, the tab's wins.
MergeMineWins(base, local, remote) ==
    [f \in Fields |-> IF local[f] = base[f] THEN remote[f] ELSE local[f]]

\* mergeStudyDraftSnapshots, autoMerged: where both sides changed, the server's wins.
Merge(base, local, remote) ==
    [f \in Fields |-> IF local[f] = base[f] \/ remote[f] # base[f]
                      THEN remote[f] ELSE local[f]]

Visible(copy) ==
    IF copy.frozen = None THEN Apply(copy.base.content, copy.local)
    ELSE Apply(copy.frozen.content, copy.post)

CleanCopy(snapshot) ==
    [base |-> snapshot, local |-> NoDiff, frozen |-> None, post |-> NoDiff]

\* Mutant of Work: an attempt that waits for its answer is not counted.
WorkTypedOnly(copy) == copy # None /\ copy.local # NoDiff

Work(copy) == copy # None /\ (copy.frozen # None \/ copy.local # NoDiff)

Progresses(old, new) ==
    /\ new.revision >= old.revision
    /\ new.revision = old.revision => new.content = old.content

Revision == Len(history) - 1
Current == [revision |-> Revision, content |-> history[Len(history)].content]

Sent(boundary) == [boundary |-> boundary, reply |-> None]
NoCalls == [c \in Calls |-> None]
Saving(r) == r.calls["put"] # None \/ r.calls["get"] # None
Answered(t, c, kind) ==
    /\ tab[t].calls[c] # None
    /\ tab[t].calls[c].reply # None
    /\ tab[t].calls[c].reply.kind = kind

Live(t) == tab[t].open /\ ~tab[t].over
Ready(t) == Live(t) /\ tab[t].copy # None

NewTab == [open |-> FALSE, over |-> FALSE, copy |-> None, stored |-> None,
           status |-> "clean", blocked |-> FALSE, alarm |-> FALSE, pending |-> 0,
           deferred |-> FALSE, trusted |-> None, attempt |-> None, keys |-> 0,
           calls |-> NoCalls]

\* None is none of the records it stands in for.
ASSUME RecordsAssumption ==
    None \notin Snapshot \cup Frozen \cup WorkingCopy \cup Request \cup Reply \cup Call

Init ==
    /\ history = <<[content |-> [f \in Fields |-> Blank], by |-> None]>>
    /\ saved = {}
    /\ closed = FALSE
    /\ wire = {}
    /\ tab = [t \in Tabs |-> NewTab]
    /\ signals = [t \in Tabs |-> {}]
    /\ typed = [t \in Tabs |-> {}]
    /\ budget = [edits |-> MaxEdits, failures |-> MaxFailures, reloads |-> MaxReloads,
                 device |-> MaxDevice]

----------------------------------------------------------------------------
(* Parts of the tab's turns. An operator on a tab returns the tab after it. *)

Spend(what) ==
    /\ budget[what] > 0
    /\ budget' = [budget EXCEPT ![what] = @ - 1]

\* The session storage takes a record (ok) or refuses it.
Writes(ok) == IF ok THEN UNCHANGED budget ELSE Spend("failures")

\* Mutant of Kept: an attempt is kept in memory only.
KeptEditsOnly(r, copy, status, ok) ==
    [r EXCEPT !.copy = copy, !.stored = IF ok /\ copy.frozen = None THEN copy ELSE @,
              !.status = IF ok THEN status ELSE "failed"]

\* setMemoryAndDurableRecord
Kept(r, copy, status, ok) ==
    [r EXCEPT !.copy = copy, !.stored = IF ok THEN copy ELSE @,
              !.status = IF ok THEN status ELSE "failed"]

\* clearDurableRecordWhenClean. The query of the draft is enabled while there is no
\* work: when the last of it goes, the draft is read again.
Cleaned(r, copy) ==
    [r EXCEPT !.copy = copy, !.stored = None, !.status = "clean",
              !.calls["query"] = IF Work(r.copy) /\ @ = None THEN Sent(None) ELSE @]

\* An effect forgets the remote revision the copy has caught up with.
CaughtUp(r) ==
    IF r.pending <= r.copy.base.revision
    THEN [r EXCEPT !.pending = 0, !.deferred = FALSE] ELSE r

\* Mutant of Adopted: what a check of the draft has stopped stays stopped.
AdoptedStopped(r, base, local, ok) ==
    LET copy == [CleanCopy(base) EXCEPT !.local = local]
    IN  CaughtUp(IF local = NoDiff THEN Cleaned(r, copy) ELSE Kept(r, copy, "dirty", ok))

\* reconcile, reconcilePostFlight: a new base, and what is left to save over it.
Adopted(r, base, local, ok) ==
    LET copy == [CleanCopy(base) EXCEPT !.local = local]
        next == IF local = NoDiff THEN Cleaned(r, copy) ELSE Kept(r, copy, "dirty", ok)
    IN  CaughtUp([next EXCEPT !.blocked = FALSE])

\* Mutant of Reconciled: the merged draft is taken for the server's.
ReconciledAsMerged(r, copy, remote, ok) ==
    Adopted(r, [remote EXCEPT !.content =
                   Merge(copy.base.content, Visible(copy), remote.content)], NoDiff, ok)

\* Mutant of Reconciled: the server's draft replaces unsaved work.
ReconciledAsRead(r, copy, remote, ok) == Adopted(r, remote, NoDiff, ok)

Reconciled(r, copy, remote, ok) ==
    Adopted(r, remote,
            DiffOf(remote.content,
                   Merge(copy.base.content, Visible(copy), remote.content)), ok)

\* A DraftIntegrityError: nothing more is saved until the draft was read again.
Alarmed(r) == [r EXCEPT !.alarm = TRUE, !.blocked = TRUE, !.status = "failed"]

\* fetchCanonicalDraft, when it starts: it cancels the query of the draft.
Fetching(r, c, boundary) ==
    [r EXCEPT !.calls[c] = Sent(boundary), !.calls["query"] = None]

\* What fetchCanonicalDraft returns: a newer snapshot another call has brought is kept.
Latest(r, read) ==
    IF r.trusted # None /\ r.trusted.revision > read.revision THEN r.trusted ELSE read

\* Its checks of an answer.
Canonical(r, call) ==
    LET read == call.reply.snapshot
    IN  /\ call.boundary # None => Progresses(call.boundary, read)
        /\ call.boundary # None => Progresses(call.boundary, Latest(r, read))
        /\ (r.trusted # None /\ r.trusted.revision = read.revision) => r.trusted = read

Trusting(r, c, remote) ==
    [r EXCEPT !.trusted = remote, !.alarm = FALSE, !.calls[c] = None]

\* completeSave: an attempt is put, and read back after its answer; one that was
\* rejected is not put again.
Dispatched(r, copy) ==
    IF copy.frozen.rejected THEN Fetching(r, "get", copy.base)
    ELSE [r EXCEPT !.calls["put"] = Sent(None)]

Puts(copy) ==
    IF copy.frozen.rejected THEN {}
    ELSE {[key |-> copy.frozen.key, content |-> copy.frozen.content,
           expected |-> copy.base.revision, final |-> FALSE]}

\* clearScopedWorkingCopy and the settlement of a terminal session.
Ended(r) == [NewTab EXCEPT !.open = r.open, !.over = TRUE, !.keys = r.keys]

Become(t, r) == tab' = [tab EXCEPT ![t] = r]

\* What was typed counts while the tab, or its stored copy, still has to save it.
Carries(copy, x) ==
    /\ copy # None
    /\ \/ x.value \in {copy.local[x.field], copy.post[x.field]}
       \/ copy.frozen # None /\ copy.frozen.content[x.field] = x.value

ForgetReplaced(t) ==
    typed' = [typed EXCEPT ![t] =
                 {x \in @ : Carries(tab'[t].copy, x) \/ Carries(tab'[t].stored, x)}]

ServerUnchanged == UNCHANGED <<history, saved, closed>>

----------------------------------------------------------------------------
(* Opening the page, editing, saving.                                       *)

\* The controller mounts. An unanswered attempt found in the storage is sent again
\* before the draft is read; otherwise the draft is read first.
Open(t) ==
    LET r == [tab[t] EXCEPT !.open = TRUE]
    IN  /\ ~tab[t].open
        /\ IF closed
           THEN Become(t, Ended(r)) /\ UNCHANGED wire
           ELSE IF r.stored # None /\ r.stored.frozen # None
           THEN /\ Become(t, Dispatched([r EXCEPT !.copy = r.stored, !.status = "saving"],
                                        r.stored))
                /\ wire' = wire \cup Puts(r.stored)
           ELSE Become(t, [r EXCEPT !.calls["query"] = Sent(None)]) /\ UNCHANGED wire
        /\ ServerUnchanged /\ UNCHANGED <<signals, typed, budget>>

\* The page goes away, by a reload or a crash; the session storage stays.
Reload(t) ==
    /\ tab[t].open
    /\ Spend("reloads")
    /\ Become(t, [NewTab EXCEPT !.stored = tab[t].stored, !.attempt = tab[t].attempt,
                                !.keys = tab[t].keys])
    /\ signals' = [signals EXCEPT ![t] = {}]
    /\ ServerUnchanged /\ UNCHANGED <<wire, typed>>

\* updateVisibleSnapshot: what is typed while an attempt is on its way is kept apart,
\* even when it takes the attempt back.
Edit(t, f, v, ok) ==
    LET r == tab[t]
        flying == r.copy.frozen # None
        copy == IF flying THEN [r.copy EXCEPT !.post[f] = v]
                ELSE [r.copy EXCEPT !.local[f] = IF r.copy.base.content[f] = v THEN None ELSE v]
        over == IF flying THEN None ELSE r.copy.base.content[f]
    IN  /\ Ready(t) /\ ~r.blocked /\ r.attempt = None
        /\ Visible(r.copy)[f] # v
        /\ budget.edits > 0
        /\ ok \/ budget.failures > 0
        /\ budget' = [budget EXCEPT !.edits = @ - 1, !.failures = IF ok THEN @ ELSE @ - 1]
        /\ Become(t, IF Work(copy)
                     THEN Kept(r, copy, IF Saving(r) THEN "saving" ELSE "dirty", ok)
                     ELSE Cleaned(r, copy))
        /\ typed' = [typed EXCEPT ![t] =
                        {x \in @ : flying \/ x.field # f \/ Carries(tab'[t].stored, x)}
                        \cup {[field |-> f, value |-> v, over |-> over]}]
        /\ ServerUnchanged /\ UNCHANGED <<wire, signals>>

\* performSave, up to its request: the work becomes an attempt, is stored, and only
\* then sent. It waits until remote revisions it was told of have been read.
SaveStarts(t, ok) ==
    LET r == tab[t]
        fresh == r.copy.frozen = None
        copy == IF ~fresh THEN r.copy
                ELSE [r.copy EXCEPT !.local = NoDiff,
                                    !.frozen = [key |-> <<t, r.keys>>, rejected |-> FALSE,
                                                content |-> Visible(r.copy)]]
        kept == [Kept(r, copy, "saving", ok) EXCEPT !.keys = IF fresh THEN @ + 1 ELSE @]
    IN  /\ Ready(t) /\ ~Saving(r) /\ ~r.blocked
        /\ Work(r.copy)
        /\ fresh => r.pending <= r.copy.base.revision
        /\ Writes(ok)
        /\ Become(t, IF ok THEN Dispatched(kept, copy) ELSE kept)
        /\ wire' = IF ok THEN wire \cup Puts(copy) ELSE wire
        /\ ServerUnchanged /\ UNCHANGED <<signals, typed>>

\* completeSave, when the request was answered: the acknowledgement must be what was
\* asked for; then the draft is read back, for other saves may have followed.
PutAcknowledged(t) ==
    LET r == [tab[t] EXCEPT !.calls["put"] = None]
        ack == tab[t].calls["put"].reply.snapshot
        asked == [revision |-> r.copy.base.revision + 1, content |-> r.copy.frozen.content]
    IN  /\ Answered(t, "put", "ok")
        /\ Become(t, IF ack = asked THEN Fetching(r, "get", ack) ELSE Alarmed(r))
        /\ ServerUnchanged /\ UNCHANGED <<wire, signals, typed, budget>>

\* performSave, DRAFT_VERSION_CONFLICT: the attempt is marked and never sent again.
PutRejected(t, ok) ==
    LET r == [tab[t] EXCEPT !.calls["put"] = None]
        copy == [r.copy EXCEPT !.frozen.rejected = TRUE]
        kept == Kept(r, copy, "saving", ok)
    IN  /\ Answered(t, "put", "conflict")
        /\ Writes(ok)
        /\ Become(t, IF ok THEN Dispatched(kept, copy) ELSE kept)
        /\ ServerUnchanged /\ UNCHANGED <<wire, signals, typed>>

\* completeSave, when the draft was read back: the attempt is over, whether it was
\* accepted or rejected; what was typed since is laid over what the server has.
SaveCompletes(t, ok) ==
    LET call == tab[t].calls["get"]
        r == tab[t]
        remote == Latest(r, call.reply.snapshot)
        good == /\ Canonical(r, call)
                /\ r.copy.frozen.rejected => remote.revision > r.copy.base.revision
        local == DiffOf(remote.content, Apply(remote.content, r.copy.post))
    IN  /\ Answered(t, "get", "ok")
        /\ IF good
           THEN /\ Become(t, Adopted(Trusting(r, "get", remote), remote, local, ok))
                /\ signals' = [s \in Tabs |-> IF s # t /\ Live(s)
                                              THEN signals[s] \cup {remote.revision}
                                              ELSE signals[s]]
                /\ ForgetReplaced(t)
                /\ IF local = NoDiff THEN ok /\ UNCHANGED budget ELSE Writes(ok)
           ELSE /\ Become(t, [Alarmed(r) EXCEPT !.calls["get"] = None])
                /\ ok /\ UNCHANGED <<signals, typed, budget>>
        /\ ServerUnchanged /\ UNCHANGED wire

----------------------------------------------------------------------------
(* Reading the draft again.                                                 *)

\* reconcileFromServer, when it starts. One such call is in flight at a time.
Refreshing(r) ==
    IF r.calls["fetch"] # None THEN r
    ELSE Fetching(r, "fetch", IF r.copy = None THEN None ELSE r.copy.base)

\* The learner waits, with edits and saves stopped, until the draft was read.
Checking(r) == Refreshing([r EXCEPT !.blocked = TRUE, !.status = "conflict"])

\* Another tab has saved a revision. A tab with a request on its way looks at it when
\* that is over; one with unsaved work stops until it has merged the revision.
Signal(t, revision) ==
    LET r == [tab[t] EXCEPT !.pending = IF revision > @ THEN revision ELSE @]
        news == r.copy # None /\ revision > r.copy.base.revision
    IN  /\ revision \in signals[t]
        /\ signals' = [signals EXCEPT ![t] = @ \ {revision}]
        /\ Become(t, IF ~Live(t) THEN tab[t]
                     ELSE IF ~news THEN IF r.copy = None THEN r ELSE CaughtUp(r)
                     ELSE IF r.copy.frozen # None THEN [r EXCEPT !.deferred = TRUE]
                     ELSE IF Work(r.copy) \/ r.blocked THEN Checking(r)
                     ELSE Refreshing(r))
        /\ ServerUnchanged /\ UNCHANGED <<wire, typed, budget>>

\* drainPendingRemoteRevision: by an effect, before a save, before a submission.
Drain(t) ==
    LET r == tab[t]
    IN  /\ Ready(t) /\ r.copy.frozen = None
        /\ r.pending > r.copy.base.revision
        /\ r.calls["fetch"] = None
        /\ Become(t, Refreshing(r))
        /\ ServerUnchanged /\ UNCHANGED <<wire, signals, typed, budget>>

\* reconcileFromServer, when the draft was read; without a working copy this is the
\* learner's retry of a first read that failed, which starts a new copy.
FetchDone(t, ok) ==
    LET call == tab[t].calls["fetch"]
        read == [tab[t] EXCEPT !.calls["fetch"] = None]
        remote == Latest(read, call.reply.snapshot)
        r == IF Canonical(read, call) THEN Trusting(read, "fetch", remote) ELSE read
        frozen == r.copy # None /\ r.copy.frozen # None
        next == IF ~Canonical(read, call)
                   \/ (r.copy # None /\ ~Progresses(r.copy.base, remote))
                THEN IF r.copy = None THEN r ELSE Alarmed(r)
                ELSE IF r.copy = None
                THEN CaughtUp([r EXCEPT !.copy = CleanCopy(remote), !.status = "clean",
                                        !.blocked = FALSE])
                ELSE IF frozen
                THEN [r EXCEPT !.pending = IF remote.revision > @ THEN remote.revision ELSE @,
                               !.deferred = TRUE]
                ELSE Reconciled(r, r.copy, remote, ok)
    IN  /\ Answered(t, "fetch", "ok")
        /\ Become(t, next)
        /\ ok \/ next.status = "failed"
        /\ Writes(ok)
        /\ ForgetReplaced(t)
        /\ ServerUnchanged /\ UNCHANGED <<wire, signals>>

\* The query of the draft was answered: the first copy, or a newer base for it.
QueryDone(t, ok) ==
    LET r == [tab[t] EXCEPT !.calls["query"] = None]
        remote == tab[t].calls["query"].reply.snapshot
        mine == IF r.copy = None THEN r.stored ELSE r.copy
        next == IF mine = None
                THEN CaughtUp([r EXCEPT !.copy = CleanCopy(remote), !.alarm = FALSE,
                                        !.blocked = FALSE])
                ELSE IF mine.frozen # None THEN r
                ELSE IF ~Progresses(mine.base, remote) THEN Alarmed([r EXCEPT !.copy = mine])
                ELSE IF r.copy = None \/ remote.revision > mine.base.revision
                THEN Reconciled([r EXCEPT !.alarm = r.copy # None /\ @], mine, remote, ok)
                ELSE r
    IN  /\ Answered(t, "query", "ok")
        /\ Become(t, next)
        /\ ok \/ next.status = "failed"
        /\ Writes(ok)
        /\ ForgetReplaced(t)
        /\ ServerUnchanged /\ UNCHANGED <<wire, signals>>

\* The connection is back: unsaved work is checked against the server first.
Online(t) ==
    LET r == tab[t]
    IN  /\ Ready(t) /\ r.copy.frozen = None
        /\ r.calls["fetch"] = None
        /\ Spend("failures")
        /\ Become(t, IF Work(r.copy) THEN Checking(r) ELSE Refreshing(r))
        /\ ServerUnchanged /\ UNCHANGED <<wire, signals, typed>>

----------------------------------------------------------------------------
(* Failures.                                                                *)

\* A call is given up, or its answer lost: the controller unlocks unless the draft
\* itself was at fault. A submission stays in the storage, to be sent again.
CallFails(t, c) ==
    LET r == [tab[t] EXCEPT !.calls[c] = None]
    IN  /\ Live(t) /\ tab[t].calls[c] # None
        /\ Spend("failures")
        /\ Become(t, CASE c = "submit" -> r
                       [] c = "query" -> [r EXCEPT !.status = "failed"]
                       [] OTHER -> [r EXCEPT !.status = "failed", !.blocked = r.alarm])
        /\ ServerUnchanged /\ UNCHANGED <<wire, signals, typed>>

\* The server refuses a call because the session is over: the tab asks for the session
\* and lets its work go.
SessionOver(t, c) ==
    /\ Live(t) /\ Answered(t, c, "refused")
    /\ Become(t, Ended(tab[t]))
    /\ signals' = [signals EXCEPT ![t] = {}]
    /\ ServerUnchanged /\ UNCHANGED <<wire, typed, budget>>

\* retrySave, when there is nothing it may save: the draft is read again.
Rereads(r) == r.copy # None => r.copy.frozen = None /\ (r.blocked \/ ~Work(r.copy))

RetryReads(t) ==
    LET r == tab[t]
    IN  /\ Live(t) /\ r.status = "failed" /\ Rereads(r)
        /\ r.calls["fetch"] = None
        /\ Become(t, IF r.copy = None THEN Refreshing(r) ELSE Checking(r))
        /\ ServerUnchanged /\ UNCHANGED <<wire, signals, typed, budget>>

----------------------------------------------------------------------------
(* Submitting.                                                              *)

SubmitSent(r, m) == [r EXCEPT !.attempt = m, !.calls["submit"] = Sent(None)]

\* handleSubmit: everything is saved, then the attempt stored, then sent.
SubmitStarts(t) ==
    LET r == tab[t]
        m == [key |-> <<t, r.keys>>, content |-> r.copy.base.content,
              expected |-> r.copy.base.revision, final |-> TRUE]
    IN  /\ Ready(t) /\ r.attempt = None
        /\ ~Work(r.copy) /\ ~Saving(r) /\ ~r.blocked
        /\ r.pending <= r.copy.base.revision
        /\ Become(t, [SubmitSent(r, m) EXCEPT !.keys = @ + 1])
        /\ wire' = wire \cup {m}
        /\ ServerUnchanged /\ UNCHANGED <<signals, typed, budget>>

\* An unanswered attempt is sent again as it was stored.
SubmitAgain(t) ==
    LET r == tab[t]
    IN  /\ Ready(t) /\ r.attempt # None /\ ~r.blocked
        /\ r.calls["submit"] = None
        /\ Become(t, SubmitSent(r, r.attempt))
        /\ wire' = wire \cup {r.attempt}
        /\ ServerUnchanged /\ UNCHANGED <<signals, typed, budget>>

SubmitDone(t) ==
    /\ Answered(t, "submit", "ok")
    /\ Become(t, Ended(tab[t]))
    /\ signals' = [signals EXCEPT ![t] = {}]
    /\ ServerUnchanged /\ UNCHANGED <<wire, typed, budget>>

\* The draft had moved on: the attempt is given up and the draft read again.
SubmitRejected(t) ==
    LET r == [tab[t] EXCEPT !.calls["submit"] = None, !.attempt = None]
    IN  /\ Answered(t, "submit", "conflict")
        /\ r.calls["fetch"] = None
        /\ Become(t, IF Rereads(r) THEN Checking(r) ELSE r)
        /\ ServerUnchanged /\ UNCHANGED <<wire, signals, typed, budget>>

----------------------------------------------------------------------------
(* The server.                                                              *)

\* An answer reaches the tab if it still waits for it.
Deliver(m, kind, snapshot) ==
    LET t == m.key[1]
        c == IF m.final THEN "submit" ELSE "put"
        mine == IF m.final THEN tab[t].attempt ELSE tab[t].copy.frozen
        waits == tab[t].calls[c] # None /\ tab[t].calls[c].reply = None /\ mine.key = m.key
    IN  IF waits THEN tab' = [tab EXCEPT ![t].calls[c].reply = [kind |-> kind, snapshot |-> snapshot]]
        ELSE UNCHANGED tab

Recorded(m) == \E s \in saved : s.key = m.key

\* A request handled before answers as it did then.
Replays(m) ==
    /\ Recorded(m)
    /\ Deliver(m, "ok", (CHOOSE s \in saved : s.key = m.key).snapshot)
    /\ UNCHANGED <<history, saved, closed>>

Refuses(m) ==
    /\ ~Recorded(m) /\ closed
    /\ Deliver(m, "refused", None)
    /\ UNCHANGED <<history, saved, closed>>

\* Stale: a save over another revision, or a submission of another content.
Stale(m) == m.expected # Revision \/ (m.final /\ m.content # Current.content)

Rejects(m) ==
    /\ ~Recorded(m) /\ ~closed /\ Stale(m)
    /\ Deliver(m, "conflict", None)
    /\ UNCHANGED <<history, saved, closed>>

Accepts(m) ==
    LET next == [revision |-> IF m.final THEN Revision ELSE Revision + 1, content |-> m.content]
    IN  /\ ~Recorded(m) /\ ~closed /\ ~Stale(m)
        /\ history' = IF m.final THEN history
                      ELSE Append(history, [content |-> m.content, by |-> m.key[1]])
        /\ closed' = m.final
        /\ saved' = saved \cup {[key |-> m.key, snapshot |-> next]}
        /\ Deliver(m, "ok", next)

ServePut(m) ==
    /\ m \in wire
    /\ wire' = wire \ {m}
    /\ Replays(m) \/ Refuses(m) \/ Rejects(m) \/ Accepts(m)
    /\ UNCHANGED <<signals, typed, budget>>

ServeRead(t, c) ==
    /\ c \in {"get", "fetch", "query"}
    /\ tab[t].calls[c] # None /\ tab[t].calls[c].reply = None
    /\ tab' = [tab EXCEPT ![t].calls[c].reply =
                  IF closed THEN [kind |-> "refused", snapshot |-> None]
                  ELSE [kind |-> "ok", snapshot |-> Current]]
    /\ UNCHANGED <<history, saved, closed, wire, signals, typed, budget>>

\* The same learner elsewhere.
DeviceSaves(f, v) ==
    /\ ~closed /\ Current.content[f] # v
    /\ Spend("device")
    /\ history' = Append(history, [content |-> [Current.content EXCEPT ![f] = v], by |-> None])
    /\ UNCHANGED <<saved, closed, wire, tab, signals, typed>>

DeviceCloses ==
    /\ ~closed
    /\ Spend("device")
    /\ closed' = TRUE
    /\ UNCHANGED <<history, saved, wire, tab, signals, typed>>

----------------------------------------------------------------------------
Next ==
    \/ \E t \in Tabs :
          \/ Open(t) \/ Reload(t)
          \/ \E f \in Fields, v \in Values, ok \in BOOLEAN : Edit(t, f, v, ok)
          \/ \E ok \in BOOLEAN :
                SaveStarts(t, ok) \/ PutRejected(t, ok) \/ SaveCompletes(t, ok)
                \/ FetchDone(t, ok) \/ QueryDone(t, ok)
          \/ PutAcknowledged(t)
          \/ \E revision \in signals[t] : Signal(t, revision)
          \/ Drain(t) \/ Online(t) \/ RetryReads(t)
          \/ \E c \in Calls : CallFails(t, c) \/ SessionOver(t, c) \/ ServeRead(t, c)
          \/ SubmitStarts(t) \/ SubmitAgain(t) \/ SubmitDone(t) \/ SubmitRejected(t)
    \/ \E m \in wire : ServePut(m)
    \/ \E f \in Fields, v \in Values : DeviceSaves(f, v)
    \/ DeviceCloses

\* useStudyDraftAutosaveTimer
Autosave(t) ==
    /\ tab[t].status = "dirty" /\ ~tab[t].deferred
    /\ \E ok \in BOOLEAN : SaveStarts(t, ok)

\* The learner answers an error with the button it shows.
Retry(t) ==
    /\ tab[t].status = "failed"
    /\ \/ RetryReads(t)
       \/ Drain(t)
       \/ \E ok \in BOOLEAN : SaveStarts(t, ok)

\* What is asked is answered, and the event loop takes its turns.
Fairness ==
    /\ WF_vars(\E m \in wire : ServePut(m))
    /\ \A t \in Tabs :
          /\ WF_vars(Open(t))
          /\ WF_vars(\E c \in Calls : ServeRead(t, c))
          /\ WF_vars(\E c \in Calls : SessionOver(t, c))
          /\ WF_vars(PutAcknowledged(t))
          /\ WF_vars(\E ok \in BOOLEAN : PutRejected(t, ok))
          /\ WF_vars(\E ok \in BOOLEAN : SaveCompletes(t, ok))
          /\ WF_vars(\E ok \in BOOLEAN : FetchDone(t, ok))
          /\ WF_vars(\E ok \in BOOLEAN : QueryDone(t, ok))
          /\ WF_vars(SubmitDone(t) \/ SubmitRejected(t))
          /\ WF_vars(\E revision \in signals[t] : Signal(t, revision))
          /\ WF_vars(tab[t].status # "failed" /\ Drain(t))
          /\ WF_vars(Autosave(t))
          /\ WF_vars(Retry(t))

Spec == Init /\ [][Next]_vars
FairSpec == Spec /\ Fairness

----------------------------------------------------------------------------
(* Properties.                                                              *)

TypeOK ==
    /\ history \in Seq([content: Content, by: Tabs \cup {None}]) /\ history # <<>>
    /\ \A s \in saved : s.key \in Keys /\ s.snapshot \in Snapshot
    /\ closed \in BOOLEAN
    /\ \A m \in wire : m \in Request
    /\ \A t \in Tabs :
          /\ \A x \in DOMAIN tab[t].calls : tab[t].calls[x] \in Call \cup {None}
          /\ tab[t].copy \in WorkingCopy \cup {None}
          /\ tab[t].stored \in WorkingCopy \cup {None}
          /\ tab[t].attempt \in Request \cup {None}
    /\ \A t \in Tabs : signals[t] \subseteq Nat

Had(snapshot) ==
    /\ snapshot.revision <= Revision
    /\ history[snapshot.revision + 1].content = snapshot.content

\* Every draft a tab builds on, in memory, in the storage or as a check of the next
\* answer, is one the server had at that revision, however its answers were delayed,
\* lost, replayed or overtaken by other saves (usePracticeDraftController).
BasesReal ==
    \A t \in Tabs :
        /\ tab[t].copy # None => Had(tab[t].copy.base)
        /\ tab[t].stored # None => Had(tab[t].stored.base)
        /\ tab[t].trusted # None => Had(tab[t].trusted)

\* A request that may still change the draft or close the session, and may arrive at
\* any time, is the attempt its tab has in the storage: a reload or a time-out cannot
\* make the tab send the same work under another key (performSave,
\* submitStudySessionV2Command).
AttemptsRemembered ==
    \A m \in wire :
        ~closed /\ ~Recorded(m) /\ ~Stale(m)
        => LET r == tab[m.key[1]]
           IN  IF m.final THEN r.attempt = m
               ELSE /\ r.stored # None /\ r.stored.frozen # None
                    /\ r.stored.frozen.key = m.key

\* A save changes a field of the draft only to what was typed in that tab, over the
\* value it replaces or while a save was on its way: never to a value that a rejected
\* save or a merge has already given up, by a retry, a reload or a late request.
SavesOnlyWhatWasTyped ==
    [][\A t \in Tabs, f \in Fields :
          LET old == Current.content
              new == history'[Len(history')]
          IN  (Len(history') > Len(history) /\ new.by = t /\ new.content[f] # old[f])
              => \E x \in typed[t] : /\ x.field = f /\ x.value = new.content[f]
                                     /\ x.over \in {None, old[f]}]_vars

\* What is graded is what the tab that asked for it shows, even when the request was
\* sent long before and the tab was reloaded or has read the draft again since. Work
\* that an earlier page left in the storage, and that a failed first read has kept from
\* being shown before the submission (see StoredWorkComesBack), may come up after it.
GradedAsShown ==
    [][\A m \in wire :
          LET r == tab[m.key[1]]
          IN  (/\ m.final /\ ~closed /\ closed' /\ m \notin wire'
               /\ Ready(m.key[1]) /\ ~Work(r.stored))
              => Visible(r.copy) = Current.content]_vars

ChangedByOthers(t, f, from, to) ==
    \E i \in from + 2 .. to + 1 :
        history[i].by # t /\ history[i].content[f] # history[i - 1].content[f]

\* What a tab shows changes without the learner only in fields that somebody else has
\* changed, and then to what the server has; a save the server rejected is the one
\* exception (mergeStudyDraftSnapshots, reconcilePostFlight).
KeepsWhatIsShown ==
    [][\A t \in Tabs :
          LET old == tab[t].copy
              new == tab'[t].copy
          IN  (/\ old # None /\ new # None /\ budget'.edits = budget.edits
               /\ old.frozen # None => ~old.frozen.rejected)
              => \A f \in Fields :
                    \/ Visible(new)[f] = Visible(old)[f]
                    \/ /\ ChangedByOthers(t, f, old.base.revision, new.base.revision)
                       /\ Visible(new)[f] = new.base.content[f]]_vars

\* Work found in the storage when the page is opened again, over fields nobody has
\* changed, is shown again.
StoredWorkComesBack ==
    [][\A t \in Tabs :
          LET kept == tab[t].stored
              new == tab'[t].copy
          IN  (tab[t].copy = None /\ new # None /\ kept # None)
              => \A f \in Fields :
                    (kept.local[f] # None
                     /\ ~ChangedByOthers(t, f, kept.base.revision, new.base.revision))
                    => Visible(new)[f] = kept.local[f]]_vars

\* The last revision a tab has saved.
LastSaved ==
    LET own == {i \in 1 .. Len(history) : history[i].by # None}
    IN  IF own = {} THEN 0 ELSE (CHOOSE i \in own : \A j \in own : j <= i) - 1

\* A tab that says it has seen another tab's save and is checking it.
Deferring(t) == Ready(t) /\ tab[t].deferred /\ tab[t].status # "failed"

\* The notice "saved by another tab, checking the current save and the latest record"
\* (status code remoteDeferred) goes away by itself, or becomes an error with a retry.
DeferralEnds == \A t \in Tabs : Deferring(t) ~> ~Deferring(t)

\* A tab that offers a retry of a save while the draft is in doubt: an honest answer, read
\* before a base that the draft query has brought, was taken for a server that lost data
\* (fetchCanonicalDraft), and every retry throws in flush or performSave.
Locked(t) ==
    /\ Ready(t) /\ tab[t].status = "failed"
    /\ tab[t].copy.frozen # None /\ tab[t].blocked

\* Once the learner stops, every tab ends with all of its work saved, unlocked, and
\* showing what the tabs have saved, unless the session is over (the autosave timer,
\* performSave, drainPendingRemoteRevision, retrySave). Tabs whose notice or error the
\* code never takes away, Deferring and Locked, wait for a reload.
Converges ==
    <>[](\/ closed
         \/ \A t \in Tabs :
               \/ Deferring(t) \/ Locked(t)
               \/ /\ Ready(t) /\ ~Work(tab[t].copy) /\ ~tab[t].blocked
                  /\ tab[t].copy.base.revision >= LastSaved)

=============================================================================
