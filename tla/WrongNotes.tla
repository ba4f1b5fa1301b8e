----------------------------- MODULE WrongNotes -----------------------------
(***************************************************************************)
(* The wrong notes of one user: how submissions of concurrently open       *)
(* sessions move a note through NEW, AGAIN, REVIEWING and SOLVED, schedule *)
(* its next review, leave a chain of review events, and how sessions that  *)
(* review notes move the note's pointer to a question version.             *)
(*                                                                         *)
(* Notes are keyed by user and question and every writer first takes the   *)
(* advisory lock of that pair, so one user is enough and each submission   *)
(* is one action.                                                          *)
(***************************************************************************)
EXTENDS Integers, Sequences, FiniteSets

CONSTANTS
    Questions,
    Sessions,
    Day,          \* DAY_IN_MILLISECONDS, in ticks of the clock
    MaxLag,       \* how stale a handler's clock reading can be
    MaxTime,      \* bound: the clock stops here
    MaxVersion,   \* bound: published versions of a question
    None

ASSUME ConstantsAssumption ==
    /\ Day \in Nat \ {0}
    /\ {MaxLag, MaxTime} \subseteq Nat
    /\ MaxVersion \in Nat \ {0}
    /\ None \notin Sessions \cup Nat

VARIABLES
    now,
    current,    \* the published version number of each question
    session,    \* the sessions, with the question versions they pin
    note,       \* WrongNote of each question, or None
    schedule,   \* ReviewSchedule of each question, or None
    events      \* ReviewEvent rows of each question, oldest first

vars == <<now, current, session, note, schedule, events>>

Modes == {"RANDOM", "WRONG_NOTE", "DAILY_REVIEW"}
ReviewModes == {"WRONG_NOTE", "DAILY_REVIEW"}
NoteStatuses == {"NEW", "REVIEWING", "AGAIN", "SOLVED"}

Observed == {t \in 0..now : now <= t + MaxLag}

----------------------------------------------------------------------------
(* The review algorithm.                                                    *)

\* Mutant: the interval doubles.
IntervalDoubling(correctStreak) == 2 ^ correctStreak

Interval(correctStreak) ==
    CASE correctStreak = 0 -> 1
      [] correctStreak = 1 -> 3
      [] correctStreak = 2 -> 7
      [] correctStreak = 3 -> 14
      [] OTHER -> 30

FirstWrong(t) ==
    [wrongCount |-> 1, correctStreak |-> 0, status |-> "NEW",
     lastWrongAt |-> t, lastReviewedAt |-> None]

\* The note's state after one more graded answer: None when a question that was
\* never missed is answered correctly.
ApplyWrongNoteReview(previous, isCorrect, t) ==
    IF previous = None
    THEN IF isCorrect THEN None ELSE FirstWrong(t)
    ELSE IF isCorrect
         THEN [wrongCount |-> previous.wrongCount,
               correctStreak |-> previous.correctStreak + 1,
               status |-> IF previous.correctStreak + 1 >= 2 THEN "SOLVED" ELSE "REVIEWING",
               lastWrongAt |-> previous.lastWrongAt, lastReviewedAt |-> t]
         ELSE [wrongCount |-> previous.wrongCount + 1, correctStreak |-> 0,
               status |-> "AGAIN", lastWrongAt |-> t, lastReviewedAt |-> t]

ScheduleAfter(state, t) ==
    [nextReviewAt |-> t + Interval(state.correctStreak) * Day,
     intervalDays |-> Interval(state.correctStreak), updatedAt |-> t]

\* What the algorithm refuses to continue from (INVALID_PREVIOUS_STATE).
ValidState(state) ==
    /\ state.wrongCount >= 1
    /\ state.lastReviewedAt # None => state.lastWrongAt <= state.lastReviewedAt
    /\ \/ /\ state.status = "NEW"
          /\ state.wrongCount = 1 /\ state.correctStreak = 0 /\ state.lastReviewedAt = None
       \/ /\ state.status = "AGAIN"
          /\ state.wrongCount >= 2 /\ state.correctStreak = 0 /\ state.lastReviewedAt # None
       \/ /\ state.status = "REVIEWING"
          /\ state.correctStreak = 1 /\ state.lastReviewedAt # None
       \/ /\ state.status = "SOLVED"
          /\ state.correctStreak >= 2 /\ state.lastReviewedAt # None

\* What it refuses as NON_MONOTONIC_OCCURRED_AT.
OccursAfter(state, t) ==
    /\ state.lastWrongAt <= t
    /\ state.lastReviewedAt # None => state.lastReviewedAt <= t

----------------------------------------------------------------------------

\* The state part of a WrongNote row (toWrongNoteState).
StateOf(row) ==
    IF row = None THEN None
    ELSE [wrongCount |-> row.wrongCount, correctStreak |-> row.correctStreak,
          status |-> row.status, lastWrongAt |-> row.lastWrongAt,
          lastReviewedAt |-> row.lastReviewedAt]

\* Version pinned by a session, 0 for a question it does not ask.
Pins(asked) == [q \in Questions |-> IF q \in asked THEN current[q] ELSE 0]

Asked(s) == {q \in Questions : session[s].pins[q] > 0}

Unused == [phase |-> "UNUSED", mode |-> "RANDOM", retryOf |-> None,
           pins |-> [q \in Questions |-> 0], startedAt |-> 0, missed |-> {}]

Init ==
    /\ now = 0
    /\ current = [q \in Questions |-> 1]
    /\ session = [s \in Sessions |-> Unused]
    /\ note = [q \in Questions |-> None]
    /\ schedule = [q \in Questions |-> None]
    /\ events = [q \in Questions |-> <<>>]

Open(s, mode, source, pins, at) ==
    /\ session[s].phase = "UNUSED"
    /\ session' = [session EXCEPT ![s] =
                     [phase |-> "OPEN", mode |-> mode, retryOf |-> source, pins |-> pins,
                      startedAt |-> at, missed |-> {}]]

\* updateReviewPointers: the pointer only ever moves to a newer version.
PointersMoved(asked) ==
    note' = [q \in Questions |->
               IF q \in asked /\ (note[q].pointer = None \/ current[q] > note[q].pointer)
               THEN [note[q] EXCEPT !.pointer = current[q]]
               ELSE note[q]]

\* A random session asks any published questions, a review session only notes
\* that still are candidates under their locks.
CreateRandom(s, asked, at) ==
    /\ Open(s, "RANDOM", None, Pins(asked), at)
    /\ UNCHANGED <<now, current, note, schedule, events>>

CreateReview(s, mode, asked, at) ==
    /\ \A q \in asked :
         /\ note[q] # None
         /\ mode = "WRONG_NOTE" => note[q].status \in {"NEW", "REVIEWING", "AGAIN"}
         /\ mode = "DAILY_REVIEW" => schedule[q].nextReviewAt <= at
    /\ Open(s, mode, None, Pins(asked), at)
    /\ PointersMoved(asked)
    /\ UNCHANGED <<now, current, schedule, events>>

\* A review of one note. An older target than the pointer is an integrity error.
CreateTargetedReview(s, q, at) ==
    /\ note[q] # None
    /\ note[q].pointer # None => note[q].pointer <= current[q]
    /\ Open(s, "WRONG_NOTE", None, Pins({q}), at)
    /\ note' = [note EXCEPT ![q].pointer = current[q]]
    /\ UNCHANGED <<now, current, schedule, events>>

\* Mutant: a retry asks the versions published now.
CreateRetryOfCurrent(s, source, at) ==
    /\ session[source].phase = "DONE"
    /\ session[source].missed # {}
    /\ Open(s, "WRONG_NOTE", source, Pins(session[source].missed), at)
    /\ UNCHANGED <<now, current, note, schedule, events>>

\* Mutant: a retry points the notes at the versions it asks.
CreateRetryMovingPointers(s, source, at) ==
    /\ session[source].phase = "DONE"
    /\ session[source].missed # {}
    /\ Open(s, "WRONG_NOTE", source, session[source].pins, at)
    /\ note' = [q \in Questions |-> IF q \in session[source].missed
                                    THEN [note[q] EXCEPT !.pointer = session[source].pins[q]]
                                    ELSE note[q]]
    /\ UNCHANGED <<now, current, schedule, events>>

\* A retry asks the missed questions again, in the versions they were asked in.
CreateRetry(s, source, at) ==
    /\ session[source].phase = "DONE"
    /\ session[source].missed # {}
    /\ Open(s, "WRONG_NOTE", source,
            [q \in Questions |-> IF q \in session[source].missed
                                 THEN session[source].pins[q] ELSE 0], at)
    /\ UNCHANGED <<now, current, note, schedule, events>>

\* Mutant: notes are not looked at.
EffectiveAtIgnoringNotes(s, at) == IF at < session[s].startedAt THEN session[s].startedAt ELSE at

\* The time of a submission is after the last change of every note it locks.
EffectiveAt(s, at) ==
    LET lower == {at, session[s].startedAt} \cup
                 {note[q].updatedAt + 1 : q \in {p \in Asked(s) : note[p] # None}}
    IN  CHOOSE t \in lower : \A x \in lower : x <= t

SourceOf(mode) == IF mode \in ReviewModes THEN "WRONG_NOTE_REVIEW" ELSE "STUDY_SUBMIT"

\* The WrongNote row after a submission at t that left the note in state a.
NoteAfter(s, q, missed, a, t) ==
    [wrongCount |-> a.wrongCount, correctStreak |-> a.correctStreak,
     status |-> a.status, lastWrongAt |-> a.lastWrongAt,
     lastReviewedAt |-> a.lastReviewedAt,
     lastWrongVersion |-> IF q \in missed THEN session[s].pins[q]
                                          ELSE note[q].lastWrongVersion,
     pointer |-> IF note[q] = None THEN None ELSE note[q].pointer,
     updatedAt |-> t]

\* createReviewFacts, for every question the session asked.
Submit(s, missed, at) ==
    LET t == EffectiveAt(s, at)
        After(q) == ApplyWrongNoteReview(StateOf(note[q]), q \notin missed, t)
        Touched == {q \in Asked(s) : After(q) # None}
        Event(q) ==
            [session |-> s, version |-> session[s].pins[q],
             source |-> SourceOf(session[s].mode), isCorrect |-> q \notin missed,
             previous |-> IF note[q] = None THEN None
                          ELSE [status |-> note[q].status,
                                correctStreak |-> note[q].correctStreak,
                                wrongCount |-> note[q].wrongCount],
             next |-> [status |-> After(q).status, correctStreak |-> After(q).correctStreak,
                       wrongCount |-> After(q).wrongCount],
             occurredAt |-> t]
    IN  /\ session[s].phase = "OPEN"
        /\ missed \subseteq Asked(s)
        /\ session' = [session EXCEPT ![s].phase = "DONE", ![s].missed = missed]
        /\ note' = [q \in Questions |-> IF q \in Touched THEN NoteAfter(s, q, missed, After(q), t)
                                                        ELSE note[q]]
        /\ schedule' = [q \in Questions |-> IF q \in Touched THEN ScheduleAfter(After(q), t)
                                                              ELSE schedule[q]]
        /\ events' = [q \in Questions |-> IF q \in Touched THEN Append(events[q], Event(q))
                                                            ELSE events[q]]
        /\ UNCHANGED <<now, current>>

\* Mutant: an older version can be published again.
PublishAny(q) ==
    /\ \E v \in 1..MaxVersion \ {current[q]} : current' = [current EXCEPT ![q] = v]
    /\ UNCHANGED <<now, session, note, schedule, events>>

\* The admin application publishes a newer version of a question.
Publish(q) ==
    /\ current[q] < MaxVersion
    /\ current' = [current EXCEPT ![q] = @ + 1]
    /\ UNCHANGED <<now, session, note, schedule, events>>

Tick ==
    /\ now < MaxTime
    /\ now' = now + 1
    /\ UNCHANGED <<current, session, note, schedule, events>>

Next ==
    \/ Tick
    \/ \E q \in Questions : Publish(q)
    \/ \E s \in Sessions, at \in Observed :
          \/ \E asked \in (SUBSET Questions) \ {{}} :
                CreateRandom(s, asked, at) \/ \E m \in ReviewModes : CreateReview(s, m, asked, at)
          \/ \E q \in Questions : CreateTargetedReview(s, q, at)
          \/ \E source \in Sessions : CreateRetry(s, source, at)
          \/ \E missed \in SUBSET Questions : Submit(s, missed, at)

Spec == Init /\ [][Next]_vars

----------------------------------------------------------------------------
(* Properties.                                                              *)

NoteRow == [wrongCount: Nat, correctStreak: Nat, status: NoteStatuses,
            lastWrongAt: Nat, lastReviewedAt: Nat \cup {None},
            lastWrongVersion: Nat, pointer: Nat \cup {None}, updatedAt: Nat]
ScheduleRow == [nextReviewAt: Nat, intervalDays: {1, 3, 7, 14, 30}, updatedAt: Nat]
States == [wrongCount: Nat, correctStreak: Nat, status: NoteStatuses,
           lastWrongAt: Nat, lastReviewedAt: Nat \cup {None}]
Snapshot == [status: NoteStatuses, correctStreak: Nat, wrongCount: Nat]
EventRow == [session: Sessions, version: Nat, source: {"WRONG_NOTE_REVIEW", "STUDY_SUBMIT"},
             isCorrect: BOOLEAN, previous: Snapshot \cup {None}, next: Snapshot,
             occurredAt: Nat]
SessionRow == [phase: {"UNUSED", "OPEN", "DONE"}, mode: Modes,
               retryOf: Sessions \cup {None}, pins: [Questions -> Nat],
               startedAt: Nat, missed: SUBSET Questions]

\* None is none of the rows it stands in for.
ASSUME RowsAssumption == None \notin NoteRow \cup ScheduleRow \cup States

\* Every variable keeps the shape of its table.
TypeOK ==
    /\ now \in Nat
    /\ current \in [Questions -> Nat]
    /\ session \in [Sessions -> SessionRow]
    /\ note \in [Questions -> NoteRow \cup {None}]
    /\ schedule \in [Questions -> ScheduleRow \cup {None}]
    /\ events \in [Questions -> Seq(EventRow)]

\* reconcileWrongNoteReview replays a note's events with the algorithm; this is
\* the state, schedule and last wrong version the replay expects.
Replay(log) ==
    LET after[i \in 0..Len(log)] ==
          IF i = 0 THEN [state |-> None, lastWrongVersion |-> None]
          ELSE [state |-> ApplyWrongNoteReview(after[i - 1].state, log[i].isCorrect,
                                               log[i].occurredAt),
                lastWrongVersion |-> IF log[i].isCorrect THEN after[i - 1].lastWrongVersion
                                                         ELSE log[i].version]
    IN  after

SnapshotOf(state) ==
    IF state = None THEN None
    ELSE [status |-> state.status, correctStreak |-> state.correctStreak,
          wrongCount |-> state.wrongCount]

\* The reconciliation job finds no EVENT_CHAIN mismatch: the events of a note are
\* in strict order of time and each continues exactly where the one before ended.
EventChainReconciles ==
    \A q \in Questions :
        LET log == events[q]
            after == Replay(log)
        IN  \A i \in 1..Len(log) :
                /\ i > 1 => log[i - 1].occurredAt < log[i].occurredAt
                /\ log[i].previous = SnapshotOf(after[i - 1].state)
                /\ log[i].next = SnapshotOf(after[i].state)

\* It finds no MATERIALIZED_WRONG_NOTE and no REVIEW_SCHEDULE mismatch: note and
\* schedule are what replaying the events gives.
NoteReconciles ==
    \A q \in Questions :
        LET log == events[q]
            last == Replay(log)[Len(log)]
        IN  /\ note[q] = None <=> log = <<>>
            /\ schedule[q] = None <=> log = <<>>
            /\ log # <<>> =>
                 /\ StateOf(note[q]) = last.state
                 /\ note[q].lastWrongVersion = last.lastWrongVersion
                 /\ note[q].updatedAt = log[Len(log)].occurredAt
                 /\ schedule[q] = ScheduleAfter(last.state, log[Len(log)].occurredAt)

\* It finds no SOURCE_MODE mismatch: an event's source fits the mode of a
\* submitted session that asked this version, and a retry's event answers a
\* question its source session missed in the same version.
SourceModeReconciles ==
    \A q \in Questions : \A i \in 1..Len(events[q]) :
        LET e == events[q][i]
            origin == session[e.session].retryOf
        IN  /\ session[e.session].phase = "DONE"
            /\ session[e.session].pins[q] = e.version
            /\ e.source = SourceOf(session[e.session].mode)
            /\ e.isCorrect <=> q \notin session[e.session].missed
            /\ origin # None => /\ e.source = "WRONG_NOTE_REVIEW"
                                /\ q \in session[origin].missed
                                /\ session[origin].pins[q] = e.version

\* What the status means to a learner, read off the answers alone: NEW is one
\* miss, AGAIN a later miss, REVIEWING one right answer since the last miss and
\* SOLVED at least two; the count is the number of misses.
StatusTellsHistory ==
    \A q \in Questions :
        note[q] # None =>
            LET log == events[q]
                n == Len(log)
                Right(i) == i >= 1 /\ log[i].isCorrect
            IN  /\ note[q].wrongCount = Cardinality({i \in 1..n : ~log[i].isCorrect})
                /\ note[q].status = "NEW" <=> n = 1
                /\ note[q].status = "AGAIN" <=> n > 1 /\ ~Right(n)
                /\ note[q].status = "REVIEWING" <=> Right(n) /\ ~Right(n - 1)
                /\ note[q].status = "SOLVED" <=> Right(n) /\ Right(n - 1)

\* The notes, schedules and events of a learner tell one history: the reconciliation job
\* finds nothing to report, whatever sessions overlap and however stale their clocks are,
\* and the status a learner sees is what the answers say.
HistoryAgrees ==
    EventChainReconciles /\ NoteReconciles /\ SourceModeReconciles /\ StatusTellsHistory

\* No submission is refused with INVALID_PREVIOUS_STATE or
\* NON_MONOTONIC_OCCURRED_AT, however stale its clock reading.
SubmissionNeverRefused ==
    \A s \in Sessions, at \in Observed :
        session[s].phase = "OPEN" =>
            \A q \in Asked(s) : note[q] # None =>
                ValidState(StateOf(note[q])) /\ OccursAfter(note[q], EffectiveAt(s, at))

\* The review pointer never runs ahead of the published version, so a targeted
\* review never meets "pointer cannot be moved to an older version".
PointerNeverAhead ==
    \A q \in Questions :
        note[q] # None /\ note[q].pointer # None => note[q].pointer <= current[q]

\* The review pointer never moves back.
PointerMonotonic ==
    [][\A q \in Questions :
         note[q] # None /\ note[q].pointer # None =>
             note'[q].pointer # None /\ note[q].pointer <= note'[q].pointer]_vars
=============================================================================
