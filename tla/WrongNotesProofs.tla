-------------------------- MODULE WrongNotesProofs --------------------------
(***************************************************************************)
(* Theorems about WrongNotes: its rows keep their types, no submission is  *)
(* refused for the time or the state of a note, a note's pointer neither   *)
(* moves back nor passes the published version, and notes, schedules and   *)
(* events tell one history.                                                *)
(***************************************************************************)
EXTENDS WrongNotes, WellFoundedInduction, FiniteSetTheorems, TLAPS

----------------------------------------------------------------------------
(* The latest of a set of times.                                            *)

\* A set of natural numbers that is not empty has a least element.
LEMMA HasLeast ==
    ASSUME NEW U \in SUBSET Nat, U # {}
    PROVE  \E m \in U : \A n \in U : m <= n
<1> DEFINE Less == {ss \in Nat \X Nat : ss[1] < ss[2]}
<1>1. IsWellFoundedOn(Less, Nat)
  BY NatLessThanWellFounded DEF OpToRel
<1>2. PICK m \in U : \A n \in U : <<n, m>> \notin Less
  <2> HIDE DEF Less
  <2> QED BY <1>1, WFMin
<1>3. \A n \in U : ~(n < m)
  BY <1>2
<1>4. m \in Nat /\ \A n \in U : n \in Nat
  OBVIOUS
<1> QED
  BY <1>3, <1>4

\* One that is bounded has a greatest element: its least upper bound, which would not be
\* the least if it were not in the set.
LEMMA HasGreatest ==
    ASSUME NEW S \in SUBSET Nat, S # {}, NEW b \in Nat, \A x \in S : x <= b
    PROVE  \E m \in S : \A x \in S : x <= m
<1> DEFINE U == {n \in Nat : \A x \in S : x <= n}
<1>1. PICK m \in U : \A n \in U : m <= n
  <2>1. U \in SUBSET Nat /\ b \in U
    OBVIOUS
  <2> HIDE DEF U
  <2> QED BY <2>1, HasLeast
<1>2. m \in Nat /\ \A x \in S : x \in Nat /\ x <= m
  BY <1>1
<1>3. m \in S
  <2>1. SUFFICES ASSUME m \notin S PROVE FALSE
    OBVIOUS
  <2>2. \A x \in S : x \in Nat /\ x < m
    <3>1. \A x \in S : x # m
      BY <2>1
    <3> QED BY <1>2, <3>1
  <2>3. PICK x \in S : x \in Nat /\ x < m
    BY <2>2
  <2>4. m - 1 \in Nat /\ m - 1 < m
    BY <1>2, <2>3
  <2>5. \A y \in S : y <= m - 1
    BY <1>2, <2>2
  <2>6. m - 1 \in U
    BY <2>4, <2>5
  <2> QED BY <1>1, <1>2, <2>4, <2>6
<1> QED
  BY <1>2, <1>3

----------------------------------------------------------------------------
(* The inductive invariant.                                                 *)

\* What the algorithm may be asked to continue from, and a row that was last changed when
\* its learner last answered.
Sound(row) ==
    /\ ValidState(StateOf(row))
    /\ row.lastWrongAt <= row.updatedAt
    /\ row.lastReviewedAt # None => row.lastReviewedAt <= row.updatedAt

NotesSound == \A q \in Questions : note[q] # None => Sound(note[q])

\* Some time is later than every change of a note: without it the maximum that a
\* submission takes over its notes need not exist.
Bounded == \E n \in Nat : \A q \in Questions : note[q] # None => note[q].updatedAt <= n

Kept == TypeOK /\ NotesSound /\ Bounded /\ PointerNeverAhead

\* The time of a submission is later than the last change of every note it looks at.
LEMMA EffectiveIsLater ==
    ASSUME Kept, NEW s \in Sessions, NEW at \in Nat
    PROVE  /\ EffectiveAt(s, at) \in Nat
           /\ \A q \in Asked(s) : note[q] # None => note[q].updatedAt < EffectiveAt(s, at)
<1> DEFINE Changes == {note[q].updatedAt + 1 : q \in {p \in Asked(s) : note[p] # None}}
           lower == {at, session[s].startedAt} \cup Changes
<1>1. session[s].startedAt \in Nat
  BY DEF Kept, TypeOK, SessionRow
<1>2. \A q \in Questions : note[q] # None => note[q].updatedAt \in Nat
  BY DEF Kept, TypeOK, NoteRow
<1>3. PICK n \in Nat : \A q \in Questions : note[q] # None => note[q].updatedAt <= n
  BY DEF Kept, Bounded
<1>4. Changes \in SUBSET Nat /\ \A x \in Changes : x <= n + 1
  BY <1>2, <1>3 DEF Asked
<1>5. lower \in SUBSET Nat /\ lower # {}
  BY <1>1, <1>4
<1>6. PICK b \in Nat : \A x \in lower : x <= b
  <2>1. n + 1 + at + session[s].startedAt \in Nat
    BY <1>1
  <2>2. \A x \in lower : x <= n + 1 + at + session[s].startedAt
    <3> TAKE x \in lower
    <3>1. CASE x = at BY <1>1, <3>1
    <3>2. CASE x = session[s].startedAt BY <1>1, <3>2
    <3>3. CASE x \in Changes
      <4>1. x \in Nat /\ x <= n + 1 BY <1>4, <3>3
      <4> HIDE DEF Changes
      <4> QED BY <4>1, <1>1
    <3> QED BY <3>1, <3>2, <3>3
  <2> QED BY <2>1, <2>2
<1>7. \E t \in lower : \A x \in lower : x <= t
  <2> HIDE DEF lower, Changes
  <2> QED BY <1>5, <1>6, HasGreatest
<1>8. EffectiveAt(s, at) \in lower /\ \A x \in lower : x <= EffectiveAt(s, at)
  <2>1. EffectiveAt(s, at) = CHOOSE t \in lower : \A x \in lower : x <= t
    BY DEF EffectiveAt
  <2> HIDE DEF lower, Changes
  <2> QED BY <1>7, <2>1
<1>9. EffectiveAt(s, at) \in Nat
  <2> HIDE DEF lower, Changes
  <2> QED BY <1>5, <1>8
<1>10. ASSUME NEW q \in Asked(s), note[q] # None
       PROVE  note[q].updatedAt < EffectiveAt(s, at)
  <2>1. note[q].updatedAt + 1 \in lower
    BY <1>10
  <2>2. note[q].updatedAt \in Nat
    BY <1>2, <1>10 DEF Asked
  <2>3. note[q].updatedAt + 1 <= EffectiveAt(s, at)
    <3> HIDE DEF lower, Changes
    <3> QED BY <1>8, <2>1
  <2> QED BY <1>9, <2>2, <2>3
<1> QED
  BY <1>9, <1>10

\* No submission meets a note it may not continue from, or one that was answered later.
LEMMA KeptNeverRefuses == Kept => SubmissionNeverRefused
<1> SUFFICES ASSUME Kept, NEW s \in Sessions, NEW at \in Observed,
                    NEW q \in Asked(s), note[q] # None
             PROVE  ValidState(StateOf(note[q])) /\ OccursAfter(note[q], EffectiveAt(s, at))
  BY DEF SubmissionNeverRefused
<1>1. at \in Nat
  BY DEF Observed, Kept, TypeOK
<1>2. EffectiveAt(s, at) \in Nat /\ note[q].updatedAt < EffectiveAt(s, at)
  BY <1>1, EffectiveIsLater
<1>3. Sound(note[q]) /\ note[q] \in NoteRow
  BY DEF Kept, NotesSound, TypeOK, Asked
<1>4. note[q].updatedAt \in Nat /\ note[q].lastWrongAt \in Nat
      /\ (note[q].lastReviewedAt # None => note[q].lastReviewedAt \in Nat)
  BY <1>3 DEF NoteRow
<1>5. OccursAfter(note[q], EffectiveAt(s, at))
  BY <1>2, <1>3, <1>4 DEF OccursAfter, Sound
<1> QED
  BY <1>3, <1>5 DEF Sound
----------------------------------------------------------------------------
(* The algorithm.                                                           *)

\* From a state it accepts, at a time that is not earlier, the algorithm goes to a state it
\* accepts, and it leaves a question that has a state with one.
LEMMA ReviewStaysValid ==
    ASSUME NEW state, state \in States, ValidState(state), NEW ok \in BOOLEAN,
           NEW t \in Nat, OccursAfter(state, t),
           NEW after, after = ApplyWrongNoteReview(state, ok, t), after # None
    PROVE  /\ after \in States
           /\ ValidState(after)
           /\ after.lastWrongAt <= t
           /\ after.lastReviewedAt # None => after.lastReviewedAt <= t
<1>1. None \notin Nat
  BY ConstantsAssumption
<1>2. /\ state.wrongCount \in Nat /\ state.correctStreak \in Nat
      /\ state.lastWrongAt \in Nat /\ state.lastWrongAt <= t
      /\ state.wrongCount >= 1
  BY DEF States, OccursAfter, ValidState
<1>3. CASE state = None
  <2>1. after = FirstWrong(t)
    BY <1>3 DEF ApplyWrongNoteReview
  <2> QED BY <1>1, <2>1 DEF FirstWrong, States, NoteStatuses, ValidState
<1>4. CASE state # None /\ ok
  <2>1. after = [wrongCount |-> state.wrongCount,
                 correctStreak |-> state.correctStreak + 1,
                 status |-> IF state.correctStreak + 1 >= 2 THEN "SOLVED" ELSE "REVIEWING",
                 lastWrongAt |-> state.lastWrongAt, lastReviewedAt |-> t]
    BY <1>4 DEF ApplyWrongNoteReview
  <2> QED BY <1>1, <1>2, <2>1 DEF States, NoteStatuses, ValidState
<1>5. CASE state # None /\ ~ok
  <2>1. after = [wrongCount |-> state.wrongCount + 1, correctStreak |-> 0,
                 status |-> "AGAIN", lastWrongAt |-> t, lastReviewedAt |-> t]
    BY <1>5 DEF ApplyWrongNoteReview
  <2> QED BY <1>1, <1>2, <2>1 DEF States, NoteStatuses, ValidState
<1> QED
  BY <1>3, <1>4, <1>5

\* The first miss of a question.
LEMMA FirstIsValid ==
    ASSUME NEW ok \in BOOLEAN, NEW t \in Nat,
           NEW after, after = ApplyWrongNoteReview(None, ok, t), after # None
    PROVE  /\ after \in States
           /\ ValidState(after)
           /\ after.lastWrongAt <= t
           /\ after.lastReviewedAt # None => after.lastReviewedAt <= t
<1>1. None \notin Nat
  BY ConstantsAssumption
<1>2. after = FirstWrong(t)
  BY DEF ApplyWrongNoteReview
<1> QED
  BY <1>1, <1>2 DEF FirstWrong, States, NoteStatuses, ValidState

\* The interval of a schedule.
LEMMA ScheduleTyped ==
    ASSUME NEW after, after \in States, NEW t \in Nat
    PROVE  ScheduleAfter(after, t) \in ScheduleRow
<1> DEFINE i == Interval(after.correctStreak)
<1>1. i \in {1, 3, 7, 14, 30}
  BY DEF Interval, States
<1>2. Day \in Nat
  BY ConstantsAssumption
<1>3. t + i * Day \in Nat
  <2> HIDE DEF i
  <2>1. CASE i = 1 BY <1>2, <2>1
  <2>2. CASE i = 3 BY <1>2, <2>2
  <2>3. CASE i = 7 BY <1>2, <2>3
  <2>4. CASE i = 14 BY <1>2, <2>4
  <2>5. CASE i = 30 BY <1>2, <2>5
  <2> QED BY <1>1, <2>1, <2>2, <2>3, <2>4, <2>5
<1>4. ScheduleAfter(after, t) = [nextReviewAt |-> t + i * Day, intervalDays |-> i,
                                 updatedAt |-> t]
  BY DEF ScheduleAfter
<1> QED
  <2> HIDE DEF i
  <2> QED BY <1>1, <1>3, <1>4 DEF ScheduleRow

----------------------------------------------------------------------------
(* One submission, question by question.                                    *)

\* The state that a submission leaves a question in, and what that means for its rows.
LEMMA AnswerKept ==
    ASSUME Kept, NEW s \in Sessions, NEW missed, NEW at \in Nat,
           NEW q \in Asked(s),
           NEW t, t = EffectiveAt(s, at),
           NEW ok \in BOOLEAN, ok <=> q \notin missed,
           NEW after, after = ApplyWrongNoteReview(StateOf(note[q]), ok, t), after # None,
           NEW row, row = NoteAfter(s, q, missed, after, t)
    PROVE  /\ after \in States
           /\ row \in NoteRow
           /\ row # None => Sound(row)
           /\ row.updatedAt = t
           /\ row.pointer = IF note[q] = None THEN None ELSE note[q].pointer
<1>1. q \in Questions
  BY DEF Asked
<1>2. t \in Nat
  BY EffectiveIsLater
<1>3. None \notin Nat
  BY ConstantsAssumption
<1>4. /\ after \in States
      /\ ValidState(after)
      /\ after.lastWrongAt <= t
      /\ after.lastReviewedAt # None => after.lastReviewedAt <= t
  <2>1. CASE note[q] = None
    <3>1. after = ApplyWrongNoteReview(None, ok, t)
      BY <2>1 DEF StateOf
    <3> QED BY <1>2, <3>1, FirstIsValid
  <2>2. CASE note[q] # None
    <3>1. note[q] \in NoteRow /\ Sound(note[q])
      BY <1>1, <2>2 DEF Kept, TypeOK, NotesSound
    <3>2. StateOf(note[q]) = [wrongCount |-> note[q].wrongCount,
                              correctStreak |-> note[q].correctStreak,
                              status |-> note[q].status, lastWrongAt |-> note[q].lastWrongAt,
                              lastReviewedAt |-> note[q].lastReviewedAt]
      BY <2>2 DEF StateOf
    <3>3. StateOf(note[q]) \in States
      BY <3>1, <3>2 DEF NoteRow, States
    <3>4. note[q].updatedAt < t
      BY <2>2, EffectiveIsLater
    <3>5. OccursAfter(note[q], t)
      BY <1>2, <3>1, <3>4 DEF OccursAfter, Sound, NoteRow
    <3>6. OccursAfter(StateOf(note[q]), t)
      BY <3>2, <3>5 DEF OccursAfter
    <3> QED BY <1>2, <3>1, <3>3, <3>6, ReviewStaysValid DEF Sound
  <2> QED BY <2>1, <2>2
<1> DEFINE p == IF note[q] = None THEN None ELSE note[q].pointer
           v == IF q \in missed THEN session[s].pins[q] ELSE note[q].lastWrongVersion
<1>5. row = [wrongCount |-> after.wrongCount, correctStreak |-> after.correctStreak,
             status |-> after.status, lastWrongAt |-> after.lastWrongAt,
             lastReviewedAt |-> after.lastReviewedAt,
             lastWrongVersion |-> v, pointer |-> p, updatedAt |-> t]
  BY DEF NoteAfter
<1>6. p \in Nat \cup {None}
  BY <1>1 DEF Kept, TypeOK, NoteRow
<1>7. v \in Nat
  <2>1. CASE q \in missed
    BY <1>1, <2>1 DEF Kept, TypeOK, SessionRow
  <2>2. CASE q \notin missed /\ note[q] # None
    BY <1>1, <2>2 DEF Kept, TypeOK, NoteRow
  <2>3. CASE q \notin missed /\ note[q] = None
    <3>1. StateOf(note[q]) = None /\ ok
      BY <2>3 DEF StateOf
    <3>2. after = None
      BY <3>1 DEF ApplyWrongNoteReview
    <3> QED BY <3>2
  <2> QED BY <2>1, <2>2, <2>3
<1>8. row \in NoteRow
  <2> HIDE DEF p, v
  <2> QED BY <1>2, <1>4, <1>5, <1>6, <1>7 DEF NoteRow, States
<1>9. /\ row.wrongCount = after.wrongCount /\ row.correctStreak = after.correctStreak
      /\ row.status = after.status /\ row.lastWrongAt = after.lastWrongAt
      /\ row.lastReviewedAt = after.lastReviewedAt /\ row.updatedAt = t
      /\ row.pointer = p
  <2> HIDE DEF p, v
  <2> QED BY <1>5
<1>10. ASSUME row # None PROVE Sound(row)
  <2> HIDE DEF p, v
  <2>1. StateOf(row) = [wrongCount |-> after.wrongCount,
                        correctStreak |-> after.correctStreak,
                        status |-> after.status, lastWrongAt |-> after.lastWrongAt,
                        lastReviewedAt |-> after.lastReviewedAt]
    BY <1>9, <1>10 DEF StateOf
  <2>2. ValidState(StateOf(row))
    BY <1>4, <2>1 DEF ValidState
  <2> QED BY <1>4, <1>9, <2>2 DEF Sound
<1> QED
  BY <1>4, <1>8, <1>9, <1>10
----------------------------------------------------------------------------
(* The handlers.                                                            *)

PointersForward ==
    \A q \in Questions :
        note[q] # None /\ note[q].pointer # None =>
            note'[q].pointer # None /\ note[q].pointer <= note'[q].pointer

\* Only the notes' rows and the published versions matter to what is kept beside the types.
NotesKept == NotesSound /\ Bounded /\ PointerNeverAhead

\* Nothing is open, missed or published twice yet.
LEMMA KeptAtFirst == Init => Kept
<1> SUFFICES ASSUME Init PROVE Kept
  OBVIOUS
<1>1. None \notin Nat
  BY ConstantsAssumption
<1>2. Unused \in SessionRow
  BY DEF Unused, SessionRow, Modes
<1>3. TypeOK
  BY <1>2 DEF Init, TypeOK
<1>4. \A q \in Questions : note[q] = None
  BY DEF Init
<1>5. NotesSound /\ PointerNeverAhead
  BY <1>4 DEF NotesSound, PointerNeverAhead
<1>6. Bounded
  BY <1>4 DEF Bounded
<1> QED
  BY <1>3, <1>5, <1>6 DEF Kept

\* A handler that starts a session leaves the sessions with their types.
LEMMA OpenTyped ==
    ASSUME Kept, NEW s \in Sessions, NEW mode \in Modes, NEW source \in Sessions \cup {None},
           NEW pins \in [Questions -> Nat], NEW at \in Nat, Open(s, mode, source, pins, at)
    PROVE  session' \in [Sessions -> SessionRow]
<1> DEFINE row == [phase |-> "OPEN", mode |-> mode, retryOf |-> source, pins |-> pins,
                   startedAt |-> at, missed |-> {}]
<1>1. row \in SessionRow
  BY DEF SessionRow
<1>2. session' = [session EXCEPT ![s] = row]
  BY DEF Open
<1>3. session \in [Sessions -> SessionRow]
  BY DEF Kept, TypeOK
<1> QED
  <2> HIDE DEF row
  <2> QED BY <1>1, <1>2, <1>3

\* The versions that a new session pins.
LEMMA PinsTyped ==
    ASSUME Kept, NEW asked
    PROVE  Pins(asked) \in [Questions -> Nat]
BY DEF Kept, TypeOK, Pins

\* A step that leaves the notes alone, and at most publishes newer versions.
LEMMA NotesUntouched ==
    ASSUME Kept, UNCHANGED note, current' \in [Questions -> Nat],
           \A q \in Questions : current[q] <= current'[q]
    PROVE  NotesKept' /\ PointersForward
<1>1. NotesSound' /\ Bounded'
  BY DEF Kept, NotesSound, Bounded
<1>2. \A q \in Questions : note[q] # None => note[q].pointer \in Nat \cup {None}
  BY DEF Kept, TypeOK, NoteRow
<1>3. PointerNeverAhead'
  BY <1>2 DEF Kept, TypeOK, PointerNeverAhead
<1>4. PointersForward
  BY <1>2 DEF PointersForward
<1> QED
  BY <1>1, <1>3, <1>4 DEF NotesKept

\* A step that moves pointers up to the published version, of notes whose pointer is not
\* ahead of it.
LEMMA PointersMove ==
    ASSUME Kept, UNCHANGED current, NEW moved \in SUBSET Questions,
           \A q \in moved : note[q] # None,
           note' = [q \in Questions |->
                      IF q \in moved THEN [note[q] EXCEPT !.pointer = current[q]] ELSE note[q]]
    PROVE  /\ note' \in [Questions -> NoteRow \cup {None}]
           /\ NotesKept'
           /\ PointersForward
<1>1. None \notin Nat
  BY ConstantsAssumption
<1>2. \A q \in Questions : note[q] # None => note[q] \in NoteRow
  BY DEF Kept, TypeOK
<1>3. ASSUME NEW q \in moved
      PROVE  /\ note'[q] \in NoteRow
             /\ note'[q] # None => Sound(note'[q])
             /\ note'[q].updatedAt = note[q].updatedAt
             /\ note'[q].pointer = current[q]
  <2> DEFINE row == [note[q] EXCEPT !.pointer = current[q]]
  <2>1. note[q] \in NoteRow /\ Sound(note[q]) /\ current[q] \in Nat
    BY <1>3 DEF Kept, TypeOK, NotesSound
  <2>2. /\ row \in NoteRow
        /\ row.wrongCount = note[q].wrongCount /\ row.correctStreak = note[q].correctStreak
        /\ row.status = note[q].status /\ row.lastWrongAt = note[q].lastWrongAt
        /\ row.lastReviewedAt = note[q].lastReviewedAt
        /\ row.updatedAt = note[q].updatedAt /\ row.pointer = current[q]
    BY <2>1 DEF NoteRow
  <2>3. note'[q] = row
    BY <1>3
  <2> HIDE DEF row
  <2>4. note'[q] # None => StateOf(note'[q]) = StateOf(note[q])
    BY <1>3, <2>2, <2>3 DEF StateOf
  <2>5. note'[q] # None => Sound(note'[q])
    BY <2>1, <2>2, <2>3, <2>4 DEF Sound
  <2> QED BY <2>2, <2>3, <2>5
<1>4. \A q \in Questions \ moved : note'[q] = note[q]
  OBVIOUS
<1>5. note' \in [Questions -> NoteRow \cup {None}]
  <2>1. \A q \in Questions : note'[q] \in NoteRow \cup {None}
    BY <1>2, <1>3, <1>4
  <2> QED BY <2>1
<1>6. NotesSound'
  BY <1>3, <1>4 DEF Kept, NotesSound
<1>7. Bounded'
  <2>1. PICK n \in Nat : \A q \in Questions : note[q] # None => note[q].updatedAt <= n
    BY DEF Kept, Bounded
  <2>2. \A q \in Questions : note'[q] # None => note'[q].updatedAt <= n
    BY <1>3, <1>4, <2>1
  <2> QED BY <2>2 DEF Bounded
<1>8. PointerNeverAhead'
  <2>1. \A q \in Questions : current[q] \in Nat
    BY DEF Kept, TypeOK
  <2> QED BY <1>3, <1>4, <2>1 DEF Kept, PointerNeverAhead
<1>9. PointersForward
  <2> SUFFICES ASSUME NEW q \in Questions, note[q] # None, note[q].pointer # None
               PROVE  note'[q].pointer # None /\ note[q].pointer <= note'[q].pointer
    BY DEF PointersForward
  <2>1. note[q].pointer \in Nat /\ current[q] \in Nat /\ note[q].pointer <= current[q]
    BY <1>2 DEF Kept, TypeOK, PointerNeverAhead, NoteRow
  <2> QED BY <1>1, <1>3, <1>4, <2>1
<1> QED
  BY <1>5, <1>6, <1>7, <1>8, <1>9 DEF NotesKept
\* A handler that only starts a session.
LEMMA RandomKept ==
    ASSUME Kept, NEW s \in Sessions, NEW at \in Nat, NEW asked \in SUBSET Questions,
           CreateRandom(s, asked, at)
    PROVE  TypeOK' /\ NotesKept' /\ PointersForward
<1>1. Open(s, "RANDOM", None, Pins(asked), at)
      /\ UNCHANGED <<now, current, note, schedule, events>>
  BY DEF CreateRandom
<1>2. session' \in [Sessions -> SessionRow]
  BY <1>1, PinsTyped, OpenTyped DEF Modes
<1>3. TypeOK'
  BY <1>1, <1>2 DEF Kept, TypeOK
<1>4. current' \in [Questions -> Nat] /\ \A q \in Questions : current[q] <= current'[q]
  BY <1>1 DEF Kept, TypeOK
<1> QED
  BY <1>1, <1>3, <1>4, NotesUntouched

\* A retry pins what its source pinned.
LEMMA RetryKept ==
    ASSUME Kept, NEW s \in Sessions, NEW at \in Nat, NEW source \in Sessions,
           CreateRetry(s, source, at)
    PROVE  TypeOK' /\ NotesKept' /\ PointersForward
<1> DEFINE pins == [q \in Questions |-> IF q \in session[source].missed
                                        THEN session[source].pins[q] ELSE 0]
<1>1. Open(s, "WRONG_NOTE", source, pins, at)
      /\ UNCHANGED <<now, current, note, schedule, events>>
  BY DEF CreateRetry
<1>2. pins \in [Questions -> Nat]
  BY DEF Kept, TypeOK, SessionRow
<1>3. session' \in [Sessions -> SessionRow]
  <2> HIDE DEF pins
  <2> QED BY <1>1, <1>2, OpenTyped DEF Modes
<1>4. TypeOK'
  BY <1>1, <1>3 DEF Kept, TypeOK
<1>5. current' \in [Questions -> Nat] /\ \A q \in Questions : current[q] <= current'[q]
  BY <1>1 DEF Kept, TypeOK
<1> QED
  BY <1>1, <1>4, <1>5, NotesUntouched

\* A review moves pointers to the versions it asks.
LEMMA ReviewKept ==
    ASSUME Kept, NEW s \in Sessions, NEW at \in Nat, NEW mode \in ReviewModes,
           NEW asked \in SUBSET Questions, CreateReview(s, mode, asked, at)
    PROVE  TypeOK' /\ NotesKept' /\ PointersForward
<1> DEFINE moved == {q \in asked : note[q].pointer = None \/ current[q] > note[q].pointer}
<1>1. Open(s, mode, None, Pins(asked), at) /\ UNCHANGED <<now, current, schedule, events>>
  BY DEF CreateReview
<1>2. session' \in [Sessions -> SessionRow]
  BY <1>1, PinsTyped, OpenTyped DEF Modes, ReviewModes
<1>3. moved \in SUBSET Questions /\ \A q \in moved : note[q] # None
  BY DEF CreateReview
<1>4. note' = [q \in Questions |->
                 IF q \in moved THEN [note[q] EXCEPT !.pointer = current[q]] ELSE note[q]]
  BY DEF CreateReview, PointersMoved
<1>5. /\ note' \in [Questions -> NoteRow \cup {None}]
      /\ NotesKept'
      /\ PointersForward
  <2> HIDE DEF moved
  <2> QED BY <1>1, <1>3, <1>4, PointersMove
<1> QED
  BY <1>1, <1>2, <1>5 DEF Kept, TypeOK

\* A targeted review moves the pointer of its note.
LEMMA TargetedReviewKept ==
    ASSUME Kept, NEW s \in Sessions, NEW at \in Nat, NEW p \in Questions,
           CreateTargetedReview(s, p, at)
    PROVE  TypeOK' /\ NotesKept' /\ PointersForward
<1>1. Open(s, "WRONG_NOTE", None, Pins({p}), at) /\ UNCHANGED <<now, current, schedule, events>>
  BY DEF CreateTargetedReview
<1>2. session' \in [Sessions -> SessionRow]
  BY <1>1, PinsTyped, OpenTyped DEF Modes
<1>3. {p} \in SUBSET Questions /\ \A q \in {p} : note[q] # None
  BY DEF CreateTargetedReview
<1>4. note' = [q \in Questions |->
                 IF q \in {p} THEN [note[q] EXCEPT !.pointer = current[q]] ELSE note[q]]
  <2>1. note' = [note EXCEPT ![p] = [note[p] EXCEPT !.pointer = current[p]]]
    BY DEF CreateTargetedReview
  <2>2. note \in [Questions -> NoteRow \cup {None}]
    BY DEF Kept, TypeOK
  <2> QED BY <2>1, <2>2
<1>5. /\ note' \in [Questions -> NoteRow \cup {None}]
      /\ NotesKept'
      /\ PointersForward
  BY <1>1, <1>3, <1>4, PointersMove
<1> QED
  BY <1>1, <1>2, <1>5 DEF Kept, TypeOK

\* Publishing a newer version.
LEMMA PublishKept ==
    ASSUME Kept, NEW p \in Questions, Publish(p)
    PROVE  TypeOK' /\ NotesKept' /\ PointersForward
<1>1. current' = [current EXCEPT ![p] = current[p] + 1]
      /\ UNCHANGED <<now, session, note, schedule, events>>
  BY DEF Publish
<1>2. current \in [Questions -> Nat]
  BY DEF Kept, TypeOK
<1>3. current' \in [Questions -> Nat] /\ \A q \in Questions : current[q] <= current'[q]
  BY <1>1, <1>2
<1>4. TypeOK'
  BY <1>1, <1>3 DEF Kept, TypeOK
<1> QED
  BY <1>1, <1>3, <1>4, NotesUntouched

\* Time passes.
LEMMA TickKept ==
    ASSUME Kept, Tick
    PROVE  TypeOK' /\ NotesKept' /\ PointersForward
<1>1. now' = now + 1 /\ UNCHANGED <<current, session, note, schedule, events>>
  BY DEF Tick
<1>2. TypeOK'
  BY <1>1 DEF Kept, TypeOK
<1>3. current' \in [Questions -> Nat] /\ \A q \in Questions : current[q] <= current'[q]
  BY <1>1 DEF Kept, TypeOK
<1> QED
  BY <1>1, <1>2, <1>3, NotesUntouched

\* A submission. Each note it touches is left at the submission's own time, which is later
\* than that of every note it looks at; its pointer stays where it is.
LEMMA SubmitKept ==
    ASSUME Kept, NEW s \in Sessions, NEW at \in Nat, NEW missed \in SUBSET Questions,
           Submit(s, missed, at)
    PROVE  TypeOK' /\ NotesKept' /\ PointersForward
<1>1. PICK t : t = EffectiveAt(s, at)
  OBVIOUS
<1>2. t \in Nat
  BY <1>1, EffectiveIsLater
<1>3. None \notin Nat
  BY ConstantsAssumption
<1> DEFINE After(q) == ApplyWrongNoteReview(StateOf(note[q]), q \notin missed, t)
           Touched == {q \in Asked(s) : After(q) # None}
           Event(q) ==
             [session |-> s, version |-> session[s].pins[q],
              source |-> SourceOf(session[s].mode), isCorrect |-> q \notin missed,
              previous |-> IF note[q] = None THEN None
                           ELSE [status |-> note[q].status,
                                 correctStreak |-> note[q].correctStreak,
                                 wrongCount |-> note[q].wrongCount],
              next |-> [status |-> After(q).status, correctStreak |-> After(q).correctStreak,
                        wrongCount |-> After(q).wrongCount],
              occurredAt |-> t]
<1>4. /\ missed \subseteq Asked(s)
      /\ session' = [session EXCEPT ![s] = [session[s] EXCEPT !.phase = "DONE",
                                                             !.missed = missed]]
      /\ note' = [q \in Questions |-> IF q \in Touched
                                      THEN NoteAfter(s, q, missed, After(q), t) ELSE note[q]]
      /\ schedule' = [q \in Questions |-> IF q \in Touched THEN ScheduleAfter(After(q), t)
                                                            ELSE schedule[q]]
      /\ events' = [q \in Questions |-> IF q \in Touched THEN Append(events[q], Event(q))
                                                          ELSE events[q]]
      /\ UNCHANGED <<now, current>>
  BY <1>1 DEF Submit
<1>5. ASSUME NEW q \in Touched
      PROVE  /\ After(q) \in States
             /\ NoteAfter(s, q, missed, After(q), t) \in NoteRow
             /\ note'[q] = NoteAfter(s, q, missed, After(q), t)
             /\ note'[q] # None => Sound(note'[q])
             /\ note'[q].updatedAt = t
             /\ note'[q].pointer = IF note[q] = None THEN None ELSE note[q].pointer
  <2>1. q \in Asked(s) /\ q \in Questions /\ After(q) # None
    BY DEF Asked
  <2>2. PICK ok \in BOOLEAN : ok = (q \notin missed)
    OBVIOUS
  <2>3. PICK after : after = After(q)
    OBVIOUS
  <2>4. PICK row : row = NoteAfter(s, q, missed, after, t)
    OBVIOUS
  <2>5. ok <=> q \notin missed
    BY <2>2
  <2>6. after = ApplyWrongNoteReview(StateOf(note[q]), ok, t)
    BY <2>2, <2>3
  <2>7. /\ after \in States
        /\ row \in NoteRow
        /\ row # None => Sound(row)
        /\ row.updatedAt = t
        /\ row.pointer = IF note[q] = None THEN None ELSE note[q].pointer
    <3>1. after # None
      BY <2>1, <2>3
    <3> HIDE DEF After, Touched, Event
    <3> QED BY <1>1, <2>1, <2>4, <2>5, <2>6, <3>1, AnswerKept
  <2>8. note'[q] = row
    <3> HIDE DEF After, Event
    <3> QED BY <1>4, <2>1, <2>3, <2>4
  <2> HIDE DEF After, Touched, Event
  <2> QED BY <2>3, <2>4, <2>7, <2>8
<1>6. Touched \subseteq Questions
  BY DEF Asked
<1>7. \A q \in Questions \ Touched :
         note'[q] = note[q] /\ schedule'[q] = schedule[q] /\ events'[q] = events[q]
  <2> HIDE DEF Touched, After, Event
  <2> QED BY <1>4
<1>8. session' \in [Sessions -> SessionRow]
  <2>1. session \in [Sessions -> SessionRow]
    BY DEF Kept, TypeOK
  <2>2. [session[s] EXCEPT !.phase = "DONE", !.missed = missed] \in SessionRow
    BY <2>1 DEF SessionRow
  <2> QED BY <1>4, <2>1, <2>2
<1>9. note' \in [Questions -> NoteRow \cup {None}]
  <2>1. note \in [Questions -> NoteRow \cup {None}]
    BY DEF Kept, TypeOK
  <2>2. \A q \in Questions : note'[q] \in NoteRow \cup {None}
    <3> HIDE DEF Touched, After, Event
    <3> QED BY <1>5, <1>6, <1>7, <2>1
  <2>3. \E f : note' = [q \in Questions |-> f[q]]
    <3>1. note' = [q \in Questions |-> note'[q]]
      BY <1>4
    <3> QED BY <3>1
  <2> HIDE DEF Touched, After, Event
  <2> QED BY <2>2, <2>3
<1>10. schedule' \in [Questions -> ScheduleRow \cup {None}]
  <2>1. schedule \in [Questions -> ScheduleRow \cup {None}]
    BY DEF Kept, TypeOK
  <2>2. \A q \in Touched : ScheduleAfter(After(q), t) \in ScheduleRow
    <3> HIDE DEF Touched, After, Event
    <3> QED BY <1>2, <1>5, ScheduleTyped
  <2> HIDE DEF Touched, After, Event
  <2> QED BY <1>4, <1>6, <2>1, <2>2
<1>11. events' \in [Questions -> Seq(EventRow)]
  <2>1. events \in [Questions -> Seq(EventRow)]
    BY DEF Kept, TypeOK
  <2>2. ASSUME NEW q \in Touched PROVE Event(q) \in EventRow
    <3>1. q \in Questions
      BY <1>6
    <3>2. session[s].pins[q] \in Nat
      BY <3>1 DEF Kept, TypeOK, SessionRow
    <3>3. SourceOf(session[s].mode) \in {"WRONG_NOTE_REVIEW", "STUDY_SUBMIT"}
      BY DEF SourceOf
    <3>4. (q \notin missed) \in BOOLEAN
      OBVIOUS
    <3>5. (IF note[q] = None THEN None
           ELSE [status |-> note[q].status, correctStreak |-> note[q].correctStreak,
                 wrongCount |-> note[q].wrongCount]) \in Snapshot \cup {None}
      BY <3>1 DEF Kept, TypeOK, NoteRow, Snapshot
    <3>6. [status |-> After(q).status, correctStreak |-> After(q).correctStreak,
           wrongCount |-> After(q).wrongCount] \in Snapshot
      <4>1. After(q) \in States
        BY <1>5
      <4> HIDE DEF After
      <4> QED BY <4>1 DEF States, Snapshot
    <3> QED BY <1>2, <3>2, <3>3, <3>4, <3>5, <3>6 DEF EventRow
  <2>3. \A q \in Touched : Append(events[q], Event(q)) \in Seq(EventRow)
    <3> HIDE DEF Touched, After, Event
    <3> QED BY <1>6, <2>1, <2>2
  <2> HIDE DEF Touched, After, Event
  <2> QED BY <1>4, <1>6, <2>1, <2>3
<1>12. TypeOK'
  <2> HIDE DEF Touched, After, Event
  <2> QED BY <1>4, <1>8, <1>9, <1>10, <1>11 DEF Kept, TypeOK
<1> HIDE DEF Touched, After, Event
<1>13. NotesSound'
  BY <1>5, <1>7 DEF Kept, NotesSound
<1>14. Bounded'
  <2>1. PICK n \in Nat : \A q \in Questions : note[q] # None => note[q].updatedAt <= n
    BY DEF Kept, Bounded
  <2>2. \A q \in Questions : note[q] # None => note[q].updatedAt \in Nat
    BY DEF Kept, TypeOK, NoteRow
  <2>3. \A q \in Questions : note'[q] # None => note'[q].updatedAt <= n + t
    BY <1>2, <1>5, <1>7, <2>1, <2>2
  <2>4. n + t \in Nat
    BY <1>2
  <2> QED BY <2>3, <2>4 DEF Bounded
<1>15. \A q \in Questions : note[q] # None => note[q].pointer \in Nat \cup {None}
  BY DEF Kept, TypeOK, NoteRow
<1>16. PointerNeverAhead'
  BY <1>4, <1>5, <1>7 DEF Kept, PointerNeverAhead
<1>17. PointersForward
  BY <1>3, <1>5, <1>7, <1>15 DEF PointersForward
<1> QED
  BY <1>12, <1>13, <1>14, <1>16, <1>17 DEF NotesKept

\* Every step keeps the invariant and leaves the pointers where they are or ahead of it.
LEMMA KeptByStep ==
    ASSUME Kept, [Next]_vars
    PROVE  Kept' /\ [PointersForward]_vars
<1>1. ASSUME NEW at \in Observed PROVE at \in Nat
  BY DEF Observed, Kept, TypeOK
<1>2. TypeOK' /\ NotesKept' /\ PointersForward => Kept'
  BY DEF Kept, NotesKept
<1>3. CASE Tick
  BY <1>2, <1>3, TickKept
<1>4. CASE \E q \in Questions : Publish(q)
  BY <1>2, <1>4, PublishKept
<1>5. ASSUME NEW s \in Sessions, NEW at \in Observed,
             NEW asked \in SUBSET Questions, CreateRandom(s, asked, at)
      PROVE  TypeOK' /\ NotesKept' /\ PointersForward
  BY <1>1, <1>5, RandomKept
<1>6. ASSUME NEW s \in Sessions, NEW at \in Observed, NEW m \in ReviewModes,
             NEW asked \in SUBSET Questions, CreateReview(s, m, asked, at)
      PROVE  TypeOK' /\ NotesKept' /\ PointersForward
  BY <1>1, <1>6, ReviewKept
<1>7. ASSUME NEW s \in Sessions, NEW at \in Observed, NEW q \in Questions,
             CreateTargetedReview(s, q, at)
      PROVE  TypeOK' /\ NotesKept' /\ PointersForward
  BY <1>1, <1>7, TargetedReviewKept
<1>8. ASSUME NEW s \in Sessions, NEW at \in Observed, NEW source \in Sessions,
             CreateRetry(s, source, at)
      PROVE  TypeOK' /\ NotesKept' /\ PointersForward
  BY <1>1, <1>8, RetryKept
<1>9. ASSUME NEW s \in Sessions, NEW at \in Observed, NEW missed \in SUBSET Questions,
             Submit(s, missed, at)
      PROVE  TypeOK' /\ NotesKept' /\ PointersForward
  BY <1>1, <1>9, SubmitKept
<1>10. CASE UNCHANGED vars
  <2>1. Kept'
    BY <1>10 DEF vars, Kept, TypeOK, NotesSound, Bounded, PointerNeverAhead
  <2> QED BY <1>10, <2>1
<1> QED
  BY <1>2, <1>3, <1>4, <1>5, <1>6, <1>7, <1>8, <1>9, <1>10 DEF Next

----------------------------------------------------------------------------
(* The replay of a log.                                                     *)

\* Where a replay starts, and how it continues.
Before == [state |-> None, lastWrongVersion |-> None]

\* The state, and the version of the last miss, after one more event.
Continue(x, e) ==
    [state |-> ApplyWrongNoteReview(x.state, e.isCorrect, e.occurredAt),
     lastWrongVersion |-> IF e.isCorrect THEN x.lastWrongVersion ELSE e.version]

\* What r has to be to be the replay of a log.
Replays(r, log) ==
    r = [i \in 0..Len(log) |-> IF i = 0 THEN Before ELSE Continue(r[i - 1], log[i])]

\* If anything satisfies the equation of a replay, the recursive function does.
LEMMA ReplayReplays ==
    ASSUME NEW log, \E r : Replays(r, log)
    PROVE  Replays(Replay(log), log)
BY Zenon DEF Replays, Replay, Before, Continue

\* The equation, element by element.
LEMMA ReplayElements ==
    ASSUME NEW log \in Seq(EventRow), NEW r, Replays(r, log)
    PROVE  /\ r[0] = Before
           /\ \A i \in 1..Len(log) : r[i] = Continue(r[i - 1], log[i])
<1>1. \A i \in 0..Len(log) : r[i] = IF i = 0 THEN Before ELSE Continue(r[i - 1], log[i])
  BY Zenon DEF Replays
<1>2. Len(log) \in Nat
  OBVIOUS
<1>3. 0 \in 0..Len(log)
  BY <1>2
<1>4. r[0] = Before
  BY <1>1, <1>3
<1>5. \A i \in 1..Len(log) : i \in 0..Len(log) /\ i # 0
  BY <1>2
<1> QED
  BY <1>1, <1>4, <1>5

\* A replay can be continued by one more event.
LEMMA ReplayContinues ==
    ASSUME NEW log \in Seq(EventRow), NEW e \in EventRow, NEW r, Replays(r, log)
    PROVE  Replays([i \in 0..Len(log) + 1 |->
                       IF i <= Len(log) THEN r[i] ELSE Continue(r[Len(log)], e)],
                   Append(log, e))
<1> DEFINE n == Len(log)
           long == Append(log, e)
           s == [i \in 0..n + 1 |-> IF i <= n THEN r[i] ELSE Continue(r[n], e)]
           t == [i \in 0..Len(long) |->
                   IF i = 0 THEN Before ELSE Continue(s[i - 1], long[i])]
<1>1. /\ n \in Nat /\ Len(long) = n + 1
      /\ \A i \in 1..n : long[i] = log[i]
      /\ long[n + 1] = e
  OBVIOUS
<1>2. /\ r[0] = Before
      /\ \A i \in 1..n : r[i] = Continue(r[i - 1], log[i])
  BY ReplayElements
<1> HIDE DEF n, long
<1>3. ASSUME NEW i \in 0..n + 1
      PROVE  s[i] = IF i = 0 THEN Before ELSE Continue(s[i - 1], long[i])
  <2>1. CASE i = 0
    <3>1. s[i] = r[0]
      BY <1>1, <2>1
    <3> QED BY <1>2, <2>1, <3>1
  <2>2. CASE i \in 1..n
    <3>1. s[i] = r[i] /\ s[i - 1] = r[i - 1]
      BY <1>1, <2>2
    <3> QED BY <1>1, <1>2, <2>2, <3>1
  <2>3. CASE i = n + 1
    <3>1. s[i] = Continue(r[n], e) /\ s[i - 1] = r[n]
      BY <1>1, <2>3
    <3> QED BY <1>1, <2>3, <3>1
  <2> QED BY <1>1, <2>1, <2>2, <2>3
<1>4. s = t
  BY <1>1, <1>3
<1> QED
  BY <1>4 DEF Replays, n, long

\* Every log has a replay: none is the shortest that has not.
LEMMA EveryLogReplays ==
    ASSUME NEW log \in Seq(EventRow)
    PROVE  Replays(Replay(log), log)
<1> DEFINE Bad == {n \in Nat : \E l \in Seq(EventRow) : Len(l) = n /\ ~\E r : Replays(r, l)}
<1>1. Bad = {}
  <2> SUFFICES ASSUME Bad # {} PROVE FALSE
    OBVIOUS
  <2>1. PICK m \in Bad : \A n \in Bad : m <= n
    <3>1. Bad \in SUBSET Nat
      OBVIOUS
    <3> HIDE DEF Bad
    <3> QED BY <3>1, HasLeast
  <2>2. PICK l \in Seq(EventRow) : Len(l) = m /\ ~\E r : Replays(r, l)
    BY <2>1
  <2>3. m \in Nat
    BY <2>1
  <2>4. CASE m = 0
    <3> DEFINE r == [i \in 0..Len(l) |-> Before]
               s == [i \in 0..Len(l) |-> IF i = 0 THEN Before ELSE Continue(r[i - 1], l[i])]
    <3>1. r = s
      BY <2>2, <2>4
    <3>2. Replays(r, l)
      BY <3>1 DEF Replays
    <3> QED BY <2>2, <3>2
  <2>5. CASE m # 0
    <3> DEFINE front == SubSeq(l, 1, m - 1)
               e == l[m]
    <3>1. /\ front \in Seq(EventRow) /\ Len(front) = m - 1
          /\ e \in EventRow
          /\ l = Append(front, e)
      BY <2>2, <2>3, <2>5
    <3> HIDE DEF front, e
    <3>2. m - 1 \in Nat /\ ~(m <= m - 1)
      BY <2>3, <2>5
    <3>3. m - 1 \notin Bad
      BY <2>1, <3>2
    <3>4. PICK r : Replays(r, front)
      BY <3>1, <3>2, <3>3
    <3> HIDE DEF Bad
    <3>5. \E s : Replays(s, Append(front, e))
      BY <3>1, <3>4, ReplayContinues
    <3> QED BY <2>2, <3>1, <3>5
  <2> QED BY <2>4, <2>5
<1>2. Len(log) \notin Bad
  BY <1>1
<1>3. Len(log) \in Nat
  OBVIOUS
<1>4. \E r : Replays(r, log)
  BY <1>2, <1>3
<1> QED
  BY <1>4, ReplayReplays

\* Two replays of one log are the same: there is no first event after which they differ.
LEMMA OneReplay ==
    ASSUME NEW log \in Seq(EventRow), NEW r, NEW s, Replays(r, log), Replays(s, log)
    PROVE  \A i \in 0..Len(log) : r[i] = s[i]
<1> DEFINE Bad == {i \in 0..Len(log) : r[i] # s[i]}
<1> SUFFICES ASSUME Bad # {} PROVE FALSE
  OBVIOUS
<1>1. Len(log) \in Nat
  OBVIOUS
<1>2. PICK m \in Bad : \A n \in Bad : m <= n
  <2>1. Bad \in SUBSET Nat
    BY <1>1
  <2> HIDE DEF Bad
  <2> QED BY <2>1, HasLeast
<1>3. m \in 0..Len(log) /\ r[m] # s[m]
  BY <1>2
<1>4. /\ r[0] = Before /\ s[0] = Before
      /\ \A i \in 1..Len(log) : /\ r[i] = Continue(r[i - 1], log[i])
                                /\ s[i] = Continue(s[i - 1], log[i])
  BY ReplayElements
<1>5. m \in 1..Len(log) /\ m - 1 \in 0..Len(log) /\ ~(m <= m - 1)
  BY <1>1, <1>3, <1>4
<1>6. r[m - 1] = s[m - 1]
  BY <1>2, <1>5
<1> QED
  BY <1>3, <1>4, <1>5, <1>6

\* An event more: the replay of what was there, and one step of the algorithm.
LEMMA ReplayOfAppend ==
    ASSUME NEW log \in Seq(EventRow), NEW e \in EventRow
    PROVE  /\ \A i \in 0..Len(log) : Replay(Append(log, e))[i] = Replay(log)[i]
           /\ Replay(Append(log, e))[Len(log) + 1] = Continue(Replay(log)[Len(log)], e)
<1> DEFINE n == Len(log)
           r == Replay(log)
           long == Append(log, e)
           s == [i \in 0..n + 1 |-> IF i <= n THEN r[i] ELSE Continue(r[n], e)]
<1>1. n \in Nat /\ long \in Seq(EventRow) /\ Len(long) = n + 1
  OBVIOUS
<1>2. Replays(s, long)
  BY EveryLogReplays, ReplayContinues
<1>3. Replays(Replay(long), long)
  BY <1>1, EveryLogReplays
<1>4. /\ \A i \in 0..n : s[i] = r[i]
      /\ s[n + 1] = Continue(r[n], e)
  BY <1>1
<1> HIDE DEF s, n, r, long
<1>5. \A i \in 0..n + 1 : Replay(long)[i] = s[i]
  BY <1>1, <1>2, <1>3, OneReplay
<1> QED
  BY <1>1, <1>4, <1>5 DEF n, r, long

\* Before the first event there is no state.
LEMMA ReplayOfNothing ==
    ASSUME NEW log, log = <<>>
    PROVE  Replay(log)[0] = Before
<1>1. log \in Seq(EventRow)
  OBVIOUS
<1> QED
  BY <1>1, EveryLogReplays, ReplayElements

----------------------------------------------------------------------------
(* The history of one question.                                             *)

\* Each event continues where the one before ended.
Chain(log) ==
    \A i \in 1..Len(log) :
        /\ i > 1 => log[i - 1].occurredAt < log[i].occurredAt
        /\ log[i].previous = SnapshotOf(Replay(log)[i - 1].state)
        /\ log[i].next = SnapshotOf(Replay(log)[i].state)

\* Note and schedule are what replaying the log gives.
Materialized(log, row, plan) ==
    LET last == Replay(log)[Len(log)]
    IN  /\ row = None <=> log = <<>>
        /\ plan = None <=> log = <<>>
        /\ log # <<>> =>
             /\ StateOf(row) = last.state
             /\ row.lastWrongVersion = last.lastWrongVersion
             /\ row.updatedAt = log[Len(log)].occurredAt
             /\ plan = ScheduleAfter(last.state, log[Len(log)].occurredAt)

\* The event at i is a right answer.
Right(log, i) == i >= 1 /\ log[i].isCorrect

\* How often it was missed.
Misses(log) == Cardinality({i \in 1..Len(log) : ~log[i].isCorrect})

\* The status is what the answers say.
Tells(log, row) ==
    row # None =>
        /\ row.wrongCount = Misses(log)
        /\ row.status = "NEW" <=> Len(log) = 1
        /\ row.status = "AGAIN" <=> Len(log) > 1 /\ ~Right(log, Len(log))
        /\ row.status = "REVIEWING" <=> Right(log, Len(log)) /\ ~Right(log, Len(log) - 1)
        /\ row.status = "SOLVED" <=> Right(log, Len(log)) /\ Right(log, Len(log) - 1)

\* The log, the note and the schedule of a question tell one history.
Agrees(log, row, plan) == Chain(log) /\ Materialized(log, row, plan) /\ Tells(log, row)

\* An event that continues the log where it ended.
LEMMA ChainGrows ==
    ASSUME NEW log \in Seq(EventRow), NEW e \in EventRow, Chain(log),
           log # <<>> => log[Len(log)].occurredAt < e.occurredAt,
           e.previous = SnapshotOf(Replay(log)[Len(log)].state),
           e.next = SnapshotOf(Continue(Replay(log)[Len(log)], e).state)
    PROVE  Chain(Append(log, e))
<1> DEFINE n == Len(log)
           long == Append(log, e)
<1>1. /\ n \in Nat /\ Len(long) = n + 1
      /\ \A i \in 1..n : long[i] = log[i]
      /\ long[n + 1] = e
      /\ n > 0 => log # <<>>
  OBVIOUS
<1>2. /\ \A i \in 0..n : Replay(long)[i] = Replay(log)[i]
      /\ Replay(long)[n + 1] = Continue(Replay(log)[n], e)
  BY ReplayOfAppend
<1>3. /\ n > 0 => log[n].occurredAt < e.occurredAt
      /\ e.previous = SnapshotOf(Replay(log)[n].state)
      /\ e.next = SnapshotOf(Continue(Replay(log)[n], e).state)
  BY <1>1
<1> HIDE DEF long
<1> SUFFICES ASSUME NEW i \in 1..n + 1
             PROVE  /\ i > 1 => long[i - 1].occurredAt < long[i].occurredAt
                    /\ long[i].previous = SnapshotOf(Replay(long)[i - 1].state)
                    /\ long[i].next = SnapshotOf(Replay(long)[i].state)
  BY <1>1 DEF Chain, long
<1>4. CASE i \in 1..n
  <2>1. /\ i > 1 => log[i - 1].occurredAt < log[i].occurredAt
        /\ log[i].previous = SnapshotOf(Replay(log)[i - 1].state)
        /\ log[i].next = SnapshotOf(Replay(log)[i].state)
    BY <1>4 DEF Chain
  <2>2. i \in 0..n /\ i - 1 \in 0..n /\ (i > 1 => i - 1 \in 1..n)
    BY <1>1, <1>4
  <2> HIDE DEF n
  <2> QED BY <1>1, <1>2, <1>4, <2>1, <2>2
<1>5. CASE i = n + 1
  <2>1. /\ i - 1 = n /\ n \in 0..n /\ (i > 1 => n > 0 /\ n \in 1..n)
    BY <1>1, <1>5
  <2> HIDE DEF n
  <2> QED BY <1>1, <1>2, <1>3, <1>5, <2>1
<1> QED
  <2> HIDE DEF n
  <2> QED BY <1>1, <1>4, <1>5

\* The rows after it.
LEMMA MaterializedGrows ==
    ASSUME NEW log \in Seq(EventRow), NEW e \in EventRow,
           NEW row, row # None, NEW plan, plan # None,
           NEW x, x = Continue(Replay(log)[Len(log)], e),
           StateOf(row) = x.state, row.lastWrongVersion = x.lastWrongVersion,
           row.updatedAt = e.occurredAt, plan = ScheduleAfter(x.state, e.occurredAt)
    PROVE  Materialized(Append(log, e), row, plan)
<1> DEFINE n == Len(log)
           long == Append(log, e)
<1>1. n \in Nat /\ Len(long) = n + 1 /\ long[n + 1] = e /\ long # <<>>
  OBVIOUS
<1>2. Replay(long)[n + 1] = x
  BY ReplayOfAppend
<1> HIDE DEF n, long
<1>3. Materialized(long, row, plan)
  BY <1>1, <1>2 DEF Materialized
<1> QED
  BY <1>3 DEF long

\* One more miss or one more right answer in a log.
LEMMA MissesCounted ==
    ASSUME NEW log \in Seq(EventRow), NEW e \in EventRow
    PROVE  /\ Misses(log) \in Nat
           /\ Misses(Append(log, e)) = IF e.isCorrect THEN Misses(log) ELSE Misses(log) + 1
<1> DEFINE n == Len(log)
           long == Append(log, e)
           old == {i \in 1..n : ~log[i].isCorrect}
           new == {i \in 1..Len(long) : ~long[i].isCorrect}
<1>1. /\ n \in Nat /\ Len(long) = n + 1
      /\ \A i \in 1..n : long[i] = log[i]
      /\ long[n + 1] = e
  OBVIOUS
<1>2. IsFiniteSet(old)
  <2>1. IsFiniteSet(1..n)
    BY <1>1, FS_Interval
  <2> QED BY <2>1, FS_Subset
<1>3. new = IF e.isCorrect THEN old ELSE old \cup {n + 1}
  <2> HIDE DEF n
  <2> QED BY <1>1
<1>4. n + 1 \notin old
  BY <1>1
<1>5. Cardinality(old) \in Nat
  BY <1>2, FS_CardinalityType
<1>6. Cardinality(old \cup {n + 1}) = Cardinality(old) + 1
  <2> HIDE DEF old, n
  <2> QED BY <1>2, <1>4, FS_AddElement
<1>7. Misses(log) = Cardinality(old) /\ Misses(long) = Cardinality(new)
  BY DEF Misses
<1> HIDE DEF old, new, long
<1>8. Misses(long) = IF e.isCorrect THEN Misses(log) ELSE Misses(log) + 1
  BY <1>3, <1>5, <1>6, <1>7
<1> QED
  BY <1>5, <1>7, <1>8 DEF long

\* The first event is a miss.
LEMMA TellsFirst ==
    ASSUME NEW log \in Seq(EventRow), log = <<>>, NEW e \in EventRow, ~e.isCorrect,
           NEW row, row.wrongCount = 1, row.status = "NEW"
    PROVE  Tells(Append(log, e), row)
<1> DEFINE long == Append(log, e)
<1>1. Len(long) = 1 /\ long[1] = e
  OBVIOUS
<1>2. Misses(log) = 0
  <2>1. {i \in 1..Len(log) : ~log[i].isCorrect} = {}
    OBVIOUS
  <2> QED BY <2>1, FS_EmptySet DEF Misses
<1>3. Misses(long) = 1
  <2>1. Misses(long) = IF e.isCorrect THEN Misses(log) ELSE Misses(log) + 1
    BY MissesCounted
  <2> HIDE DEF long
  <2> QED BY <1>2, <2>1
<1>4. ~Right(long, 1) /\ ~Right(long, 0)
  BY <1>1 DEF Right
<1> HIDE DEF long
<1>5. Tells(long, row)
  BY <1>1, <1>3, <1>4 DEF Tells
<1> QED
  BY <1>5 DEF long

\* A later one moves the status as the answers say: the streak of a note tells how many
\* right answers the log ends with.
LEMMA TellsGrows ==
    ASSUME NEW log \in Seq(EventRow), log # <<>>, NEW e \in EventRow,
           NEW old \in NoteRow, old # None, Tells(log, old), ValidState(StateOf(old)),
           NEW row,
           NEW after, after = ApplyWrongNoteReview(StateOf(old), e.isCorrect, e.occurredAt),
           row.wrongCount = after.wrongCount, row.status = after.status
    PROVE  Tells(Append(log, e), row)
<1> DEFINE n == Len(log)
           long == Append(log, e)
           k == Misses(log)
<1>1. /\ n \in Nat /\ n >= 1 /\ Len(long) = n + 1
      /\ \A i \in 1..n : long[i] = log[i]
      /\ long[n + 1] = e
  OBVIOUS
<1>2. /\ old.wrongCount = k
      /\ old.status = "REVIEWING" <=> Right(log, n) /\ ~Right(log, n - 1)
      /\ old.status = "SOLVED" <=> Right(log, n) /\ Right(log, n - 1)
  BY DEF Tells
<1>3. k \in Nat /\ Misses(long) = IF e.isCorrect THEN k ELSE k + 1
  BY MissesCounted
<1>4. StateOf(old) # None /\ StateOf(old) \in States
  <2>1. StateOf(old) = [wrongCount |-> old.wrongCount, correctStreak |-> old.correctStreak,
                        status |-> old.status, lastWrongAt |-> old.lastWrongAt,
                        lastReviewedAt |-> old.lastReviewedAt]
    BY DEF StateOf
  <2>2. StateOf(old) \in States
    BY <2>1 DEF NoteRow, States
  <2> QED BY <2>2, RowsAssumption
<1>5. /\ StateOf(old).wrongCount = old.wrongCount /\ StateOf(old).status = old.status
      /\ StateOf(old).correctStreak = old.correctStreak
  BY DEF StateOf
<1>6. old.correctStreak \in Nat
  BY DEF NoteRow
<1>7. Right(log, n) <=> old.correctStreak >= 1
  <2>1. Right(log, n) <=> old.status \in {"REVIEWING", "SOLVED"}
    BY <1>2
  <2> HIDE DEF n
  <2> QED BY <1>5, <1>6, <2>1 DEF ValidState
<1>8. e.isCorrect \in BOOLEAN
  BY DEF EventRow
<1>9. /\ row.wrongCount = IF e.isCorrect THEN k ELSE k + 1
      /\ row.status = IF ~e.isCorrect THEN "AGAIN"
                      ELSE IF old.correctStreak >= 1 THEN "SOLVED" ELSE "REVIEWING"
  <2>1. CASE e.isCorrect
    <3>1. /\ after.wrongCount = old.wrongCount
          /\ after.status = IF old.correctStreak + 1 >= 2 THEN "SOLVED" ELSE "REVIEWING"
      BY <1>4, <1>5, <2>1 DEF ApplyWrongNoteReview
    <3>2. old.correctStreak + 1 >= 2 <=> old.correctStreak >= 1
      BY <1>6
    <3> HIDE DEF k
    <3> QED BY <1>2, <2>1, <3>1, <3>2
  <2>2. CASE ~e.isCorrect
    <3>1. after.wrongCount = old.wrongCount + 1 /\ after.status = "AGAIN"
      BY <1>4, <1>5, <2>2 DEF ApplyWrongNoteReview
    <3> HIDE DEF k
    <3> QED BY <1>2, <2>2, <3>1
  <2> QED BY <1>8, <2>1, <2>2
<1>10. /\ Right(long, n + 1) <=> e.isCorrect
       /\ Right(long, n) <=> Right(log, n)
  <2>1. n \in 1..n /\ n + 1 >= 1
    BY <1>1
  <2> HIDE DEF n, long
  <2> QED BY <1>1, <2>1 DEF Right
<1> HIDE DEF n, long, k
<1>11. /\ Len(long) # 1 /\ Len(long) > 1 /\ Len(long) - 1 = n
  BY <1>1
<1>12. row.wrongCount = Misses(long)
  BY <1>3, <1>9
<1>13. /\ row.status = "NEW" <=> Len(long) = 1
       /\ row.status = "AGAIN" <=> Len(long) > 1 /\ ~Right(long, Len(long))
       /\ row.status = "REVIEWING" <=> Right(long, Len(long)) /\ ~Right(long, Len(long) - 1)
       /\ row.status = "SOLVED" <=> Right(long, Len(long)) /\ Right(long, Len(long) - 1)
  BY <1>1, <1>7, <1>8, <1>9, <1>10, <1>11
<1>14. Tells(long, row)
  BY <1>12, <1>13 DEF Tells
<1> QED
  BY <1>14 DEF long

----------------------------------------------------------------------------
(* The histories of all questions, and where their events come from.        *)

\* A retry comes from a submitted session, and asks what was missed there in the versions
\* that were asked there.
RetriesSound ==
    \A s \in Sessions :
        LET origin == session[s].retryOf
        IN  session[s].phase # "UNUSED" /\ origin # None =>
               /\ session[s].mode = "WRONG_NOTE"
               /\ session[origin].phase = "DONE"
               /\ \A q \in Asked(s) : /\ q \in session[origin].missed
                                      /\ session[s].pins[q] = session[origin].pins[q]

\* They do for every question.
HistoriesAgree == \A q \in Questions : Agrees(events[q], note[q], schedule[q])

\* Events and retries agree with the sessions they come from.
SessionsAgree == SourceModeReconciles /\ RetriesSound

\* The invariant of the history.
Agreed == Kept /\ HistoriesAgree /\ SessionsAgree

\* The parts are those of the property.
LEMMA AgreedMeansHistory == Agreed => HistoryAgrees
<1> SUFFICES ASSUME Agreed PROVE HistoryAgrees
  OBVIOUS
<1>1. EventChainReconciles
  BY DEF Agreed, HistoriesAgree, Agrees, Chain, EventChainReconciles
<1>2. NoteReconciles
  BY DEF Agreed, HistoriesAgree, Agrees, Materialized, NoteReconciles
<1>3. StatusTellsHistory
  BY DEF Agreed, HistoriesAgree, Agrees, Tells, Misses, Right, StatusTellsHistory
<1> QED
  BY <1>1, <1>2, <1>3 DEF Agreed, SessionsAgree, HistoryAgrees

\* Nothing was missed yet, and nothing is retried.
LEMMA AgreedAtFirst == Init => Agreed
<1> SUFFICES ASSUME Init PROVE Agreed
  OBVIOUS
<1>1. Kept
  BY KeptAtFirst
<1>2. ASSUME NEW q \in Questions PROVE Agrees(events[q], note[q], schedule[q])
  <2>1. events[q] = <<>> /\ note[q] = None /\ schedule[q] = None
    BY DEF Init
  <2>2. Len(events[q]) = 0
    BY <2>1
  <2> QED BY <2>1, <2>2 DEF Agrees, Chain, Materialized, Tells
<1>3. SourceModeReconciles
  <2>1. \A q \in Questions : Len(events[q]) = 0
    BY DEF Init
  <2> QED BY <2>1 DEF SourceModeReconciles
<1>4. RetriesSound
  BY DEF Init, Unused, RetriesSound
<1> QED
  BY <1>1, <1>2, <1>3, <1>4 DEF Agreed, HistoriesAgree, SessionsAgree

\* A session that starts is the origin of no event and of no retry; one that retries agrees
\* with its own.
LEMMA OpenAgrees ==
    ASSUME Agreed, NEW s \in Sessions, NEW mode, NEW source, NEW pins \in [Questions -> Nat],
           NEW at, Open(s, mode, source, pins, at), UNCHANGED events,
           source # None =>
              /\ source \in Sessions /\ mode = "WRONG_NOTE"
              /\ session[source].phase = "DONE"
              /\ \A q \in Questions : pins[q] > 0 =>
                    q \in session[source].missed /\ pins[q] = session[source].pins[q]
    PROVE  SessionsAgree'
<1> DEFINE row == [phase |-> "OPEN", mode |-> mode, retryOf |-> source, pins |-> pins,
                   startedAt |-> at, missed |-> {}]
<1>1. session \in [Sessions -> SessionRow] /\ events \in [Questions -> Seq(EventRow)]
  BY DEF Agreed, Kept, TypeOK
<1>2. /\ session[s].phase = "UNUSED"
      /\ session'[s] = row
      /\ \A t \in Sessions \ {s} : session'[t] = session[t]
  BY <1>1 DEF Open
<1>3. \A t \in Sessions : session[t].phase = "DONE" => session'[t] = session[t]
  BY <1>2
<1>4. \A t \in Sessions : session[t].retryOf \in Sessions \cup {None}
  BY <1>1 DEF SessionRow
<1>5. SourceModeReconciles'
  <2> SUFFICES ASSUME NEW q \in Questions, NEW i \in 1..Len(events[q])
               PROVE  LET e == events[q][i]
                          origin == session'[e.session].retryOf
                      IN  /\ session'[e.session].phase = "DONE"
                          /\ session'[e.session].pins[q] = e.version
                          /\ e.source = SourceOf(session'[e.session].mode)
                          /\ e.isCorrect <=> q \notin session'[e.session].missed
                          /\ origin # None => /\ e.source = "WRONG_NOTE_REVIEW"
                                              /\ q \in session'[origin].missed
                                              /\ session'[origin].pins[q] = e.version
    BY DEF SourceModeReconciles
  <2> DEFINE e == events[q][i]
             origin == session[e.session].retryOf
  <2>1. e \in EventRow /\ e.session \in Sessions
    <3>1. events[q] \in Seq(EventRow)
      BY <1>1
    <3>2. e \in EventRow
      BY <3>1
    <3> QED BY <3>2 DEF EventRow
  <2>2. /\ session[e.session].phase = "DONE"
        /\ session[e.session].pins[q] = e.version
        /\ e.source = SourceOf(session[e.session].mode)
        /\ e.isCorrect <=> q \notin session[e.session].missed
        /\ origin # None => /\ e.source = "WRONG_NOTE_REVIEW"
                            /\ q \in session[origin].missed
                            /\ session[origin].pins[q] = e.version
    BY DEF Agreed, SessionsAgree, SourceModeReconciles
  <2>3. session'[e.session] = session[e.session]
    BY <1>3, <2>1, <2>2
  <2>4. origin # None => session'[origin] = session[origin]
    <3>1. origin # None => origin \in Sessions /\ session[origin].phase = "DONE"
      BY <1>4, <2>1, <2>2 DEF Agreed, SessionsAgree, RetriesSound
    <3> QED BY <1>3, <3>1
  <2> HIDE DEF e
  <2>5. /\ session'[e.session].phase = "DONE"
        /\ session'[e.session].pins[q] = e.version
        /\ e.source = SourceOf(session'[e.session].mode)
        /\ e.isCorrect <=> q \notin session'[e.session].missed
        /\ session'[e.session].retryOf # None =>
              /\ e.source = "WRONG_NOTE_REVIEW"
              /\ q \in session'[session'[e.session].retryOf].missed
              /\ session'[session'[e.session].retryOf].pins[q] = e.version
    BY <2>2, <2>3, <2>4
  <2> QED BY <2>5 DEF e
<1>6. RetriesSound'
  <2> SUFFICES ASSUME NEW t \in Sessions, session'[t].phase # "UNUSED",
                      session'[t].retryOf # None
               PROVE  LET origin == session'[t].retryOf
                      IN  /\ session'[t].mode = "WRONG_NOTE"
                          /\ session'[origin].phase = "DONE"
                          /\ \A q \in Asked(t)' :
                                /\ q \in session'[origin].missed
                                /\ session'[t].pins[q] = session'[origin].pins[q]
    BY DEF RetriesSound
  <2>1. Asked(t)' = {q \in Questions : session'[t].pins[q] > 0}
    BY DEF Asked
  <2>2. CASE t = s
    <3>1. session'[t].retryOf = source /\ session'[t].mode = mode /\ session'[t].pins = pins
      BY <1>2, <2>2
    <3>2. session'[source] = session[source]
      BY <1>3, <3>1
    <3> QED BY <2>1, <3>1, <3>2
  <2>3. CASE t # s
    <3>1. session'[t] = session[t]
      BY <1>2, <2>3
    <3>2. /\ session[t].mode = "WRONG_NOTE"
          /\ session[session[t].retryOf].phase = "DONE"
          /\ \A q \in Asked(t) :
                /\ q \in session[session[t].retryOf].missed
                /\ session[t].pins[q] = session[session[t].retryOf].pins[q]
      BY <3>1 DEF Agreed, SessionsAgree, RetriesSound
    <3>3. session'[session[t].retryOf] = session[session[t].retryOf]
      BY <1>3, <1>4, <3>1, <3>2
    <3>4. Asked(t)' = Asked(t)
      BY <2>1, <3>1 DEF Asked
    <3> QED BY <3>1, <3>2, <3>3, <3>4
  <2> QED BY <2>2, <2>3
<1> QED
  BY <1>5, <1>6 DEF SessionsAgree

\* A pointer says nothing of the history.
LEMMA PointerAgrees ==
    ASSUME NEW log, NEW plan, NEW row \in NoteRow, row # None, NEW v \in Nat,
           Agrees(log, row, plan)
    PROVE  Agrees(log, [row EXCEPT !.pointer = v], plan)
<1> DEFINE moved == [row EXCEPT !.pointer = v]
<1>1. /\ moved \in NoteRow
      /\ moved.wrongCount = row.wrongCount /\ moved.correctStreak = row.correctStreak
      /\ moved.status = row.status /\ moved.lastWrongAt = row.lastWrongAt
      /\ moved.lastReviewedAt = row.lastReviewedAt
      /\ moved.lastWrongVersion = row.lastWrongVersion
      /\ moved.updatedAt = row.updatedAt
  BY DEF NoteRow
<1> HIDE DEF moved
<1>2. moved # None
  BY <1>1, RowsAssumption
<1>3. StateOf(moved) = StateOf(row)
  BY <1>1, <1>2 DEF StateOf
<1>4. Materialized(log, moved, plan)
  BY <1>1, <1>2, <1>3 DEF Agrees, Materialized
<1>5. Tells(log, moved)
  BY <1>1, <1>2 DEF Agrees, Tells
<1>6. Agrees(log, moved, plan)
  BY <1>4, <1>5 DEF Agrees
<1> QED
  BY <1>6 DEF moved

\* A step that at most moves pointers.
LEMMA PointersAgree ==
    ASSUME Agreed, UNCHANGED <<schedule, events>>, NEW moved \in SUBSET Questions,
           \A q \in moved : note[q] # None,
           note' = [q \in Questions |->
                      IF q \in moved THEN [note[q] EXCEPT !.pointer = current[q]] ELSE note[q]]
    PROVE  HistoriesAgree'
<1> SUFFICES ASSUME NEW q \in Questions PROVE Agrees(events[q], note'[q], schedule[q])
  BY DEF HistoriesAgree
<1>1. Agrees(events[q], note[q], schedule[q]) /\ current[q] \in Nat
      /\ note[q] \in NoteRow \cup {None}
  BY DEF Agreed, HistoriesAgree, Kept, TypeOK
<1>2. CASE q \in moved
  <2>1. note'[q] = [note[q] EXCEPT !.pointer = current[q]]
    BY <1>2
  <2> QED BY <1>1, <1>2, <2>1, PointerAgrees
<1>3. CASE q \notin moved
  BY <1>1, <1>3
<1> QED
  BY <1>2, <1>3

\* A submission seen from one question: its event continues the log, and its rows follow.
LEMMA AnswerAgrees ==
    ASSUME Kept, NEW q \in Questions, Agrees(events[q], note[q], schedule[q]),
           NEW e \in EventRow, NEW row, row # None, NEW plan, plan # None,
           NEW after, after # None,
           after = ApplyWrongNoteReview(StateOf(note[q]), e.isCorrect, e.occurredAt),
           note[q] # None => note[q].updatedAt < e.occurredAt,
           e.previous = SnapshotOf(StateOf(note[q])), e.next = SnapshotOf(after),
           StateOf(row) = after,
           row.wrongCount = after.wrongCount, row.status = after.status,
           row.lastWrongVersion = IF e.isCorrect THEN note[q].lastWrongVersion ELSE e.version,
           row.updatedAt = e.occurredAt,
           plan = ScheduleAfter(after, e.occurredAt)
    PROVE  Agrees(Append(events[q], e), row, plan)
<1> DEFINE log == events[q]
           last == Replay(log)[Len(log)]
           x == Continue(last, e)
<1>1. log \in Seq(EventRow) /\ note[q] \in NoteRow \cup {None}
  BY DEF Kept, TypeOK
<1>2. /\ note[q] = None <=> log = <<>>
      /\ log # <<>> => /\ StateOf(note[q]) = last.state
                       /\ note[q].lastWrongVersion = last.lastWrongVersion
                       /\ note[q].updatedAt = log[Len(log)].occurredAt
  BY DEF Agrees, Materialized
<1>3. last.state = StateOf(note[q])
  <2>1. CASE log = <<>>
    <3>1. Len(log) = 0
      BY <2>1
    <3>2. last = Before
      BY <2>1, <3>1, ReplayOfNothing
    <3> QED BY <1>2, <2>1, <3>2 DEF Before, StateOf
  <2>2. CASE log # <<>>
    BY <1>2, <2>2
  <2> QED BY <2>1, <2>2
<1> HIDE DEF log, last
<1>4. x.state = after
  BY <1>3 DEF Continue
<1>5. x.lastWrongVersion = IF e.isCorrect THEN last.lastWrongVersion ELSE e.version
  BY DEF Continue
<1>6. e.isCorrect \in BOOLEAN
  BY DEF EventRow
<1>7. log = <<>> => ~e.isCorrect
  <2> SUFFICES ASSUME log = <<>>, e.isCorrect PROVE FALSE
    OBVIOUS
  <2>1. StateOf(note[q]) = None
    BY <1>2 DEF StateOf
  <2>2. after = None
    BY <2>1 DEF ApplyWrongNoteReview
  <2> QED BY <2>2
<1>8. row.lastWrongVersion = x.lastWrongVersion
  <2>1. CASE e.isCorrect
    BY <1>2, <1>5, <1>7, <2>1
  <2>2. CASE ~e.isCorrect
    BY <1>5, <2>2
  <2> QED BY <1>6, <2>1, <2>2
<1> HIDE DEF x
<1>9. Chain(Append(log, e))
  <2>1. Chain(log)
    BY DEF Agrees, log
  <2>2. log # <<>> => log[Len(log)].occurredAt < e.occurredAt
    BY <1>2
  <2>3. /\ e.previous = SnapshotOf(Replay(log)[Len(log)].state)
        /\ e.next = SnapshotOf(Continue(Replay(log)[Len(log)], e).state)
    BY <1>3, <1>4 DEF last, x
  <2> QED BY <1>1, <2>1, <2>2, <2>3, ChainGrows
<1>10. Materialized(Append(log, e), row, plan)
  <2>1. x = Continue(Replay(log)[Len(log)], e)
    BY DEF last, x
  <2> QED BY <1>1, <1>4, <1>8, <2>1, MaterializedGrows
<1>11. Tells(Append(log, e), row)
  <2>1. CASE log = <<>>
    <3>1. StateOf(note[q]) = None
      BY <1>2, <2>1 DEF StateOf
    <3>2. after = FirstWrong(e.occurredAt)
      BY <1>7, <2>1, <3>1 DEF ApplyWrongNoteReview
    <3>3. after.wrongCount = 1 /\ after.status = "NEW"
      BY <3>2 DEF FirstWrong
    <3> QED BY <1>1, <1>7, <2>1, <3>3, TellsFirst
  <2>2. CASE log # <<>>
    <3>1. note[q] # None /\ note[q] \in NoteRow
      BY <1>1, <1>2, <2>2
    <3>2. ValidState(StateOf(note[q]))
      BY <3>1 DEF Kept, NotesSound, Sound
    <3>3. Tells(log, note[q])
      BY DEF Agrees, log
    <3> QED BY <1>1, <2>2, <3>1, <3>2, <3>3, TellsGrows
  <2> QED BY <2>1, <2>2
<1> QED
  BY <1>9, <1>10, <1>11 DEF Agrees, log

\* A submission of all its questions.
LEMMA SubmitAgrees ==
    ASSUME Agreed, NEW s \in Sessions, NEW at \in Nat, NEW missed \in SUBSET Questions,
           Submit(s, missed, at)
    PROVE  HistoriesAgree' /\ SessionsAgree'
<1>1. PICK t : t = EffectiveAt(s, at)
  OBVIOUS
<1>2. Kept
  BY DEF Agreed
<1>3. t \in Nat /\ \A q \in Asked(s) : note[q] # None => note[q].updatedAt < t
  BY <1>1, <1>2, EffectiveIsLater
<1> DEFINE After(q) == ApplyWrongNoteReview(StateOf(note[q]), q \notin missed, t)
           Touched == {q \in Asked(s) : After(q) # None}
           Event(q) ==
             [session |-> s, version |-> session[s].pins[q],
              source |-> SourceOf(session[s].mode), isCorrect |-> q \notin missed,
              previous |-> IF note[q] = None THEN None
                           ELSE [status |-> note[q].status,
                                 correctStreak |-> note[q].correctStreak,
                                 wrongCount |-> note[q].wrongCount],
              next |-> [status |-> After(q).status, correctStreak |-> After(q).correctStreak,
                        wrongCount |-> After(q).wrongCount],
              occurredAt |-> t]
<1>4. /\ session[s].phase = "OPEN"
      /\ missed \subseteq Asked(s)
      /\ session' = [session EXCEPT ![s] = [session[s] EXCEPT !.phase = "DONE",
                                                             !.missed = missed]]
      /\ note' = [q \in Questions |-> IF q \in Touched
                                      THEN NoteAfter(s, q, missed, After(q), t) ELSE note[q]]
      /\ schedule' = [q \in Questions |-> IF q \in Touched THEN ScheduleAfter(After(q), t)
                                                            ELSE schedule[q]]
      /\ events' = [q \in Questions |-> IF q \in Touched THEN Append(events[q], Event(q))
                                                          ELSE events[q]]
  BY <1>1 DEF Submit
<1>5. Touched \subseteq Questions /\ Touched \subseteq Asked(s)
  BY DEF Asked
<1>6. /\ session \in [Sessions -> SessionRow] /\ events \in [Questions -> Seq(EventRow)]
      /\ note \in [Questions -> NoteRow \cup {None}]
  BY <1>2 DEF Kept, TypeOK
<1>7. ASSUME NEW q \in Touched
      PROVE  /\ Event(q) \in EventRow
             /\ Agrees(Append(events[q], Event(q)), note'[q], schedule'[q])
  <2>1. q \in Questions /\ q \in Asked(s) /\ After(q) # None
    BY <1>5
  <2>2. PICK ok \in BOOLEAN : ok = (q \notin missed)
    OBVIOUS
  <2>3. PICK after : after = After(q)
    OBVIOUS
  <2>4. PICK row : row = NoteAfter(s, q, missed, after, t)
    OBVIOUS
  <2>5. after = ApplyWrongNoteReview(StateOf(note[q]), ok, t) /\ after # None
    BY <2>1, <2>2, <2>3
  <2>6. PICK e : e = Event(q)
    OBVIOUS
  <2>7. PICK plan : plan = ScheduleAfter(after, t)
    OBVIOUS
  <2>8. note'[q] = row /\ schedule'[q] = plan
    <3> HIDE DEF After, Event
    <3> QED BY <1>4, <2>1, <2>3, <2>4, <2>7
  <2>9. /\ e.session = s /\ e.version = session[s].pins[q]
        /\ e.source = SourceOf(session[s].mode) /\ e.isCorrect = ok
        /\ e.previous = IF note[q] = None THEN None
                        ELSE [status |-> note[q].status,
                              correctStreak |-> note[q].correctStreak,
                              wrongCount |-> note[q].wrongCount]
        /\ e.next = [status |-> after.status, correctStreak |-> after.correctStreak,
                     wrongCount |-> after.wrongCount]
        /\ e.occurredAt = t
    <3> HIDE DEF After
    <3> QED BY <2>2, <2>3, <2>6
  <2>10. e = [session |-> e.session, version |-> e.version, source |-> e.source,
              isCorrect |-> e.isCorrect, previous |-> e.previous, next |-> e.next,
              occurredAt |-> e.occurredAt]
    <3> HIDE DEF After
    <3> QED BY <2>6
  <2> HIDE DEF After, Touched, Event
  <2>11. after \in States /\ row \in NoteRow
    <3>1. ok <=> q \notin missed
      BY <2>2
    <3> QED BY <1>1, <1>2, <2>1, <2>4, <2>5, <3>1, AnswerKept
  <2>12. e \in EventRow
    <3>1. e.version \in Nat
      BY <1>6, <2>1, <2>9 DEF SessionRow
    <3>2. e.source \in {"WRONG_NOTE_REVIEW", "STUDY_SUBMIT"}
      BY <2>9 DEF SourceOf
    <3>3. e.previous \in Snapshot \cup {None}
      BY <1>6, <2>1, <2>9 DEF NoteRow, Snapshot
    <3>4. e.next \in Snapshot
      BY <2>9, <2>11 DEF States, Snapshot
    <3>5. e.session \in Sessions /\ e.isCorrect \in BOOLEAN /\ e.occurredAt \in Nat
      BY <1>3, <2>9
    <3> QED BY <2>10, <3>1, <3>2, <3>3, <3>4, <3>5 DEF EventRow
  <2>13. row # None
    BY <2>11, RowsAssumption
  <2>14. plan # None
    <3>1. plan \in ScheduleRow
      BY <1>3, <2>7, <2>11, ScheduleTyped
    <3> QED BY <3>1, RowsAssumption
  <2>15. /\ row.wrongCount = after.wrongCount /\ row.correctStreak = after.correctStreak
         /\ row.status = after.status /\ row.lastWrongAt = after.lastWrongAt
         /\ row.lastReviewedAt = after.lastReviewedAt /\ row.updatedAt = t
         /\ row.lastWrongVersion = IF q \in missed THEN session[s].pins[q]
                                                   ELSE note[q].lastWrongVersion
    BY <2>4 DEF NoteAfter
  <2>16. StateOf(row) = after
    <3>1. StateOf(row) = [wrongCount |-> after.wrongCount,
                          correctStreak |-> after.correctStreak, status |-> after.status,
                          lastWrongAt |-> after.lastWrongAt,
                          lastReviewedAt |-> after.lastReviewedAt]
      BY <2>13, <2>15 DEF StateOf
    <3> QED BY <2>11, <3>1 DEF States
  <2>17. row.lastWrongVersion = IF e.isCorrect THEN note[q].lastWrongVersion ELSE e.version
    BY <2>2, <2>9, <2>15
  <2>18. e.previous = SnapshotOf(StateOf(note[q]))
    <3>1. CASE note[q] = None
      BY <2>9, <3>1 DEF SnapshotOf, StateOf
    <3>2. CASE note[q] # None
      <4>1. note[q] \in NoteRow
        BY <1>6, <2>1, <3>2
      <4>2. StateOf(note[q]) = [wrongCount |-> note[q].wrongCount,
                                correctStreak |-> note[q].correctStreak,
                                status |-> note[q].status,
                                lastWrongAt |-> note[q].lastWrongAt,
                                lastReviewedAt |-> note[q].lastReviewedAt]
        BY <3>2 DEF StateOf
      <4>3. StateOf(note[q]) \in States
        BY <4>1, <4>2 DEF NoteRow, States
      <4>4. StateOf(note[q]) # None
        BY <4>3, RowsAssumption
      <4> QED BY <2>9, <3>2, <4>2, <4>4 DEF SnapshotOf
    <3> QED BY <3>1, <3>2
  <2>19. e.next = SnapshotOf(after)
    BY <2>5, <2>9 DEF SnapshotOf
  <2>20. Agrees(events[q], note[q], schedule[q])
    BY <2>1 DEF Agreed, HistoriesAgree
  <2>21. Agrees(Append(events[q], e), row, plan)
    <3>1. after = ApplyWrongNoteReview(StateOf(note[q]), e.isCorrect, e.occurredAt)
      BY <2>5, <2>9
    <3>2. note[q] # None => note[q].updatedAt < e.occurredAt
      BY <1>3, <2>1, <2>9
    <3>3. row.updatedAt = e.occurredAt /\ plan = ScheduleAfter(after, e.occurredAt)
      BY <2>7, <2>9, <2>15
    <3> QED
      BY <1>2, <2>1, <2>5, <2>12, <2>13, <2>14, <2>15, <2>16, <2>17, <2>18, <2>19, <2>20,
         <3>1, <3>2, <3>3, AnswerAgrees
  <2> QED BY <2>6, <2>8, <2>12, <2>21
<1>8. \A q \in Questions :
         IF q \in Touched THEN events'[q] = Append(events[q], Event(q))
         ELSE note'[q] = note[q] /\ schedule'[q] = schedule[q] /\ events'[q] = events[q]
  <2> HIDE DEF Touched, After, Event
  <2> QED BY <1>4
<1>9. \A q \in Touched : /\ Event(q).session = s
                         /\ Event(q).version = session[s].pins[q]
                         /\ Event(q).source = SourceOf(session[s].mode)
                         /\ Event(q).isCorrect <=> q \notin missed
  <2> HIDE DEF Touched, After
  <2> QED OBVIOUS
<1> HIDE DEF Touched, After, Event
<1>10. HistoriesAgree'
  <2> SUFFICES ASSUME NEW q \in Questions PROVE Agrees(events'[q], note'[q], schedule'[q])
    BY DEF HistoriesAgree
  <2>1. CASE q \in Touched
    BY <1>7, <1>8, <2>1
  <2>2. CASE q \notin Touched
    BY <1>8, <2>2 DEF Agreed, HistoriesAgree
  <2> QED BY <2>1, <2>2
<1>11. /\ session'[s].phase = "DONE" /\ session'[s].missed = missed
       /\ session'[s].pins = session[s].pins /\ session'[s].mode = session[s].mode
       /\ session'[s].retryOf = session[s].retryOf
       /\ \A p \in Sessions \ {s} : session'[p] = session[p]
  BY <1>4, <1>6 DEF SessionRow
<1>12. \A p \in Sessions : session[p].phase = "DONE" => session'[p] = session[p]
  BY <1>4, <1>11
<1>13. \A p \in Sessions : /\ session'[p].pins = session[p].pins
                           /\ session'[p].mode = session[p].mode
                           /\ session'[p].retryOf = session[p].retryOf
                           /\ Asked(p)' = Asked(p)
  BY <1>11 DEF Asked
<1>14. ASSUME NEW p \in Sessions, session[p].phase # "UNUSED", session[p].retryOf # None
       PROVE  LET origin == session[p].retryOf
              IN  /\ session[p].mode = "WRONG_NOTE"
                  /\ session'[origin] = session[origin]
                  /\ session[origin].phase = "DONE"
                  /\ \A q \in Asked(p) : /\ q \in session[origin].missed
                                         /\ session[p].pins[q] = session[origin].pins[q]
  <2>1. session[p].retryOf \in Sessions
    BY <1>6, <1>14 DEF SessionRow
  <2> QED BY <1>12, <1>14, <2>1 DEF Agreed, SessionsAgree, RetriesSound
<1>15. \A p \in Sessions : session'[p].phase # "UNUSED" => session[p].phase # "UNUSED"
  BY <1>4, <1>11
<1>16. RetriesSound'
  BY <1>13, <1>14, <1>15 DEF RetriesSound
<1>17. SourceModeReconciles'
  <2> SUFFICES ASSUME NEW q \in Questions, NEW i \in 1..Len(events'[q]),
                      NEW e, e = events'[q][i]
               PROVE  LET origin == session'[e.session].retryOf
                      IN  /\ session'[e.session].phase = "DONE"
                          /\ session'[e.session].pins[q] = e.version
                          /\ e.source = SourceOf(session'[e.session].mode)
                          /\ e.isCorrect <=> q \notin session'[e.session].missed
                          /\ origin # None => /\ e.source = "WRONG_NOTE_REVIEW"
                                              /\ q \in session'[origin].missed
                                              /\ session'[origin].pins[q] = e.version
    BY DEF SourceModeReconciles
  <2>1. events[q] \in Seq(EventRow)
    BY <1>6
  <2>2. \/ i \in 1..Len(events[q]) /\ e = events[q][i]
        \/ q \in Touched /\ e = Event(q)
    <3>1. CASE q \in Touched
      <4>1. events'[q] = Append(events[q], Event(q)) /\ Event(q) \in EventRow
        BY <1>7, <1>8, <3>1
      <4> QED BY <2>1, <3>1, <4>1
    <3>2. CASE q \notin Touched
      BY <1>8, <3>2
    <3> QED BY <3>1, <3>2
  <2>3. CASE i \in 1..Len(events[q]) /\ e = events[q][i]
    <3>1. e.session \in Sessions
      <4>1. e \in EventRow
        BY <2>1, <2>3
      <4> QED BY <4>1 DEF EventRow
    <3>2. /\ session[e.session].phase = "DONE"
          /\ session[e.session].pins[q] = e.version
          /\ e.source = SourceOf(session[e.session].mode)
          /\ e.isCorrect <=> q \notin session[e.session].missed
          /\ session[e.session].retryOf # None =>
                /\ e.source = "WRONG_NOTE_REVIEW"
                /\ q \in session[session[e.session].retryOf].missed
                /\ session[session[e.session].retryOf].pins[q] = e.version
      BY <2>3 DEF Agreed, SessionsAgree, SourceModeReconciles
    <3>3. session'[e.session] = session[e.session]
      BY <1>12, <3>1, <3>2
    <3>4. session[e.session].retryOf # None =>
             session'[session[e.session].retryOf] = session[session[e.session].retryOf]
      BY <1>14, <3>1, <3>2
    <3> QED BY <3>2, <3>3, <3>4
  <2>4. CASE q \in Touched /\ e = Event(q)
    <3>1. /\ e.session = s /\ e.version = session[s].pins[q]
          /\ e.source = SourceOf(session[s].mode)
          /\ e.isCorrect <=> q \notin missed
          /\ q \in Asked(s)
      BY <1>5, <1>9, <2>4
    <3>2. ASSUME session[s].retryOf # None
          PROVE  /\ e.source = "WRONG_NOTE_REVIEW"
                 /\ q \in session'[session[s].retryOf].missed
                 /\ session'[session[s].retryOf].pins[q] = e.version
      <4>1. session[s].phase # "UNUSED"
        BY <1>4
      <4>2. /\ session[s].mode = "WRONG_NOTE"
            /\ session'[session[s].retryOf] = session[session[s].retryOf]
            /\ q \in session[session[s].retryOf].missed
            /\ session[s].pins[q] = session[session[s].retryOf].pins[q]
        BY <1>14, <3>1, <3>2, <4>1
      <4>3. e.source = "WRONG_NOTE_REVIEW"
        BY <3>1, <4>2 DEF SourceOf, ReviewModes
      <4> QED BY <3>1, <4>2, <4>3
    <3>3. /\ session'[s].phase = "DONE"
          /\ session'[s].pins[q] = e.version
          /\ e.source = SourceOf(session'[s].mode)
          /\ e.isCorrect <=> q \notin session'[s].missed
      BY <1>11, <3>1
    <3>4. session'[s].retryOf = session[s].retryOf
      BY <1>11
    <3>5. e.session = s
      BY <3>1
    <3> QED BY <3>2, <3>3, <3>4, <3>5
  <2> QED BY <2>2, <2>3, <2>4
<1> QED
  BY <1>10, <1>16, <1>17 DEF SessionsAgree

\* A handler that starts a session of new questions.
LEMMA NewAgrees ==
    ASSUME Agreed, NEW s \in Sessions, NEW mode, NEW asked, NEW at,
           Open(s, mode, None, Pins(asked), at), UNCHANGED events
    PROVE  SessionsAgree'
<1>1. Pins(asked) \in [Questions -> Nat]
  BY PinsTyped DEF Agreed
<1> QED
  BY <1>1, OpenAgrees

\* One that retries a submitted session.
LEMMA RetryAgrees ==
    ASSUME Agreed, NEW s \in Sessions, NEW source \in Sessions, NEW at,
           CreateRetry(s, source, at)
    PROVE  HistoriesAgree' /\ SessionsAgree'
<1> DEFINE pins == [q \in Questions |-> IF q \in session[source].missed
                                        THEN session[source].pins[q] ELSE 0]
<1>1. /\ session[source].phase = "DONE"
      /\ Open(s, "WRONG_NOTE", source, pins, at)
      /\ UNCHANGED <<now, current, note, schedule, events>>
  BY DEF CreateRetry
<1>2. pins \in [Questions -> Nat]
  BY DEF Agreed, Kept, TypeOK, SessionRow
<1>3. \A q \in Questions : pins[q] > 0 =>
         q \in session[source].missed /\ pins[q] = session[source].pins[q]
  OBVIOUS
<1> HIDE DEF pins
<1>4. SessionsAgree'
  BY <1>1, <1>2, <1>3, OpenAgrees
<1>5. HistoriesAgree'
  BY <1>1 DEF Agreed, HistoriesAgree
<1> QED
  BY <1>4, <1>5

\* One that reviews notes.
LEMMA ReviewAgrees ==
    ASSUME Agreed, NEW s \in Sessions, NEW at, NEW mode, NEW asked \in SUBSET Questions,
           CreateReview(s, mode, asked, at)
    PROVE  HistoriesAgree' /\ SessionsAgree'
<1> DEFINE moved == {q \in asked : note[q].pointer = None \/ current[q] > note[q].pointer}
<1>1. Open(s, mode, None, Pins(asked), at) /\ UNCHANGED <<now, current, schedule, events>>
  BY DEF CreateReview
<1>2. moved \in SUBSET Questions /\ \A q \in moved : note[q] # None
  BY DEF CreateReview
<1>3. note' = [q \in Questions |->
                 IF q \in moved THEN [note[q] EXCEPT !.pointer = current[q]] ELSE note[q]]
  BY DEF CreateReview, PointersMoved
<1>4. SessionsAgree'
  BY <1>1, NewAgrees
<1>5. HistoriesAgree'
  <2> HIDE DEF moved
  <2> QED BY <1>1, <1>2, <1>3, PointersAgree
<1> QED
  BY <1>4, <1>5

\* One that reviews a single note.
LEMMA TargetedReviewAgrees ==
    ASSUME Agreed, NEW s \in Sessions, NEW at, NEW p \in Questions,
           CreateTargetedReview(s, p, at)
    PROVE  HistoriesAgree' /\ SessionsAgree'
<1>1. Open(s, "WRONG_NOTE", None, Pins({p}), at) /\ UNCHANGED <<now, current, schedule, events>>
  BY DEF CreateTargetedReview
<1>2. {p} \in SUBSET Questions /\ \A q \in {p} : note[q] # None
  BY DEF CreateTargetedReview
<1>3. note' = [q \in Questions |->
                 IF q \in {p} THEN [note[q] EXCEPT !.pointer = current[q]] ELSE note[q]]
  <2>1. note' = [note EXCEPT ![p] = [note[p] EXCEPT !.pointer = current[p]]]
    BY DEF CreateTargetedReview
  <2>2. note \in [Questions -> NoteRow \cup {None}]
    BY DEF Agreed, Kept, TypeOK
  <2> QED BY <2>1, <2>2
<1>4. SessionsAgree'
  BY <1>1, NewAgrees
<1>5. HistoriesAgree'
  BY <1>1, <1>2, <1>3, PointersAgree
<1> QED
  BY <1>4, <1>5

\* A step that leaves sessions, notes, schedules and events alone.
LEMMA UntouchedAgrees ==
    ASSUME Agreed, UNCHANGED <<session, note, schedule, events>>
    PROVE  HistoriesAgree' /\ SessionsAgree'
<1>1. HistoriesAgree'
  BY DEF Agreed, HistoriesAgree
<1>2. SourceModeReconciles'
  BY DEF Agreed, SessionsAgree, SourceModeReconciles
<1>3. RetriesSound'
  BY DEF Agreed, SessionsAgree, RetriesSound, Asked
<1> QED
  BY <1>1, <1>2, <1>3 DEF SessionsAgree

\* Every step keeps the histories.
LEMMA AgreedByStep ==
    ASSUME Agreed, [Next]_vars
    PROVE  Agreed'
<1>1. Kept'
  BY KeptByStep DEF Agreed
<1>2. ASSUME NEW at \in Observed PROVE at \in Nat
  BY DEF Observed, Agreed, Kept, TypeOK
<1>3. HistoriesAgree' /\ SessionsAgree' => Agreed'
  BY <1>1 DEF Agreed
<1>4. CASE Tick
  BY <1>3, <1>4, UntouchedAgrees DEF Tick
<1>5. CASE \E q \in Questions : Publish(q)
  BY <1>3, <1>5, UntouchedAgrees DEF Publish
<1>6. ASSUME NEW s \in Sessions, NEW at \in Observed,
             NEW asked \in SUBSET Questions, CreateRandom(s, asked, at)
      PROVE  HistoriesAgree' /\ SessionsAgree'
  <2>1. Open(s, "RANDOM", None, Pins(asked), at)
        /\ UNCHANGED <<now, current, note, schedule, events>>
    BY <1>6 DEF CreateRandom
  <2>2. HistoriesAgree'
    BY <2>1 DEF Agreed, HistoriesAgree
  <2>3. SessionsAgree'
    BY <2>1, NewAgrees
  <2> QED BY <2>2, <2>3
<1>7. ASSUME NEW s \in Sessions, NEW at \in Observed, NEW m \in ReviewModes,
             NEW asked \in SUBSET Questions, CreateReview(s, m, asked, at)
      PROVE  HistoriesAgree' /\ SessionsAgree'
  BY <1>7, ReviewAgrees
<1>8. ASSUME NEW s \in Sessions, NEW at \in Observed, NEW q \in Questions,
             CreateTargetedReview(s, q, at)
      PROVE  HistoriesAgree' /\ SessionsAgree'
  BY <1>8, TargetedReviewAgrees
<1>9. ASSUME NEW s \in Sessions, NEW at \in Observed, NEW source \in Sessions,
             CreateRetry(s, source, at)
      PROVE  HistoriesAgree' /\ SessionsAgree'
  BY <1>9, RetryAgrees
<1>10. ASSUME NEW s \in Sessions, NEW at \in Observed, NEW missed \in SUBSET Questions,
              Submit(s, missed, at)
       PROVE  HistoriesAgree' /\ SessionsAgree'
  BY <1>2, <1>10, SubmitAgrees
<1>11. CASE UNCHANGED vars
  BY <1>3, <1>11, UntouchedAgrees DEF vars
<1> QED
  BY <1>3, <1>4, <1>5, <1>6, <1>7, <1>8, <1>9, <1>10, <1>11 DEF Next

----------------------------------------------------------------------------
(* The theorems.                                                            *)

\* The invariant holds always.
LEMMA AlwaysKept == Spec => []Kept
<1>1. Kept /\ [Next]_vars => Kept'
  BY KeptByStep
<1> QED
  BY KeptAtFirst, <1>1, PTL DEF Spec

\* Every row of notes, schedules, events and sessions is one that its table can hold
\* (createReviewFacts and the handlers that start sessions).
THEOREM WrongNotesTypeCorrect == Spec => []TypeOK
<1>1. Kept => TypeOK
  BY DEF Kept
<1> QED
  BY AlwaysKept, <1>1, PTL

\* The review algorithm never refuses a submission, neither for the state of a note nor for
\* its time, whatever clock reading the handler holds.
THEOREM NoSubmissionRefused == Spec => []SubmissionNeverRefused
BY AlwaysKept, KeptNeverRefuses, PTL

\* A note's pointer never passes the published version of its question.
THEOREM PointersBehind == Spec => []PointerNeverAhead
<1>1. Kept => PointerNeverAhead
  BY DEF Kept
<1> QED
  BY AlwaysKept, <1>1, PTL

\* A note's pointer never moves back.
THEOREM PointersMonotonic == Spec => PointerMonotonic
<1>1. Kept /\ [Next]_vars => [PointersForward]_vars
  BY KeptByStep
<1>2. [PointersForward]_vars
      => [\A q \in Questions :
            note[q] # None /\ note[q].pointer # None =>
              note'[q].pointer # None /\ note[q].pointer <= note'[q].pointer]_vars
  BY DEF PointersForward
<1>3. Kept /\ [Next]_vars
      => [\A q \in Questions :
            note[q] # None /\ note[q].pointer # None =>
              note'[q].pointer # None /\ note[q].pointer <= note'[q].pointer]_vars
  BY <1>1, <1>2
<1> QED
  BY AlwaysKept, <1>3, PTL DEF Spec, PointerMonotonic

\* The notes, schedules and events of a learner always tell one history: what replaying the
\* events of a note with the review algorithm gives is what the rows say, each event comes
\* from a submitted session that asked the question, and the status is what the answers
\* say (createReviewFacts, reconcileWrongNoteReview).
THEOREM HistoriesAlwaysAgree == Spec => []HistoryAgrees
<1>1. Agreed /\ [Next]_vars => Agreed'
  BY AgreedByStep
<1> QED
  BY AgreedAtFirst, <1>1, AgreedMeansHistory, PTL DEF Spec
=============================================================================
