----------------------- MODULE QuestionLifecycleProofs -----------------------
(***************************************************************************)
(* Theorems about QuestionLifecycle: however old the page and the target   *)
(* of a command, it commits only on the rows it was decided on, so that    *)
(* the constraints of the database are never needed, and what is published *)
(* is what was approved.                                                   *)
(***************************************************************************)
EXTENDS QuestionLifecycle, FiniteSetTheorems, TLAPS

(***************************************************************************)
(* The inductive invariant.                                                *)
(***************************************************************************)

\* What holds of the rows of a question with its versions.
Shaped(R) ==
    /\ R.question = None => \A n \in Numbers : R.version[n] = None
    /\ R.question # None =>
        /\ \E k \in Numbers : \A n \in Numbers : R.version[n] # None <=> n <= k
        /\ \A m, n \in Candidates(R) : m = n
        /\ R.question.current # None => R.version[R.question.current] # None
        /\ R.question.lifecycleStatus = "ARCHIVED" =>
              R.question.current = None /\ \A n \in Numbers : n \notin Candidates(R)
        /\ R.version[1].author = R.question.author
        /\ \A n \in Existing(R) :
              /\ R.version[n].status = "PUBLISHED" <=> n = R.question.current
              /\ R.version[n].status \in Open => R.version[n].author # None
              /\ R.version[n].status \in {"APPROVED", "PUBLISHED"} =>
                    R.version[n].approved = R.version[n].content
              /\ R.version[n].author # None => R.version[n].rowVersion <= MaxVersionRow

\* R were the rows some time before S: row versions only grow, a row with the same row
\* version says the same (but for an approver who has been erased), and no version opens
\* again.
EarlierVersion(v, w) ==
    /\ w # None
    /\ v.rowVersion <= w.rowVersion
    /\ SameRow(v, w) => /\ w.status = v.status
                        /\ w.content = v.content
                        /\ w.author = v.author
    /\ v.status \notin Open => w.status \notin Open
Earlier(R, S) ==
    /\ R.question # None =>
        /\ S.question # None
        /\ R.question.rowVersion <= S.question.rowVersion
        /\ SameRow(R.question, S.question) =>
              /\ S.question = R.question
              /\ \A n \in Numbers : S.version[n] # None => R.version[n] # None
    /\ \A n \in Numbers : R.version[n] # None => EarlierVersion(R.version[n], S.version[n])

\* What a command knows: its page or its target are earlier rows on which it was allowed; a
\* creation is alone; an armed command has its target still before it.
Known(a) == LET c == cmd[a] IN
    /\ c.stage = "VIEWED" => c.seen.question # None /\ Earlier(c.seen, rows)
    /\ c.stage # "VIEWED" /\ c.kind = "QUESTION_CREATE" =>
            /\ rows.question = None
            /\ c.content \in Contents
            /\ \A b \in Admins : cmd[b] # None => b = a
    /\ c.stage # "VIEWED" /\ c.kind # "QUESTION_CREATE" =>
            /\ c.target.question # None /\ Shaped(c.target)
            /\ Earlier(c.target, rows)
            /\ Allowed(a, c.kind, c.number, c.target)
            /\ c.kind \in OnVersion => /\ c.number \in Numbers
                                       /\ c.target.version[c.number] # None
                                       /\ c.shown = c.target.version[c.number].content
            /\ c.kind \in Writing => c.content \in Contents
            /\ c.stage = "ARMED" => Unchanged(c) /\ Bounded(c)
CommandsKnown == \A a \in Admins : cmd[a] # None => Known(a)

Armed(a) == cmd[a] # None /\ cmd[a].stage = "ARMED"
OneArmed == \A a, b \in Admins : Armed(a) /\ Armed(b) => a = b

\* No open candidate is left by an author whose erasure is under way.
AuthorsStay == \A n \in Candidates(rows) : admin[rows.version[n].author] # "DELETION_PENDING"

Kept == TypeOK /\ Shaped(rows) /\ CommandsKnown /\ OneArmed /\ AuthorsStay

----------------------------------------------------------------------------
(* Earlier rows.                                                            *)

\* The parts of the rows have their types.
LEMMA RowsParts ==
    ASSUME NEW R \in Rows
    PROVE  /\ R.question \in Question \cup {None}
           /\ R.version \in [Numbers -> Version \cup {None}]
           /\ \A n \in Numbers : R.version[n] \in Version \cup {None}
           /\ R.question # None => R.question \in Question
           /\ \A n \in Numbers : R.version[n] # None => R.version[n] \in Version
BY DEF Rows

\* The bounds are numbers, and there is a first version.
LEMMA Bounds == /\ MaxVersions \in Nat \ {0} /\ MaxQuestionRow \in Nat \ {0} /\ MaxVersionRow \in Nat \ {0}
                /\ \A n \in Numbers : n \in Nat /\ n >= 1 /\ n <= MaxVersions
                /\ 1 \in Numbers
                /\ None \notin Numbers
BY BoundsAssumption, NoneAssumption DEF Numbers

\* Rows are earlier than themselves.
LEMMA EarlierReflexive ==
    ASSUME NEW R \in Rows
    PROVE  Earlier(R, R)
<1>1. R.question # None => R.question.rowVersion \in Nat
  BY RowsParts DEF Question
<1>2. \A n \in Numbers : R.version[n] # None => R.version[n].rowVersion \in Nat
  BY RowsParts DEF Version
<1> QED BY <1>1, <1>2 DEF Earlier, EarlierVersion, SameRow

\* What is earlier than something earlier is earlier.
LEMMA EarlierTransitive ==
    ASSUME NEW R \in Rows, NEW S \in Rows, NEW T \in Rows, Earlier(R, S), Earlier(S, T)
    PROVE  Earlier(R, T)
<1>1. ASSUME R.question # None
      PROVE  /\ T.question # None
             /\ R.question.rowVersion <= T.question.rowVersion
             /\ SameRow(R.question, T.question) =>
                   /\ T.question = R.question
                   /\ \A n \in Numbers : T.version[n] # None => R.version[n] # None
  <2>1. S.question # None /\ T.question # None
    BY <1>1 DEF Earlier
  <2>2. /\ R.question.rowVersion \in Nat
        /\ S.question.rowVersion \in Nat
        /\ T.question.rowVersion \in Nat
    BY <1>1, <2>1, RowsParts DEF Question
  <2>3. R.question.rowVersion <= S.question.rowVersion /\ S.question.rowVersion <= T.question.rowVersion
    BY <1>1, <2>1 DEF Earlier
  <2>4. SameRow(R.question, T.question) => SameRow(R.question, S.question) /\ SameRow(S.question, T.question)
    BY <2>2, <2>3 DEF SameRow
  <2> QED BY <1>1, <2>1, <2>2, <2>3, <2>4 DEF Earlier
<1>2. ASSUME NEW n \in Numbers, R.version[n] # None
      PROVE  EarlierVersion(R.version[n], T.version[n])
  <2>1. EarlierVersion(R.version[n], S.version[n]) /\ EarlierVersion(S.version[n], T.version[n])
    BY <1>2 DEF Earlier, EarlierVersion
  <2>2. /\ R.version[n].rowVersion \in Nat
        /\ S.version[n].rowVersion \in Nat
        /\ T.version[n].rowVersion \in Nat
    BY <1>2, <2>1, RowsParts DEF Version, EarlierVersion
  <2> QED BY <2>1, <2>2 DEF EarlierVersion, SameRow
<1> QED BY <1>1, <1>2 DEF Earlier

----------------------------------------------------------------------------
(* What an armed command knows of the rows.                                 *)

\* The target of an armed command still is what it was when the command was allowed.
LEMMA ArmedTarget ==
    ASSUME Kept, NEW a \in Admins, Armed(a), cmd[a].kind # "QUESTION_CREATE"
    PROVE  LET c == cmd[a] IN
           /\ c \in Command /\ c.target \in Rows /\ c.kind \in Kinds
           /\ rows.question \in Question
           /\ rows.question = c.target.question
           /\ \A n \in Numbers : rows.version[n] # None <=> c.target.version[n] # None
           /\ \A n \in Numbers : c.target.version[n] # None =>
                 EarlierVersion(c.target.version[n], rows.version[n])
           /\ \A n \in Manifest(c.kind, c.number, c.target) \cap Existing(rows) :
                 /\ SameRow(rows.version[n], c.target.version[n])
                 /\ rows.version[n].status = c.target.version[n].status
                 /\ rows.version[n].content = c.target.version[n].content
                 /\ rows.version[n].author = c.target.version[n].author
           /\ Allowed(a, c.kind, c.number, c.target)
           /\ Unchanged(c) /\ Bounded(c)
           /\ c.kind \in OnVersion => /\ c.number \in Numbers
                                      /\ rows.version[c.number] \in Version
                                      /\ c.shown = c.target.version[c.number].content
           /\ c.kind \in Writing => c.content \in Contents
<1> DEFINE c == cmd[a]
<1>1. c \in Command /\ c # None /\ c.stage = "ARMED"
  BY DEF Kept, TypeOK, Armed
<1>2. c.target \in Rows /\ c.kind \in Kinds
  BY <1>1 DEF Command
<1>3. /\ c.target.question # None
      /\ Earlier(c.target, rows)
      /\ Allowed(a, c.kind, c.number, c.target)
      /\ c.kind \in OnVersion => /\ c.number \in Numbers
                                 /\ c.target.version[c.number] # None
                                 /\ c.shown = c.target.version[c.number].content
      /\ c.kind \in Writing => c.content \in Contents
      /\ Unchanged(c) /\ Bounded(c)
  <2>1. Known(a)
    BY <1>1 DEF Kept, CommandsKnown
  <2>2. ~(c.stage = "VIEWED") /\ ~(c.stage # "VIEWED" /\ c.kind = "QUESTION_CREATE")
    BY <1>1
  <2> QED BY <1>1, <2>1, <2>2 DEF Known
<1>4. rows \in Rows
  BY DEF Kept, TypeOK
<1>5. SameRow(rows.question, c.target.question)
  BY <1>3 DEF Unchanged
<1>6. /\ rows.question # None
      /\ rows.question = c.target.question
      /\ \A n \in Numbers : rows.version[n] # None => c.target.version[n] # None
  BY <1>3, <1>5 DEF Earlier, SameRow
<1>7. \A n \in Numbers : c.target.version[n] # None =>
         rows.version[n] # None /\ EarlierVersion(c.target.version[n], rows.version[n])
  BY <1>3 DEF Earlier, EarlierVersion
<1>8. ASSUME NEW n \in Manifest(c.kind, c.number, c.target), n \in Existing(rows)
      PROVE  /\ SameRow(rows.version[n], c.target.version[n])
             /\ rows.version[n].status = c.target.version[n].status
             /\ rows.version[n].content = c.target.version[n].content
             /\ rows.version[n].author = c.target.version[n].author
  <2>1. SameRow(rows.version[n], c.target.version[n])
    BY <1>3, <1>8 DEF Unchanged
  <2>2. EarlierVersion(c.target.version[n], rows.version[n])
    BY <1>6, <1>7, <1>8 DEF Existing
  <2> QED BY <2>1, <2>2 DEF EarlierVersion, SameRow
<1>9. rows.question \in Question /\ (c.kind \in OnVersion => rows.version[c.number] \in Version)
  BY <1>3, <1>4, <1>6, <1>7, RowsParts
<1> QED BY <1>1, <1>2, <1>3, <1>6, <1>7, <1>8, <1>9

----------------------------------------------------------------------------
(* What a command may write.                                                *)

\* Well-formed later rows, with open versions of administrator a or those open before.
Proper(a, W) ==
    /\ W \in Rows
    /\ Shaped(W)
    /\ Earlier(rows, W)
    /\ \A n \in Candidates(W) :
          \/ W.version[n].author = a
          \/ n \in Candidates(rows) /\ W.version[n].author = rows.version[n].author

\* A new question has a draft and nothing else.
LEMMA CreateQuestionProper ==
    ASSUME Kept, NEW a \in Admins, Armed(a), cmd[a].kind = "QUESTION_CREATE"
    PROVE  Proper(a, CreateQuestion(a, cmd[a]))
<1> DEFINE c == cmd[a]
           W == CreateQuestion(a, c)
<1>1. rows \in Rows /\ rows.question = None /\ c.content \in Contents
  BY DEF Kept, TypeOK, Armed, CommandsKnown, Known
<1>2. \A n \in Numbers : rows.version[n] = None
  BY <1>1 DEF Kept, Shaped
<1>3. /\ W = [question |-> W.question, version |-> W.version]
      /\ W.question = [lifecycleStatus |-> "ACTIVE", rowVersion |-> 1, author |-> a, current |-> None]
      /\ W.version = [rows.version EXCEPT ![1] = Draft(a, c.content)]
  BY DEF CreateQuestion
<1>4. W.question \in Question /\ W.question # None
  BY <1>3, Bounds, RowsAssumption DEF Question
<1>5. Draft(a, c.content) \in Version /\ Draft(a, c.content) # None
  BY <1>1, Bounds, RowsAssumption DEF Draft, Version, Statuses, Open
<1>6. /\ W.version[1] = Draft(a, c.content)
      /\ \A n \in Numbers \ {1} : W.version[n] = None
      /\ W.version \in [Numbers -> Version \cup {None}]
  BY <1>1, <1>2, <1>3, <1>5, Bounds, RowsParts
<1> HIDE DEF c, W
<1>7. W \in Rows
  BY <1>3, <1>4, <1>6 DEF Rows
<1>8. Earlier(rows, W)
  BY <1>1, <1>2 DEF Earlier
<1>9. Existing(W) = {1} /\ \A n \in Candidates(W) : n = 1
  BY <1>5, <1>6, Bounds DEF Existing, Candidates
<1>10. Shaped(W)
  <2>1. \E k \in Numbers : \A n \in Numbers : W.version[n] # None <=> n <= k
    <3>1. \A n \in Numbers : W.version[n] # None <=> n <= 1
      BY <1>5, <1>6, Bounds
    <3> QED BY <3>1, Bounds
  <2>2. a # None
    BY NoneAssumption
  <2> QED BY <1>3, <1>4, <1>6, <1>9, <2>1, <2>2, Bounds DEF Shaped, Draft
<1> QED BY <1>6, <1>7, <1>8, <1>9, <1>10 DEF Proper, c, W, Draft

\* The rows an armed command finds.
LEMMA RowsFound ==
    ASSUME Kept, NEW a \in Admins, Armed(a), cmd[a].kind # "QUESTION_CREATE"
    PROVE  /\ rows \in Rows /\ rows = [question |-> rows.question, version |-> rows.version]
           /\ rows.question \in Question /\ rows.question # None
           /\ rows.version \in [Numbers -> Version \cup {None}]
           /\ rows.question.rowVersion \in Nat
           /\ \A n \in Numbers : rows.version[n] # None =>
                 rows.version[n] \in Version /\ rows.version[n].rowVersion \in Nat
           /\ Shaped(rows)
           /\ rows.question.lifecycleStatus = "ACTIVE"
<1>1. rows \in Rows /\ Shaped(rows)
  BY DEF Kept, TypeOK
<1>2. rows.question \in Question /\ rows.question.lifecycleStatus = "ACTIVE"
  BY ArmedTarget DEF Allowed
<1>3. \A n \in Numbers : rows.version[n] # None =>
         rows.version[n] \in Version /\ rows.version[n].rowVersion \in Nat
  BY <1>1, RowsParts DEF Version
<1> QED BY <1>1, <1>2, <1>3, RowsParts, RowsAssumption DEF Rows, Question

\* A new version gets the next number, and is the only open one.
LEMMA CreateVersionProper ==
    ASSUME Kept, NEW a \in Admins, Armed(a), cmd[a].kind = "QUESTION_VERSION_CREATE"
    PROVE  Proper(a, CreateVersion(a, cmd[a]))
<1> DEFINE c == cmd[a]
           W == CreateVersion(a, c)
           next == Cardinality(Existing(c.target)) + 1
<1> USE RowsFound
<1>1. /\ rows.question = c.target.question
      /\ Existing(c.target) = Existing(rows)
      /\ c.content \in Contents
      /\ Candidates(rows) = {}
      /\ rows.question.rowVersion < MaxQuestionRow
      /\ Existing(rows) # Numbers
  BY ArmedTarget DEF Existing, Writing, Unchanged, Bounded, Transitions, Transition
<1>2. PICK k \in Numbers : \A n \in Numbers : rows.version[n] # None <=> n <= k
  BY DEF Shaped
<1>3. Existing(rows) = 1..k /\ k + 1 \in Numbers
  BY <1>1, <1>2, Bounds DEF Existing, Numbers
<1>4. next = k + 1
  <2>1. Cardinality(1..k) = k
    BY FS_Interval, Bounds
  <2> QED BY <1>1, <1>3, <2>1
<1>5. /\ W = [question |-> W.question, version |-> W.version]
      /\ W.question = [rows.question EXCEPT !.rowVersion = c.target.question.rowVersion + 1]
      /\ W.version = [rows.version EXCEPT ![k + 1] = Draft(a, c.content)]
  BY <1>4 DEF CreateVersion, NextRow
<1>6. /\ W.question.rowVersion = rows.question.rowVersion + 1
      /\ W.question.current = rows.question.current
      /\ W.question.author = rows.question.author
      /\ W.question.lifecycleStatus = rows.question.lifecycleStatus
      /\ W.question \in Question
  BY <1>1, <1>5, Bounds DEF Question
<1> HIDE DEF W, c, next
<1>7. W.question \in Question /\ W.question # None
  BY <1>6, RowsAssumption
<1>8. Draft(a, c.content) \in Version /\ Draft(a, c.content) # None
  BY <1>1, Bounds, RowsAssumption DEF Draft, Version, Statuses, Open
<1>9. /\ W.version[k + 1] = Draft(a, c.content)
      /\ \A n \in Numbers \ {k + 1} : W.version[n] = rows.version[n]
      /\ W.version \in [Numbers -> Version \cup {None}]
  BY <1>3, <1>5, <1>8
<1>10. W \in Rows
  BY <1>5, <1>7, <1>9 DEF Rows
<1>11. rows.version[k + 1] = None
  BY <1>2, <1>3, Bounds
<1>12. Earlier(rows, W)
  BY <1>6, <1>7, <1>9, <1>11 DEF Earlier, EarlierVersion, SameRow
<1>13. \A n \in Candidates(W) : n = k + 1
  BY <1>1, <1>9 DEF Candidates, Existing
<1>14. Shaped(W)
  <2>1. \A n \in Numbers : W.version[n] # None <=> n <= k + 1
    BY <1>2, <1>8, <1>9, Bounds
  <2>2. a # None /\ 1 # k + 1
    BY NoneAssumption, Bounds
  <2>3. W.question.current # None => rows.version[W.question.current] # None
    BY <1>6 DEF Shaped
  <2>4. W.question.current = rows.question.current /\ W.question.current # k + 1
    BY <1>6, <1>3, <1>11, <2>3, Bounds
  <2>5. ASSUME NEW n \in Existing(W)
        PROVE  /\ W.version[n].status = "PUBLISHED" <=> n = W.question.current
               /\ W.version[n].status \in Open => W.version[n].author # None
               /\ W.version[n].status \in {"APPROVED", "PUBLISHED"} =>
                     W.version[n].approved = W.version[n].content
               /\ W.version[n].author # None => W.version[n].rowVersion <= MaxVersionRow
    <3>1. CASE n = k + 1
      BY <1>9, <2>2, <2>4, <3>1, Bounds DEF Draft
    <3>2. CASE n # k + 1
      BY <1>9, <2>4, <3>2 DEF Shaped, Existing
    <3> QED BY <3>1, <3>2
  <2>6. W.question.lifecycleStatus = "ACTIVE" /\ W.version[1].author = W.question.author
    BY <1>6, <1>9, <2>2, Bounds DEF Shaped
  <2>7. W.question.current # None => W.version[W.question.current] # None
    BY <1>9, <2>3, <2>4, <1>7 DEF Question
  <2> QED BY <1>3, <1>7, <1>13, <2>1, <2>5, <2>6, <2>7 DEF Shaped
<1> QED BY <1>9, <1>10, <1>12, <1>13, <1>14 DEF Proper, Draft, c, W

\* Facts about a version row that is rewritten in its place, for the commands below: what
\* the rows are afterwards, if only version m and the row version of the question change.
LEMMA VersionRewritten ==
    ASSUME Kept, NEW a \in Admins, Armed(a), cmd[a].kind # "QUESTION_CREATE",
           NEW m \in Numbers, rows.version[m] # None, rows.version[m].rowVersion < MaxVersionRow,
           NEW w \in Version, w.rowVersion = rows.version[m].rowVersion + 1,
           w.author = rows.version[m].author,
           rows.version[m].status \in Open, w.status \in Open,
           w.status = "APPROVED" => w.approved = w.content
    PROVE  Proper(a, [rows EXCEPT !.version[m] = w])
<1> DEFINE W == [rows EXCEPT !.version[m] = w]
<1> USE RowsFound
<1>1. /\ W = [question |-> W.question, version |-> W.version]
      /\ W.question = rows.question
      /\ W.version = [rows.version EXCEPT ![m] = w]
  BY DEF Rows
<1> HIDE DEF W
<1>2. /\ W.version[m] = w
      /\ \A n \in Numbers \ {m} : W.version[n] = rows.version[n]
      /\ W.version \in [Numbers -> Version \cup {None}]
  BY <1>1
<1>3. w # None /\ w.rowVersion <= MaxVersionRow /\ w.status # "PUBLISHED"
  BY RowsAssumption, Bounds DEF Open
<1>4. W \in Rows
  BY <1>1, <1>2 DEF Rows
<1>5. Candidates(W) = Candidates(rows) /\ Existing(W) = Existing(rows)
  BY <1>2, <1>3 DEF Candidates, Existing
<1>6. Earlier(rows, W)
  <2>1. EarlierVersion(rows.version[m], w)
    BY <1>3 DEF EarlierVersion, SameRow
  <2>2. ASSUME NEW n \in Numbers, rows.version[n] # None, n # m
        PROVE  EarlierVersion(rows.version[n], W.version[n])
    BY <1>2, <2>2 DEF EarlierVersion, SameRow
  <2> QED BY <1>1, <1>2, <2>1, <2>2, <1>3 DEF Earlier
<1>7. Shaped(W)
  <2>1. ASSUME NEW n \in Existing(W)
        PROVE  /\ W.version[n].status = "PUBLISHED" <=> n = W.question.current
               /\ W.version[n].status \in Open => W.version[n].author # None
               /\ W.version[n].status \in {"APPROVED", "PUBLISHED"} =>
                     W.version[n].approved = W.version[n].content
               /\ W.version[n].author # None => W.version[n].rowVersion <= MaxVersionRow
    <3>1. CASE n = m
      <4>1. m # rows.question.current /\ rows.version[m].author # None
        BY <1>5, <3>1 DEF Shaped, Existing, Open
      <4> QED BY <1>1, <1>2, <1>3, <3>1, <4>1
    <3>2. CASE n # m
      BY <1>1, <1>2, <1>5, <3>2 DEF Shaped, Existing
    <3> QED BY <3>1, <3>2
  <2>2. \A n \in Numbers : W.version[n] # None <=> rows.version[n] # None
    BY <1>2, <1>3
  <2>3. W.version[1].author = W.question.author
    BY <1>1, <1>2, Bounds DEF Shaped
  <2>4. W.question.current # None => W.version[W.question.current] # None
    BY <1>1, <2>2 DEF Shaped, Question
  <2> QED BY <1>1, <1>5, <2>1, <2>2, <2>3, <2>4 DEF Shaped
<1>8. \A n \in Candidates(W) : n \in Candidates(rows) /\ W.version[n].author = rows.version[n].author
  BY <1>2, <1>5 DEF Candidates, Existing
<1> QED BY <1>4, <1>6, <1>7, <1>8 DEF Proper, W

\* An edit changes the content of an open version that nobody has approved.
LEMMA UpdateVersionProper ==
    ASSUME Kept, NEW a \in Admins, Armed(a), cmd[a].kind = "QUESTION_VERSION_UPDATE"
    PROVE  Proper(a, UpdateVersion(a, cmd[a]))
<1> DEFINE c == cmd[a]
           m == c.number
           v == rows.version[m]
           w == [v EXCEPT !.content = c.content, !.rowVersion = NextRow(c.target.version[m])]
<1>1. c.kind \in OnVersion /\ c.kind \in Writing
  BY DEF OnVersion, Writing
<1>2. m \in Numbers /\ v \in Version /\ c.content \in Contents
  BY <1>1, ArmedTarget
<1>3. m \in Manifest(c.kind, m, c.target) /\ m \in Manifest(c.kind, m, rows)
  BY DEF Manifest
<1>4. v # None /\ m \in Existing(rows)
  BY <1>2, RowsAssumption DEF Existing
<1>5. /\ v.rowVersion = c.target.version[m].rowVersion
      /\ v.status = c.target.version[m].status
      /\ c.target.version[m].status \in Editable
      /\ v.rowVersion < MaxVersionRow
  BY <1>3, <1>4, ArmedTarget DEF SameRow, Allowed, Bounded
<1> HIDE DEF m, v
<1>6. v.rowVersion \in Nat /\ v.rowVersion + 1 \in 1..(MaxVersionRow + 1)
  BY <1>2, <1>5, Bounds DEF Version
<1>7. /\ w \in Version
      /\ w.rowVersion = v.rowVersion + 1
      /\ w.author = v.author
      /\ w.status = v.status
  BY <1>2, <1>5, <1>6 DEF NextRow, Version
<1>8. v.status \in Open /\ v.status # "APPROVED"
  BY <1>5 DEF Open, Editable
<1>9. UpdateVersion(a, c) = [rows EXCEPT !.version[m] = w]
  BY DEF UpdateVersion, m, v
<1> HIDE DEF w
<1> QED BY <1>2, <1>4, <1>5, <1>7, <1>8, <1>9, VersionRewritten DEF v

\* A review moves an open version; an approval is of the content on the page.
LEMMA TransitionVersionProper ==
    ASSUME Kept, NEW a \in Admins, Armed(a), cmd[a].kind \in Transitions
    PROVE  Proper(a, TransitionVersion(a, cmd[a]))
<1> DEFINE c == cmd[a]
           m == c.number
           v == rows.version[m]
           w == [v EXCEPT !.status = Transition[c.kind].to,
                          !.rowVersion = NextRow(c.target.version[m]),
                          !.approver = IF c.kind = "APPROVAL" THEN a ELSE v.approver,
                          !.approved = IF c.kind = "APPROVAL" THEN c.shown ELSE v.approved]
<1>1. TransitionVersion(a, c) = [rows EXCEPT !.version[m] = w]
  BY DEF TransitionVersion
<1>2. c.kind \in {"REVIEW_REQUEST", "CHANGE_REQUEST", "APPROVAL", "APPROVAL_WITHDRAWAL"}
  BY DEF Transitions, Transition
<1>3. c.kind # "QUESTION_CREATE" /\ c.kind \in OnVersion
  BY <1>2 DEF OnVersion
<1>4. m \in Numbers /\ v \in Version /\ c.shown = c.target.version[m].content
  BY <1>3, ArmedTarget
<1>5. Manifest(c.kind, m, c.target) = {m} /\ Manifest(c.kind, m, rows) = {m}
  BY <1>2 DEF Manifest
<1>6. v # None /\ m \in Existing(rows)
  BY <1>4, RowsAssumption DEF Existing
<1>7. /\ v.rowVersion = c.target.version[m].rowVersion
      /\ v.status = c.target.version[m].status
      /\ v.content = c.target.version[m].content
      /\ c.target.version[m].status \in Transition[c.kind].from
      /\ v.rowVersion < MaxVersionRow
  BY <1>3, <1>5, <1>6, ArmedTarget DEF SameRow, Allowed, Bounded
<1> HIDE DEF m, v
<1>8. v.rowVersion \in Nat /\ v.rowVersion + 1 \in 1..(MaxVersionRow + 1)
  BY <1>4, <1>7, Bounds DEF Version
<1>9. /\ Transition[c.kind].from \subseteq Open
      /\ Transition[c.kind].to \in Open
      /\ c.kind # "APPROVAL" => Transition[c.kind].to # "APPROVED"
  BY <1>2 DEF Transition, Editable, Open
<1>10. Transition[c.kind].to \in Statuses /\ c.shown \in Contents
  BY <1>4, <1>7, <1>9 DEF Statuses, Version
<1> HIDE DEF c
<1>11. /\ w \in Version
       /\ w.rowVersion = v.rowVersion + 1
       /\ w.author = v.author
       /\ w.status = Transition[c.kind].to
       /\ w.content = v.content
       /\ c.kind = "APPROVAL" => w.approved = c.shown
  BY <1>4, <1>7, <1>8, <1>10 DEF NextRow, Version
<1> HIDE DEF w
<1>12. w.status = "APPROVED" => w.approved = w.content
  BY <1>4, <1>7, <1>9, <1>11
<1> QED BY <1>3, <1>4, <1>6, <1>7, <1>9, <1>11, <1>1, <1>12, VersionRewritten DEF v, c

\* Rows in which versions have become retired or one of them published, under a question that
\* has a new row version, are later rows.
LEMMA VersionsClosed ==
    ASSUME Kept, NEW a \in Admins, Armed(a), cmd[a].kind # "QUESTION_CREATE",
           NEW q \in Question, q.rowVersion = rows.question.rowVersion + 1,
           NEW f \in [Numbers -> Version \cup {None}],
           \A n \in Numbers : rows.version[n] = None <=> f[n] = None,
           \A n \in Existing(rows) :
              \/ f[n] = rows.version[n]
              \/ /\ f[n].rowVersion = rows.version[n].rowVersion + 1
                 /\ f[n].status \notin Open
    PROVE  LET W == [question |-> q, version |-> f] IN
           /\ W \in Rows
           /\ Earlier(rows, W)
           /\ \A n \in Candidates(W) : n \in Candidates(rows) /\ f[n] = rows.version[n]
<1> DEFINE W == [question |-> q, version |-> f]
<1> USE RowsFound
<1>1. W \in Rows /\ W.question = q /\ W.version = f
  BY DEF Rows
<1> HIDE DEF W
<1>2. ASSUME NEW n \in Numbers, rows.version[n] # None
      PROVE  EarlierVersion(rows.version[n], f[n])
  BY <1>2 DEF Existing, EarlierVersion, SameRow
<1>3. Earlier(rows, W)
  BY <1>1, <1>2, RowsAssumption DEF Earlier, SameRow
<1>4. ASSUME NEW n \in Candidates(W)
      PROVE  n \in Candidates(rows) /\ f[n] = rows.version[n]
  BY <1>1, <1>4 DEF Candidates, Existing
<1> QED BY <1>1, <1>3, <1>4 DEF W

\* A publication retires the version before it, and leaves no open one.
LEMMA PublishVersionProper ==
    ASSUME Kept, NEW a \in Admins, Armed(a), cmd[a].kind = "PUBLICATION"
    PROVE  Proper(a, PublishVersion(a, cmd[a]))
<1> DEFINE c == cmd[a]
           m == c.number
           old == c.target.question.current
           W == PublishVersion(a, c)
           q == W.question
           f == W.version
<1> USE RowsFound
<1>1. /\ rows.question = c.target.question
      /\ m \in Numbers /\ rows.version[m] \in Version /\ rows.version[m] # None
      /\ c.target.version[m].status = "APPROVED"
      /\ Aggregate(c.target) = {m} \cup ({old} \ {None})
      /\ rows.question.rowVersion < MaxQuestionRow
  BY ArmedTarget, RowsAssumption DEF OnVersion, Allowed, Bounded, Transitions, Transition
<1>2. /\ m \in Manifest(c.kind, m, c.target)
      /\ old # None => old \in Manifest(c.kind, m, c.target)
  BY <1>1 DEF Manifest
<1>3. /\ rows.version[m].rowVersion = c.target.version[m].rowVersion
      /\ rows.version[m].status = "APPROVED"
  BY <1>1, <1>2, ArmedTarget DEF SameRow, Existing
<1>4. m \in Candidates(rows) /\ \A n \in Candidates(rows) : n = m
  BY <1>1, <1>3 DEF Shaped, Candidates, Existing, Open
<1>5. old = rows.question.current /\ old \in Numbers \cup {None}
  BY <1>1 DEF Question
<1>6. old # None => /\ rows.version[old] \in Version /\ rows.version[old] # None
                    /\ rows.version[old].status = "PUBLISHED"
  BY <1>5 DEF Shaped, Existing
<1>7. m # old /\ m # None
  BY <1>1, <1>3, <1>6, Bounds
<1>8. m \in Aggregate(rows) /\ (old # None => old \in Aggregate(rows))
  BY <1>4, <1>5 DEF Aggregate
<1>9. \A n \in {m, old} \ {None} : rows.version[n].rowVersion < MaxVersionRow
  BY <1>8, <1>1, ArmedTarget DEF Bounded, Manifest
<1>10. /\ q = [rows.question EXCEPT !.current = m, !.rowVersion = c.target.question.rowVersion + 1]
       /\ f = [n \in Numbers |->
                  IF n = m THEN [rows.version[n] EXCEPT !.status = "PUBLISHED",
                                                       !.rowVersion = c.target.version[n].rowVersion + 1]
                  ELSE IF n = old THEN RetiredRow(rows.version[n])
                  ELSE rows.version[n]]
       /\ W = [question |-> q, version |-> f]
  BY DEF PublishVersion, NextRow
<1> HIDE DEF W, q, f, c, m, old
<1>11. /\ q \in Question
       /\ q.current = m
       /\ q.rowVersion = rows.question.rowVersion + 1
       /\ q.author = rows.question.author
       /\ q.lifecycleStatus = "ACTIVE"
  <2>1. q = [rows.question EXCEPT !.current = m, !.rowVersion = rows.question.rowVersion + 1]
    BY <1>1, <1>10
  <2>2. rows.question.rowVersion + 1 \in 1..(MaxQuestionRow + 1) /\ m \in Numbers \cup {None}
    BY <1>1, Bounds
  <2> QED BY <2>1, <2>2 DEF Question
<1>12. /\ f[m] \in Version
       /\ f[m].status = "PUBLISHED"
       /\ f[m].rowVersion = rows.version[m].rowVersion + 1
       /\ f[m].author = rows.version[m].author
       /\ f[m].content = rows.version[m].content
       /\ f[m].approved = rows.version[m].approved
  <2>1. f[m] = [rows.version[m] EXCEPT !.status = "PUBLISHED",
                                       !.rowVersion = rows.version[m].rowVersion + 1]
    BY <1>1, <1>3, <1>10
  <2>2. rows.version[m].rowVersion + 1 \in 1..(MaxVersionRow + 1)
    BY <1>1, <1>7, <1>9, Bounds DEF Version
  <2> QED BY <1>1, <2>1, <2>2 DEF Version, Statuses
<1>13. old # None => /\ f[old] \in Version
                     /\ f[old].status = "RETIRED"
                     /\ f[old].rowVersion = rows.version[old].rowVersion + 1
                     /\ f[old].author = rows.version[old].author
  <2> HAVE old # None
  <2>1. f[old] = [rows.version[old] EXCEPT !.status = "RETIRED",
                                           !.rowVersion = rows.version[old].rowVersion + 1]
    BY <1>5, <1>7, <1>10 DEF RetiredRow, NextRow
  <2>2. rows.version[old].rowVersion + 1 \in 1..(MaxVersionRow + 1)
    BY <1>6, <1>9, Bounds DEF Version
  <2> QED BY <1>6, <2>1, <2>2 DEF Version, Statuses
<1>14. \A n \in Numbers \ {m, old} : f[n] = rows.version[n]
  BY <1>10
<1>15. f \in [Numbers -> Version \cup {None}]
  <2>1. \A n \in Numbers : f[n] \in Version \cup {None}
    BY <1>12, <1>13, <1>14, Bounds
  <2> QED BY <1>10, <2>1
<1>16. \A n \in Numbers : rows.version[n] = None <=> f[n] = None
  BY <1>1, <1>6, <1>12, <1>13, <1>14, RowsAssumption, Bounds
<1>17. \A n \in Existing(rows) : \/ f[n] = rows.version[n]
                                 \/ /\ f[n].rowVersion = rows.version[n].rowVersion + 1
                                    /\ f[n].status \notin Open
  BY <1>12, <1>13, <1>14, Bounds DEF Existing, Open
<1>18. /\ W \in Rows
       /\ Earlier(rows, W)
       /\ \A n \in Candidates(W) : n \in Candidates(rows) /\ f[n] = rows.version[n]
  BY <1>10, <1>11, <1>15, <1>16, <1>17, VersionsClosed DEF c
<1>19. W.question = q /\ W.version = f
  BY DEF q, f
<1>20. Candidates(W) = {}
  BY <1>4, <1>12, <1>18, <1>19 DEF Candidates, Open
<1>21. Shaped(W)
  <2>1. ASSUME NEW n \in Existing(W)
        PROVE  /\ f[n].status = "PUBLISHED" <=> n = m
               /\ f[n].status \in Open => f[n].author # None
               /\ f[n].status \in {"APPROVED", "PUBLISHED"} => f[n].approved = f[n].content
               /\ f[n].author # None => f[n].rowVersion <= MaxVersionRow
    <3>1. n \in Numbers /\ n \in Existing(rows)
      BY <1>16, <1>19 DEF Existing
    <3>2. CASE n = m
      BY <1>1, <1>3, <1>7, <1>9, <1>12, <3>1, <3>2, Bounds DEF Shaped, Open
    <3>3. CASE n = old
      BY <1>6, <1>7, <1>9, <1>13, <3>1, <3>3, Bounds DEF Open
    <3>4. CASE n \notin {m, old}
      BY <1>5, <1>14, <3>1, <3>4 DEF Shaped
    <3> QED BY <3>2, <3>3, <3>4
  <2>2. f[1].author = q.author
    <3>1. f[1].author = rows.version[1].author
      BY <1>12, <1>13, <1>14, Bounds
    <3> QED BY <1>11, <3>1 DEF Shaped
  <2>3. \E k \in Numbers : \A n \in Numbers : f[n] # None <=> n <= k
    BY <1>16 DEF Shaped
  <2>4. q # None /\ f[q.current] # None
    BY <1>1, <1>11, <1>16, RowsAssumption
  <2> QED BY <1>11, <1>19, <1>20, <2>1, <2>2, <2>3, <2>4 DEF Shaped
<1> QED BY <1>18, <1>20, <1>21 DEF Proper, W, c

\* Rows in which the published version, perhaps with the open one, has been retired.
LEMMA VersionsRetired ==
    ASSUME Kept, NEW a \in Admins, Armed(a), cmd[a].kind # "QUESTION_CREATE",
           NEW D \in SUBSET Existing(rows),
           \A n \in D : rows.version[n].rowVersion < MaxVersionRow,
           rows.question.current # None => rows.question.current \in D,
           NEW q \in Question, q.rowVersion = rows.question.rowVersion + 1,
           q.author = rows.question.author, q.current = None,
           q.lifecycleStatus = "ARCHIVED" => Candidates(rows) \subseteq D
    PROVE  Proper(a, [question |-> q,
                      version |-> [n \in Numbers |-> IF n \in D THEN RetiredRow(rows.version[n])
                                                     ELSE rows.version[n]]])
<1> DEFINE f == [n \in Numbers |-> IF n \in D THEN RetiredRow(rows.version[n]) ELSE rows.version[n]]
           W == [question |-> q, version |-> f]
<1> USE RowsFound
<1>1. ASSUME NEW n \in D
      PROVE  /\ f[n] \in Version
             /\ f[n].status = "RETIRED"
             /\ f[n].rowVersion = rows.version[n].rowVersion + 1
             /\ f[n].author = rows.version[n].author
             /\ f[n].rowVersion <= MaxVersionRow
             /\ n \in Numbers /\ rows.version[n] # None
  <2>1. n \in Numbers /\ rows.version[n] # None
    BY DEF Existing
  <2>2. f[n] = [rows.version[n] EXCEPT !.status = "RETIRED",
                                       !.rowVersion = rows.version[n].rowVersion + 1]
    BY <2>1 DEF RetiredRow, NextRow
  <2>3. rows.version[n].rowVersion + 1 \in 1..(MaxVersionRow + 1) /\ rows.version[n].rowVersion + 1 <= MaxVersionRow
    BY <2>1, Bounds DEF Version
  <2> HIDE DEF f
  <2> QED BY <2>1, <2>2, <2>3 DEF Version, Statuses
<1>2. \A n \in Numbers \ D : f[n] = rows.version[n]
  OBVIOUS
<1>3. f \in [Numbers -> Version \cup {None}]
  <2>1. \A n \in Numbers : f[n] \in Version \cup {None}
    BY <1>1, <1>2
  <2> QED BY <2>1
<1> HIDE DEF f
<1>4. \A n \in Numbers : rows.version[n] = None <=> f[n] = None
  BY <1>1, <1>2, RowsAssumption
<1>5. \A n \in Existing(rows) : \/ f[n] = rows.version[n]
                                \/ /\ f[n].rowVersion = rows.version[n].rowVersion + 1
                                   /\ f[n].status \notin Open
  BY <1>1, <1>2 DEF Existing, Open
<1>6. /\ W \in Rows
      /\ Earlier(rows, W)
      /\ \A n \in Candidates(W) : n \in Candidates(rows) /\ f[n] = rows.version[n]
  BY <1>3, <1>4, <1>5, VersionsClosed
<1>7. W.question = q /\ W.version = f
  OBVIOUS
<1> HIDE DEF W
<1>8. \A n \in Candidates(W) : n \notin D
  BY <1>1, <1>7 DEF Candidates, Open
<1>9. Shaped(W)
  <2>1. ASSUME NEW n \in Existing(W)
        PROVE  /\ f[n].status = "PUBLISHED" <=> n = q.current
               /\ f[n].status \in Open => f[n].author # None
               /\ f[n].status \in {"APPROVED", "PUBLISHED"} => f[n].approved = f[n].content
               /\ f[n].author # None => f[n].rowVersion <= MaxVersionRow
    <3>1. n \in Numbers /\ n \in Existing(rows) /\ n # None
      BY <1>4, <1>7, Bounds DEF Existing
    <3>2. CASE n \in D
      BY <1>1, <3>1, <3>2 DEF Open
    <3>3. CASE n \notin D
      BY <1>2, <3>1, <3>3 DEF Shaped
    <3> QED BY <3>2, <3>3
  <2>2. f[1].author = q.author
    <3>1. f[1].author = rows.version[1].author
      BY <1>1, <1>2, Bounds
    <3> QED BY <3>1 DEF Shaped
  <2>3. \E k \in Numbers : \A n \in Numbers : f[n] # None <=> n <= k
    BY <1>4 DEF Shaped
  <2>4. q.lifecycleStatus = "ARCHIVED" => \A n \in Numbers : n \notin Candidates(W)
    BY <1>6, <1>8
  <2>5. \A m, n \in Candidates(W) : m = n
    BY <1>6 DEF Shaped
  <2>6. q # None
    BY RowsAssumption
  <2> QED BY <1>7, <2>1, <2>2, <2>3, <2>4, <2>5, <2>6 DEF Shaped
<1> QED BY <1>6, <1>7, <1>9 DEF Proper, W, f

\* A retirement takes the published version away.
LEMMA RetireVersionProper ==
    ASSUME Kept, NEW a \in Admins, Armed(a), cmd[a].kind = "RETIREMENT"
    PROVE  Proper(a, RetireVersion(a, cmd[a]))
<1> DEFINE c == cmd[a]
           m == c.number
           q == [rows.question EXCEPT !.current = None, !.rowVersion = NextRow(c.target.question)]
<1> USE RowsFound
<1>1. /\ rows.question = c.target.question
      /\ m \in Numbers /\ rows.version[m] # None
      /\ rows.question.current = m
      /\ rows.question.rowVersion < MaxQuestionRow
      /\ rows.version[m].rowVersion < MaxVersionRow
  BY ArmedTarget, RowsAssumption DEF OnVersion, Allowed, Bounded, Transitions, Transition, Manifest
<1>2. q = [rows.question EXCEPT !.current = None, !.rowVersion = rows.question.rowVersion + 1]
  BY <1>1 DEF NextRow
<1>3. RetireVersion(a, c)
        = [question |-> q,
           version |-> [n \in Numbers |-> IF n \in {m} THEN RetiredRow(rows.version[n])
                                          ELSE rows.version[n]]]
  <2>1. [rows.version EXCEPT ![m] = RetiredRow(rows.version[m])]
          = [n \in Numbers |-> IF n \in {m} THEN RetiredRow(rows.version[n]) ELSE rows.version[n]]
    BY <1>1
  <2> QED BY <2>1 DEF RetireVersion
<1> HIDE DEF q, m
<1>4. /\ q \in Question
      /\ q.current = None
      /\ q.rowVersion = rows.question.rowVersion + 1
      /\ q.author = rows.question.author
      /\ q.lifecycleStatus = "ACTIVE"
  <2>1. rows.question.rowVersion + 1 \in 1..(MaxQuestionRow + 1)
    BY <1>1, Bounds
  <2> QED BY <1>2, <2>1 DEF Question
<1>5. {m} \in SUBSET Existing(rows)
  BY <1>1 DEF Existing
<1> QED BY <1>1, <1>3, <1>4, <1>5, VersionsRetired

\* An archiving retires whatever is open or published.
LEMMA ArchiveQuestionProper ==
    ASSUME Kept, NEW a \in Admins, Armed(a), cmd[a].kind = "QUESTION_ARCHIVE"
    PROVE  Proper(a, ArchiveQuestion(a, cmd[a]))
<1> DEFINE c == cmd[a]
           D == Aggregate(c.target)
           q == [rows.question EXCEPT !.lifecycleStatus = "ARCHIVED", !.current = None,
                                      !.rowVersion = NextRow(c.target.question)]
<1> USE RowsFound
<1>1. /\ rows.question = c.target.question
      /\ D = Aggregate(rows)
      /\ rows.question.rowVersion < MaxQuestionRow
      /\ \A n \in D : rows.version[n].rowVersion < MaxVersionRow
  BY ArmedTarget DEF Unchanged, Bounded, Transitions, Transition, Manifest
<1>2. q = [rows.question EXCEPT !.lifecycleStatus = "ARCHIVED", !.current = None,
                                !.rowVersion = rows.question.rowVersion + 1]
  BY <1>1 DEF NextRow
<1>3. ArchiveQuestion(a, c)
        = [question |-> q,
           version |-> [n \in Numbers |-> IF n \in D THEN RetiredRow(rows.version[n])
                                          ELSE rows.version[n]]]
  BY DEF ArchiveQuestion
<1> HIDE DEF q, D
<1>4. /\ q \in Question
      /\ q.current = None
      /\ q.rowVersion = rows.question.rowVersion + 1
      /\ q.author = rows.question.author
  <2>1. rows.question.rowVersion + 1 \in 1..(MaxQuestionRow + 1)
    BY <1>1, Bounds
  <2> QED BY <1>2, <2>1 DEF Question
<1>5. /\ D \in SUBSET Existing(rows)
      /\ rows.question.current # None => rows.question.current \in D
      /\ Candidates(rows) \subseteq D
  BY <1>1 DEF Aggregate, Candidates, Existing, Shaped, Question
<1> QED BY <1>1, <1>3, <1>4, <1>5, VersionsRetired

\* Whatever an armed command writes is proper.
LEMMA WrittenProper ==
    ASSUME Kept, NEW a \in Admins, Armed(a)
    PROVE  Proper(a, Written(a, cmd[a]))
<1> DEFINE c == cmd[a]
<1>1. c.kind \in Kinds
  BY DEF Kept, TypeOK, Armed, Command
<1>2. CASE c.kind = "QUESTION_CREATE"
  BY <1>2, CreateQuestionProper DEF Written, Transitions, Transition
<1>3. CASE c.kind = "QUESTION_VERSION_CREATE"
  BY <1>3, CreateVersionProper DEF Written, Transitions, Transition
<1>4. CASE c.kind = "QUESTION_VERSION_UPDATE"
  BY <1>4, UpdateVersionProper DEF Written, Transitions, Transition
<1>5. CASE c.kind \in Transitions
  <2>1. Written(a, c) = TransitionVersion(a, c)
    BY <1>5 DEF Written, Transitions, Transition
  <2> QED BY <1>5, <2>1, TransitionVersionProper
<1>6. CASE c.kind = "PUBLICATION"
  BY <1>6, PublishVersionProper DEF Written, Transitions, Transition
<1>7. CASE c.kind = "RETIREMENT"
  BY <1>7, RetireVersionProper DEF Written, Transitions, Transition
<1>8. CASE c.kind = "QUESTION_ARCHIVE"
  BY <1>8, ArchiveQuestionProper DEF Written, Transitions, Transition
<1> QED BY <1>1, <1>2, <1>3, <1>4, <1>5, <1>6, <1>7, <1>8 DEF Kinds, OnVersion

\* The erasure of a user leaves well-formed later rows, and no open version of the user.
LEMMA ErasedProper ==
    ASSUME Kept, NEW u \in Admins, rows.question # None => rows.question.rowVersion <= MaxQuestionRow
    PROVE  LET W == ErasedRows(u, rows) IN
           /\ W \in Rows
           /\ Shaped(W)
           /\ Earlier(rows, W)
           /\ rows.question = None => W = rows
           /\ \A n \in Candidates(W) : /\ n \in Candidates(rows)
                                       /\ W.version[n].author = rows.version[n].author
                                       /\ W.version[n].author # u
<1> DEFINE W == ErasedRows(u, rows)
           mine == {n \in Existing(rows) : rows.version[n].author = u}
           q == W.question
           f == W.version
<1>1. /\ rows \in Rows /\ Shaped(rows)
      /\ rows = [question |-> rows.question, version |-> rows.version]
      /\ rows.question # None => rows.question \in Question /\ rows.question.rowVersion \in Nat
      /\ rows.version \in [Numbers -> Version \cup {None}]
      /\ \A n \in Numbers : rows.version[n] # None =>
            rows.version[n] \in Version /\ rows.version[n].rowVersion \in Nat
  BY RowsParts DEF Kept, TypeOK, Rows, Question, Version
<1>2. u # None
  BY NoneAssumption
<1>3. /\ W = [question |-> q, version |-> f]
      /\ q = IF rows.question = None THEN None
             ELSE IF rows.question.author = u \/ mine \cap Candidates(rows) # {}
             THEN [rows.question EXCEPT !.author = IF rows.question.author = u THEN None ELSE rows.question.author,
                                        !.rowVersion = rows.question.rowVersion + 1]
             ELSE rows.question
      /\ DOMAIN f = Numbers /\ f = [n \in Numbers |-> f[n]]
  BY DEF ErasedRows
<1>4. ASSUME NEW n \in Numbers, rows.version[n] = None
      PROVE  f[n] = None
  BY <1>4 DEF ErasedRows
<1>5. ASSUME NEW n \in Numbers, rows.version[n] # None
      PROVE  /\ f[n] \in Version /\ f[n] # None
             /\ f[n].content = rows.version[n].content
             /\ f[n].approved = rows.version[n].approved
             /\ n \notin mine => /\ f[n].status = rows.version[n].status
                                 /\ f[n].rowVersion = rows.version[n].rowVersion
                                 /\ f[n].author = rows.version[n].author
             /\ n \in mine => /\ f[n].status = IF rows.version[n].status \in Open THEN "RETIRED"
                                               ELSE rows.version[n].status
                              /\ f[n].rowVersion = rows.version[n].rowVersion + 1
                              /\ f[n].author = None
  <2> DEFINE v == [rows.version[n] EXCEPT !.approver = IF rows.version[n].approver = u THEN None
                                                       ELSE rows.version[n].approver]
  <2>1. f[n] = IF n \notin mine THEN v
               ELSE [v EXCEPT !.status = IF v.status \in Open THEN "RETIRED" ELSE v.status,
                              !.rowVersion = v.rowVersion + 1, !.author = None]
    BY <1>5 DEF ErasedRows
  <2> HIDE DEF W, f, q
  <2>2. /\ v \in Version
        /\ v.status = rows.version[n].status
        /\ v.rowVersion = rows.version[n].rowVersion
        /\ v.author = rows.version[n].author
        /\ v.content = rows.version[n].content
        /\ v.approved = rows.version[n].approved
    BY <1>1, <1>5 DEF Version
  <2>3. n \in mine => v.rowVersion + 1 \in 1..(MaxVersionRow + 1)
    BY <1>1, <1>2, <1>5, <2>2, Bounds DEF Shaped, Existing
  <2> HIDE DEF v, mine
  <2>4. CASE n \notin mine
    BY <2>1, <2>2, <2>4, RowsAssumption
  <2>5. CASE n \in mine
    <3> DEFINE status == IF v.status \in Open THEN "RETIRED" ELSE v.status
    <3>1. f[n] = [v EXCEPT !.status = status, !.rowVersion = v.rowVersion + 1, !.author = None]
      BY <2>1, <2>5
    <3>2. status \in Statuses
      BY <2>2 DEF Version, Statuses
    <3> HIDE DEF status
    <3>3. /\ f[n] \in Version
          /\ f[n].status = status
          /\ f[n].rowVersion = v.rowVersion + 1
          /\ f[n].author = None
          /\ f[n].content = v.content
          /\ f[n].approved = v.approved
      BY <2>2, <2>3, <2>5, <3>1, <3>2 DEF Version
    <3> QED BY <2>2, <2>5, <3>3, RowsAssumption DEF status
  <2> QED BY <2>4, <2>5
<1>6. f \in [Numbers -> Version \cup {None}]
  BY <1>3, <1>4, <1>5
<1> HIDE DEF W, q, f
<1>7. ASSUME rows.question # None
      PROVE  /\ q \in Question /\ q # None
             /\ q.current = rows.question.current
             /\ q.lifecycleStatus = rows.question.lifecycleStatus
             /\ q.author = IF rows.question.author = u THEN None ELSE rows.question.author
             /\ rows.question.rowVersion <= q.rowVersion
             /\ q.rowVersion = rows.question.rowVersion => q = rows.question
  <2>1. CASE rows.question.author = u \/ mine \cap Candidates(rows) # {}
    <3> DEFINE author == IF rows.question.author = u THEN None ELSE rows.question.author
    <3>1. q = [rows.question EXCEPT !.author = author, !.rowVersion = rows.question.rowVersion + 1]
      BY <1>3, <1>7, <2>1
    <3>2. rows.question.rowVersion + 1 \in 1..(MaxQuestionRow + 1) /\ author \in Admins \cup {None}
      BY <1>1, <1>7, Bounds DEF Question
    <3> HIDE DEF author
    <3>3. /\ q \in Question
          /\ q.current = rows.question.current
          /\ q.lifecycleStatus = rows.question.lifecycleStatus
          /\ q.author = author
          /\ q.rowVersion = rows.question.rowVersion + 1
      BY <1>1, <1>7, <3>1, <3>2 DEF Question
    <3> QED BY <1>1, <1>7, <3>3, RowsAssumption DEF author
  <2>2. CASE ~(rows.question.author = u \/ mine \cap Candidates(rows) # {})
    BY <1>1, <1>3, <1>7, <2>2
  <2> QED BY <2>1, <2>2
<1>8. rows.question = None => q = None
  BY <1>3
<1>9. W \in Rows
  BY <1>3, <1>6, <1>7, <1>8 DEF Rows
<1>10. W.question = q /\ W.version = f
  BY DEF q, f
<1>11. Existing(W) = Existing(rows)
  BY <1>4, <1>5, <1>10 DEF Existing
<1>12. ASSUME NEW n \in Candidates(W)
       PROVE  /\ n \in Candidates(rows)
              /\ f[n].author = rows.version[n].author
              /\ f[n].author # u
  <2>1. n \in Numbers /\ rows.version[n] # None /\ f[n].status \in Open
    BY <1>10, <1>11, <1>12 DEF Candidates, Existing
  <2>2. n \notin mine
    BY <1>5, <2>1 DEF Open
  <2> QED BY <1>5, <2>1, <2>2 DEF Candidates, Existing
<1>13. Earlier(rows, W)
  <2>1. ASSUME NEW n \in Numbers, rows.version[n] # None
        PROVE  EarlierVersion(rows.version[n], f[n])
    <3>1. CASE n \notin mine
      BY <1>1, <1>5, <2>1, <3>1 DEF EarlierVersion, SameRow
    <3>2. CASE n \in mine
      BY <1>1, <1>5, <2>1, <3>2 DEF EarlierVersion, SameRow, Open
    <3> QED BY <3>1, <3>2
  <2>2. \A n \in Numbers : f[n] # None => rows.version[n] # None
    BY <1>4
  <2> QED BY <1>7, <1>10, <2>1, <2>2 DEF Earlier, SameRow
<1>14. rows.question = None => W = rows
  <2> HAVE rows.question = None
  <2>1. \A n \in Numbers : rows.version[n] = None /\ f[n] = None
    BY <1>1, <1>4 DEF Shaped
  <2>2. f = rows.version
    BY <1>1, <1>6, <2>1
  <2> QED BY <1>1, <1>3, <1>8, <2>2
<1>15. Shaped(W)
  <2>1. CASE rows.question = None
    BY <1>1, <1>14, <2>1
  <2>2. CASE rows.question # None
    <3>1. ASSUME NEW n \in Existing(W)
          PROVE  /\ f[n].status = "PUBLISHED" <=> n = q.current
                 /\ f[n].status \in Open => f[n].author # None
                 /\ f[n].status \in {"APPROVED", "PUBLISHED"} => f[n].approved = f[n].content
                 /\ f[n].author # None => f[n].rowVersion <= MaxVersionRow
      <4>1. n \in Numbers /\ n \in Existing(rows) /\ rows.version[n] # None
        BY <1>11, <3>1 DEF Existing
      <4>2. CASE n \in mine
        BY <1>1, <1>5, <1>7, <2>2, <4>1, <4>2 DEF Shaped, Open
      <4>3. CASE n \notin mine
        BY <1>1, <1>5, <1>7, <2>2, <4>1, <4>3 DEF Shaped
      <4> QED BY <4>2, <4>3
    <3>2. f[1].author = q.author
      <4>1. rows.version[1] # None
        BY <1>1, <2>2, Bounds DEF Shaped
      <4>2. rows.version[1].author = rows.question.author
        BY <1>1, <2>2 DEF Shaped
      <4>3. f[1].author = IF rows.version[1].author = u THEN None ELSE rows.version[1].author
        BY <1>5, <4>1, Bounds DEF Existing
      <4> QED BY <1>7, <2>2, <4>2, <4>3
    <3>3. \A n \in Numbers : f[n] # None <=> rows.version[n] # None
      BY <1>4, <1>5
    <3>4. q.current # None => f[q.current] # None
      BY <1>1, <1>7, <2>2, <3>3 DEF Shaped, Question
    <3>5. \E k \in Numbers : \A n \in Numbers : f[n] # None <=> n <= k
      BY <1>1, <2>2, <3>3 DEF Shaped
    <3>6. \A m, n \in Candidates(W) : m = n
      BY <1>1, <1>12, <2>2 DEF Shaped
    <3>7. q.lifecycleStatus = "ARCHIVED" => q.current = None /\ \A n \in Numbers : n \notin Candidates(W)
      BY <1>1, <1>7, <1>12, <2>2 DEF Shaped
    <3> QED BY <1>7, <1>10, <2>2, <3>1, <3>2, <3>4, <3>5, <3>6, <3>7 DEF Shaped
  <2> QED BY <2>1, <2>2
<1> QED BY <1>9, <1>10, <1>12, <1>13, <1>14, <1>15 DEF W

----------------------------------------------------------------------------
(* The steps.                                                               *)

\* What a command knows stays true when rows only get later, unless it is armed or a
\* creation: then they have to stay.
LEMMA KnownPersists ==
    ASSUME Kept, rows' \in Rows, Earlier(rows, rows'),
           NEW a \in Admins, cmd[a] # None, cmd'[a] = cmd[a],
           Armed(a) => rows' = rows,
           cmd[a].stage # "VIEWED" /\ cmd[a].kind = "QUESTION_CREATE" =>
              rows' = rows /\ \A b \in Admins : cmd'[b] # None => cmd[b] # None
    PROVE  Known(a)'
<1> DEFINE c == cmd[a]
<1>1. c \in Command /\ rows \in Rows /\ Known(a)
  BY DEF Kept, TypeOK, CommandsKnown
<1>2. ASSUME c.stage = "VIEWED"
      PROVE  c.seen.question # None /\ Earlier(c.seen, rows')
  <2>1. c.seen \in Rows
    BY <1>1, <1>2 DEF Command
  <2> QED BY <1>1, <1>2, <2>1, EarlierTransitive DEF Known
<1>3. ASSUME c.stage # "VIEWED", c.kind = "QUESTION_CREATE"
      PROVE  /\ rows'.question = None
             /\ c.content \in Contents
             /\ \A b \in Admins : cmd'[b] # None => b = a
  BY <1>1, <1>3 DEF Known
<1>4. ASSUME c.stage # "VIEWED", c.kind # "QUESTION_CREATE"
      PROVE  Earlier(c.target, rows')
  <2>1. c.target \in Rows
    BY <1>1, <1>4 DEF Command
  <2> QED BY <1>1, <1>4, <2>1, EarlierTransitive DEF Known
<1>5. c.stage = "ARMED" => (Unchanged(c) => Unchanged(c)') /\ (Bounded(c) => Bounded(c)')
  BY DEF Armed, Unchanged, Bounded
<1> QED BY <1>1, <1>2, <1>3, <1>4, <1>5 DEF Known

\* A step of a command that leaves the rows alone: the command is dropped, or goes on with
\* what it knows; nobody arms while another one is armed.
LEMMA CommandStep ==
    ASSUME Kept, NEW a \in Admins, NEW x \in {None} \cup Command, cmd' = [cmd EXCEPT ![a] = x],
           rows' = rows, admin' = admin,
           x # None => /\ Known(a)'
                       /\ \A b \in Admins : cmd[b] # None /\ b # a =>
                             ~(cmd[b].stage # "VIEWED" /\ cmd[b].kind = "QUESTION_CREATE"),
           x # None /\ x.stage = "ARMED" => a \in x.users /\ \A b \in Admins : ~Armed(b)
    PROVE  Kept'
<1>1. /\ cmd'[a] = x
      /\ \A b \in Admins : b # a => cmd'[b] = cmd[b]
      /\ cmd' \in [Admins -> {None} \cup Command]
  BY DEF Kept, TypeOK
<1>2. rows \in Rows /\ Earlier(rows, rows')
  BY EarlierReflexive DEF Kept, TypeOK
<1>3. TypeOK'
  BY <1>1 DEF Kept, TypeOK
<1>4. Shaped(rows)' /\ AuthorsStay'
  BY DEF Kept, AuthorsStay, Shaped, Candidates, Existing
<1>5. CommandsKnown'
  <2> SUFFICES ASSUME NEW b \in Admins, cmd'[b] # None
               PROVE  Known(b)'
    BY DEF CommandsKnown
  <2>1. CASE b = a
    BY <1>1, <2>1
  <2>2. CASE b # a
    <3>1. cmd[b] # None /\ cmd'[b] = cmd[b]
      BY <1>1, <2>2
    <3>2. ASSUME cmd[b].stage # "VIEWED" /\ cmd[b].kind = "QUESTION_CREATE"
          PROVE  \A d \in Admins : cmd'[d] # None => cmd[d] # None
      BY <1>1, <2>2, <3>1, <3>2
    <3> QED BY <1>2, <3>1, <3>2, KnownPersists
  <2> QED BY <2>1, <2>2
<1>6. OneArmed'
  BY <1>1 DEF Kept, OneArmed, Armed
<1> QED BY <1>3, <1>4, <1>5, <1>6 DEF Kept

\* The page shows the rows as they are.
LEMMA ViewKept ==
    ASSUME Kept, NEW a \in Admins, View(a)
    PROVE  Kept'
<1> DEFINE x == [stage |-> "VIEWED", seen |-> rows]
<1>1. rows \in Rows /\ rows.question # None /\ rows' = rows /\ cmd' = [cmd EXCEPT ![a] = x]
  BY DEF Kept, TypeOK, View
<1>2. x \in Command
  BY <1>1 DEF Command
<1>3. cmd'[a] = x
  BY <1>1 DEF Kept, TypeOK
<1>4. Known(a)'
  BY <1>1, <1>3, EarlierReflexive DEF Known
<1>5. \A b \in Admins : cmd[b] # None => ~(cmd[b].stage # "VIEWED" /\ cmd[b].kind = "QUESTION_CREATE")
  BY <1>1 DEF Kept, CommandsKnown, Known
<1> QED BY <1>1, <1>2, <1>4, <1>5, CommandStep DEF View

\* A request is refused, or its target is the rows as they are, and the version it names what
\* was on the page.
LEMMA SendKept ==
    ASSUME Kept, NEW a \in Admins, NEW kind \in Kinds \ {"QUESTION_CREATE"},
           NEW n, n \in IF kind \in OnVersion THEN Numbers ELSE {None},
           NEW content, content \in IF kind \in Writing THEN Contents ELSE {None},
           Send(a, kind, n, content)
    PROVE  Kept'
<1> DEFINE seen == cmd[a].seen
           shown == IF n = None THEN None ELSE seen.version[n].content
           x == Sent(a, kind, n, content, shown)
<1>1. /\ rows \in Rows /\ rows' = rows /\ admin' = admin
      /\ seen \in Rows /\ seen.question # None /\ Earlier(seen, rows)
      /\ n # None => seen.version[n] # None
  BY DEF Kept, TypeOK, Send, CommandsKnown, Known, Command
<1>2. rows.question # None
  BY <1>1 DEF Earlier
<1>3. \A b \in Admins : cmd[b] # None => ~(cmd[b].stage # "VIEWED" /\ cmd[b].kind = "QUESTION_CREATE")
  BY <1>2 DEF Kept, CommandsKnown, Known
<1>4. CASE ~(Expected(kind, n, seen) /\ Allowed(a, kind, n, rows))
  <2>1. cmd' = [cmd EXCEPT ![a] = None]
    BY <1>4 DEF Send
  <2> QED BY <1>1, <2>1, CommandStep
<1>5. CASE Expected(kind, n, seen) /\ Allowed(a, kind, n, rows)
  <2>1. cmd' = [cmd EXCEPT ![a] = x] /\ cmd'[a] = x
    BY <1>5 DEF Send, Kept, TypeOK
  <2>2. ASSUME kind \in OnVersion
        PROVE  /\ n \in Numbers
               /\ rows.version[n] # None
               /\ shown = rows.version[n].content
    <3>1. n \in Numbers /\ n # None
      BY <2>2, Bounds
    <3>2. EarlierVersion(seen.version[n], rows.version[n])
      BY <1>1, <3>1 DEF Earlier
    <3>3. SameRow(seen.version[n], rows.version[n])
      BY <1>5, <2>2 DEF Expected
    <3> QED BY <3>1, <3>2, <3>3 DEF EarlierVersion
  <2>3. n \in Numbers \cup {None} /\ content \in Contents \cup {None} /\ shown \in Contents \cup {None}
    <3>1. n \in Numbers \cup {None} /\ content \in Contents \cup {None}
      OBVIOUS
    <3>2. n # None => seen.version[n] \in Version
      BY <1>1, <3>1, RowsParts
    <3> QED BY <3>1, <3>2 DEF Version
  <2> HIDE DEF shown, seen
  <2>4. x \in Command /\ x # None /\ x.stage = "SENT"
    <3>1. x \in Command /\ x.stage = "SENT"
      BY <1>1, <2>3 DEF Command, Sent
    <3> QED BY <3>1, RowsAssumption
  <2>5. Known(a)'
    <3>1. Earlier(rows, rows)
      BY <1>1, EarlierReflexive
    <3>2. /\ x.stage = "SENT" /\ x.kind = kind /\ x.number = n /\ x.content = content
          /\ x.shown = shown /\ x.target = rows
      BY DEF Sent
    <3> HIDE DEF x
    <3>3. kind \in Writing => content \in Contents
      OBVIOUS
    <3>4. Shaped(rows)
      BY DEF Kept
    <3> QED BY <1>1, <1>2, <1>5, <2>1, <2>2, <3>1, <3>2, <3>3, <3>4 DEF Known
  <2> QED BY <1>1, <1>3, <2>1, <2>4, <2>5, CommandStep
<1> QED BY <1>4, <1>5

\* A creation is alone when it starts.
LEMMA SendCreateKept ==
    ASSUME Kept, NEW a \in Admins, NEW content \in Contents, SendCreate(a, content)
    PROVE  Kept'
<1> DEFINE x == Sent(a, "QUESTION_CREATE", None, content, None)
<1>1. /\ rows \in Rows /\ rows' = rows /\ admin' = admin /\ rows.question = None
      /\ cmd' = [cmd EXCEPT ![a] = x] /\ cmd'[a] = x
      /\ \A b \in Admins : cmd[b] = None /\ (b # a => cmd'[b] = None)
  BY DEF Kept, TypeOK, SendCreate
<1>2. x \in Command /\ x.stage = "SENT"
  BY <1>1 DEF Command, Sent, Kinds
<1>3. Known(a)'
  <2>1. x.kind = "QUESTION_CREATE" /\ x.content = content
    BY DEF Sent
  <2> HIDE DEF x
  <2> QED BY <1>1, <1>2, <2>1 DEF Known
<1> HIDE DEF x
<1> QED BY <1>1, <1>2, <1>3, CommandStep

\* Arming locks the administrator, and finds nobody else armed.
LEMMA BeginAndArmKept ==
    ASSUME Kept, NEW a \in Admins, BeginAndArm(a)
    PROVE  Kept'
<1> DEFINE c == cmd[a]
           users == Users(a, c.kind, c.number, c.target)
           x == [c EXCEPT !.stage = "ARMED", !.users = users]
<1>1. /\ rows \in Rows /\ rows' = rows /\ admin' = admin
      /\ c # None /\ c \in Command /\ c.stage = "SENT" /\ c.target \in Rows /\ c.kind \in Kinds
      /\ Known(a)
      /\ \A b \in Admins : ~Armed(b)
  BY DEF Kept, TypeOK, BeginAndArm, CommandsKnown, Command, QuestionLocked, Armed
<1>2. CASE cmd' = [cmd EXCEPT ![a] = None]
  BY <1>1, <1>2, CommandStep
<1>3. CASE /\ cmd' = [cmd EXCEPT ![a] = x]
           /\ Unchanged(c) /\ Bounded(c)
  <2>1. users \in SUBSET Admins /\ a \in users
    <3>1. a # None
      BY NoneAssumption
    <3>2. a \in users
      BY <3>1 DEF Users
    <3>3. c.kind = "QUESTION_CREATE" => users \subseteq Admins
      BY DEF Users, Manifest
    <3>4. ASSUME c.kind # "QUESTION_CREATE"
          PROVE  users \subseteq Admins
      <4>1. c.target.question \in Question /\ Allowed(a, c.kind, c.number, c.target)
        BY <1>1, <3>4, RowsParts DEF Known
      <4>2. c.kind \in OnVersion => c.number \in Numbers /\ c.target.version[c.number] \in Version
        BY <1>1, <3>4, RowsParts DEF Known
      <4>4. c.target.question.current # None => c.target.version[c.target.question.current] # None
        BY <1>1, <3>4 DEF Known, Shaped
      <4>3. ASSUME NEW m \in Manifest(c.kind, c.number, c.target)
            PROVE  c.target.version[m] \in Version
        <5>1. m \in Numbers /\ c.target.version[m] # None
          <6>1. CASE c.kind = "QUESTION_VERSION_CREATE"
            BY <4>3, <6>1 DEF Manifest
          <6>2. CASE c.kind = "QUESTION_ARCHIVE"
            BY <4>1, <4>3, <4>4, <6>2 DEF Manifest, Aggregate, Candidates, Existing, Question
          <6>3. CASE c.kind = "PUBLICATION"
            BY <4>1, <4>3, <4>4, <6>3 DEF Manifest, Aggregate, Candidates, Existing, Question
          <6>4. CASE c.kind \in OnVersion \ {"PUBLICATION"}
            <7>1. m = c.number
              BY <4>3, <6>4 DEF Manifest, OnVersion, Transitions, Transition
            <7> QED BY <4>2, <6>4, <7>1, RowsAssumption
          <6> QED BY <1>1, <3>4, <6>1, <6>2, <6>3, <6>4 DEF Kinds
        <5>2. \A n \in Numbers : c.target.version[n] # None => c.target.version[n] \in Version
          BY <1>1, RowsParts
        <5> QED BY <5>1, <5>2
      <4>5. c.target.question.author \in Admins \cup {None}
        BY <4>1 DEF Question
      <4>6. \A m \in Manifest(c.kind, c.number, c.target) :
               c.target.version[m].author \in Admins \cup {None}
        BY <4>3 DEF Version
      <4>7. c.kind \in {"APPROVAL_WITHDRAWAL", "PUBLICATION"} =>
               c.target.version[c.number].approver \in Admins \cup {None}
        BY <4>2 DEF Version, OnVersion, Transitions, Transition
      <4> QED BY <3>4, <4>5, <4>6, <4>7 DEF Users
    <3> QED BY <3>2, <3>3, <3>4
  <2> HIDE DEF users
  <2>2. /\ x \in Command /\ x # None /\ x.stage = "ARMED" /\ x.users = users
        /\ x.kind = c.kind /\ x.number = c.number /\ x.content = c.content
        /\ x.shown = c.shown /\ x.target = c.target
    BY <1>1, <2>1, RowsAssumption DEF Command
  <2> HIDE DEF x
  <2>3. cmd'[a] = x
    BY <1>3 DEF Kept, TypeOK
  <2>4. Known(a)'
    <3>1. \A b \in Admins : b # a => cmd'[b] = cmd[b]
      BY <1>3 DEF Kept, TypeOK
    <3>2. Unchanged(cmd[a])' /\ Bounded(cmd[a])'
      BY <1>1, <1>3, <2>2, <2>3 DEF Unchanged, Bounded
    <3> QED BY <1>1, <2>2, <2>3, <3>1, <3>2 DEF Known
  <2>5. \A b \in Admins : cmd[b] # None /\ b # a =>
           ~(cmd[b].stage # "VIEWED" /\ cmd[b].kind = "QUESTION_CREATE")
    BY <1>1 DEF Kept, CommandsKnown, Known
  <2> QED BY <1>1, <1>3, <2>1, <2>2, <2>4, <2>5, CommandStep
<1>4. \/ cmd' = [cmd EXCEPT ![a] = None]
      \/ /\ cmd' = [cmd EXCEPT ![a] = x]
         /\ Unchanged(c) /\ Bounded(c)
  BY DEF BeginAndArm
<1> QED BY <1>2, <1>3, <1>4

\* A commit is the armed command's last step; the others learn that their rows are earlier.
LEMMA FinishKept ==
    ASSUME Kept, NEW a \in Admins, Finish(a)
    PROVE  Kept'
<1> DEFINE W == Written(a, cmd[a])
<1>1. /\ Armed(a) /\ rows \in Rows /\ admin' = admin
      /\ cmd' = [cmd EXCEPT ![a] = None]
      /\ \A b \in Admins : Armed(b) => b = a
  BY DEF Kept, TypeOK, Finish, Armed, OneArmed
<1>2. CASE ~Authorised(a)
  BY <1>1, <1>2, CommandStep DEF Finish
<1>3. CASE Authorised(a)
  <2>1. rows' = W /\ Proper(a, W)
    BY <1>1, <1>3, WrittenProper DEF Finish
  <2> HIDE DEF W
  <2>2. rows' \in Rows /\ Shaped(rows') /\ Earlier(rows, rows')
    BY <2>1 DEF Proper
  <2>3. /\ cmd'[a] = None
        /\ \A b \in Admins : b # a => cmd'[b] = cmd[b]
        /\ cmd' \in [Admins -> {None} \cup Command]
    BY <1>1 DEF Kept, TypeOK
  <2>4. TypeOK'
    BY <1>1, <2>2, <2>3 DEF Kept, TypeOK
  <2>5. CommandsKnown'
    <3> SUFFICES ASSUME NEW b \in Admins, cmd'[b] # None
                 PROVE  Known(b)'
      BY DEF CommandsKnown
    <3>1. b # a /\ cmd[b] # None /\ cmd'[b] = cmd[b] /\ ~Armed(b)
      BY <1>1, <2>3
    <3>2. ~(cmd[b].stage # "VIEWED" /\ cmd[b].kind = "QUESTION_CREATE")
      BY <1>1, <3>1 DEF Kept, CommandsKnown, Known, Armed
    <3> QED BY <2>2, <3>1, <3>2, KnownPersists
  <2>6. OneArmed'
    BY <1>1, <2>3 DEF OneArmed, Armed
  <2>7. AuthorsStay'
    <3> SUFFICES ASSUME NEW n \in Candidates(W)
                 PROVE  admin[W.version[n].author] # "DELETION_PENDING"
      BY <1>1, <2>1 DEF AuthorsStay
    <3>1. admin[a] # "DELETION_PENDING"
      BY <1>3 DEF Authorised
    <3> QED BY <2>1, <3>1 DEF Proper, Kept, AuthorsStay
  <2>8. Shaped(rows)'
    BY <2>2 DEF Shaped, Candidates, Existing
  <2> QED BY <2>4, <2>5, <2>6, <2>7, <2>8 DEF Kept
<1> QED BY <1>2, <1>3

\* Time, sign-ins and requests for erasure change one administrator.
LEMMA SessionKept ==
    ASSUME Kept, NEW a \in Admins, Age(a) \/ SignIn(a) \/ RequestErasure(a)
    PROVE  Kept'
<1>1. /\ rows' = rows /\ cmd' = cmd /\ rows \in Rows
      /\ admin' \in [Admins -> AdminStates]
      /\ \A b \in Admins : b # a => admin'[b] = admin[b]
      /\ admin'[a] = "DELETION_PENDING" => ~HasOpen(a)
  BY DEF Kept, TypeOK, Age, SignIn, RequestErasure, AdminStates
<1>2. TypeOK' /\ Shaped(rows)' /\ OneArmed'
  BY <1>1 DEF Kept, TypeOK, Shaped, Candidates, Existing, OneArmed, Armed
<1>3. CommandsKnown'
  <2> SUFFICES ASSUME NEW b \in Admins, cmd'[b] # None
               PROVE  Known(b)'
    BY DEF CommandsKnown
  <2> QED BY <1>1, EarlierReflexive, KnownPersists
<1>4. AuthorsStay'
  <2> SUFFICES ASSUME NEW n \in Candidates(rows)
               PROVE  admin'[rows.version[n].author] # "DELETION_PENDING"
    BY <1>1 DEF AuthorsStay
  <2>1. /\ n \in Numbers /\ rows.version[n] \in Version
        /\ rows.version[n].author # None
        /\ admin[rows.version[n].author] # "DELETION_PENDING"
    <3>1. n \in Existing(rows) /\ n \in Numbers /\ rows.version[n] # None /\ rows.version[n].status \in Open
      BY DEF Candidates, Existing
    <3>2. rows.question # None
      BY <3>1 DEF Kept, Shaped
    <3> QED BY <1>1, <3>1, <3>2, RowsParts DEF Kept, Shaped, AuthorsStay
  <2>2. rows.version[n].author \in Admins
    BY <2>1 DEF Version
  <2>3. rows.version[n].author = a => HasOpen(a)
    BY <2>1 DEF HasOpen
  <2> QED BY <1>1, <2>1, <2>2, <2>3
<1> QED BY <1>2, <1>3, <1>4 DEF Kept

\* An erasure waits for an armed command if it would change its rows.
LEMMA EraseKept ==
    ASSUME Kept, NEW u \in Admins, Erase(u)
    PROVE  Kept'
<1> DEFINE W == ErasedRows(u, rows)
<1>1. /\ rows' = W /\ cmd' = cmd /\ rows \in Rows
      /\ admin' \in [Admins -> AdminStates]
      /\ admin'[u] = "ERASED"
      /\ \A b \in Admins : b # u => admin'[b] = admin[b]
      /\ rows.question # None => rows.question.rowVersion <= MaxQuestionRow
      /\ rows' # rows => \A b \in Admins : ~Armed(b)
  BY DEF Kept, TypeOK, Erase, QuestionLocked, AdminStates, Armed
<1>2. /\ W \in Rows
      /\ Shaped(W)
      /\ Earlier(rows, W)
      /\ rows.question = None => W = rows
      /\ \A n \in Candidates(W) : /\ n \in Candidates(rows)
                                  /\ W.version[n].author = rows.version[n].author
                                  /\ W.version[n].author # u
  BY <1>1, ErasedProper
<1> HIDE DEF W
<1>3. TypeOK' /\ OneArmed'
  BY <1>1, <1>2 DEF Kept, TypeOK, OneArmed, Armed
<1>4. Shaped(rows)'
  BY <1>1, <1>2 DEF Shaped, Candidates, Existing
<1>5. CommandsKnown'
  <2> SUFFICES ASSUME NEW b \in Admins, cmd'[b] # None
               PROVE  Known(b)'
    BY DEF CommandsKnown
  <2>1. cmd[b] # None /\ cmd'[b] = cmd[b] /\ Known(b)
    BY <1>1 DEF Kept, CommandsKnown
  <2>2. cmd[b].stage # "VIEWED" /\ cmd[b].kind = "QUESTION_CREATE" => rows' = rows
    BY <1>1, <1>2, <2>1 DEF Known
  <2> QED BY <1>1, <1>2, <2>1, <2>2, KnownPersists
<1>6. AuthorsStay'
  <2> SUFFICES ASSUME NEW n \in Candidates(W)
               PROVE  admin'[W.version[n].author] # "DELETION_PENDING"
    BY <1>1 DEF AuthorsStay
  <2>1. n \in Candidates(rows) /\ admin[rows.version[n].author] # "DELETION_PENDING"
    BY <1>2 DEF Kept, AuthorsStay
  <2>2. n \in Numbers /\ W.version[n] # None /\ W.version[n].status \in Open
    BY DEF Candidates, Existing
  <2>3. W.question # None
    BY <1>2, <2>2 DEF Shaped
  <2>4. W.version[n].author \in Admins
    BY <1>2, <2>2, <2>3, RowsParts DEF Shaped, Existing, Version
  <2> QED BY <1>1, <1>2, <2>1, <2>4
<1> QED BY <1>3, <1>4, <1>5, <1>6 DEF Kept

----------------------------------------------------------------------------
(* The theorems.                                                            *)

\* At the start there is nothing.
LEMMA InitKept == Init => Kept
<1> SUFFICES ASSUME Init PROVE Kept
  OBVIOUS
<1>1. TypeOK
  BY DEF Init, TypeOK, Rows, AdminStates
<1>2. /\ rows.question = None /\ \A n \in Numbers : rows.version[n] = None
      /\ \A a \in Admins : cmd[a] = None
  BY DEF Init
<1>3. Shaped(rows) /\ AuthorsStay
  BY <1>2 DEF Shaped, AuthorsStay, Candidates, Existing
<1> QED BY <1>1, <1>2, <1>3 DEF Kept, CommandsKnown, OneArmed, Armed

\* No step breaks the invariant.
LEMMA NextKept == Kept /\ [Next]_vars => Kept'
<1> SUFFICES ASSUME Kept, [Next]_vars PROVE Kept'
  OBVIOUS
<1>1. ASSUME NEW a \in Admins, View(a) PROVE Kept'
  BY <1>1, ViewKept
<1>2. ASSUME NEW a \in Admins, BeginAndArm(a) PROVE Kept'
  BY <1>2, BeginAndArmKept
<1>3. ASSUME NEW a \in Admins, Finish(a) PROVE Kept'
  BY <1>3, FinishKept
<1>4. ASSUME NEW a \in Admins, Fail(a) PROVE Kept'
  BY <1>4, CommandStep DEF Fail
<1>5. ASSUME NEW a \in Admins, Age(a) \/ SignIn(a) \/ RequestErasure(a) PROVE Kept'
  BY <1>5, SessionKept
<1>6. ASSUME NEW a \in Admins, Erase(a) PROVE Kept'
  BY <1>6, EraseKept
<1>7. ASSUME NEW a \in Admins, NEW content \in Contents, SendCreate(a, content) PROVE Kept'
  BY <1>7, SendCreateKept
<1>8. ASSUME NEW a \in Admins, NEW kind \in Kinds \ {"QUESTION_CREATE"},
             NEW n \in IF kind \in OnVersion THEN Numbers ELSE {None},
             NEW content \in IF kind \in Writing THEN Contents ELSE {None},
             Send(a, kind, n, content)
      PROVE  Kept'
  BY <1>8, SendKept
<1>9. CASE UNCHANGED vars
  <2>1. rows' = rows /\ admin' = admin /\ cmd' = cmd
    BY <1>9 DEF vars
  <2>2. CommandsKnown'
    <3> SUFFICES ASSUME NEW b \in Admins, cmd'[b] # None
                 PROVE  Known(b)'
      BY DEF CommandsKnown
    <3>1. rows \in Rows
      BY DEF Kept, TypeOK
    <3> QED BY <2>1, <3>1, EarlierReflexive, KnownPersists
  <2> QED BY <2>1, <2>2 DEF Kept, TypeOK, Shaped, OneArmed, Armed, AuthorsStay, Candidates, Existing
<1> QED BY <1>1, <1>2, <1>3, <1>4, <1>5, <1>6, <1>7, <1>8, <1>9 DEF Next

\* The invariant holds in every reachable state.
LEMMA AlwaysKept == Spec => []Kept
BY InitKept, NextKept, PTL DEF Spec

\* The question, its versions, the sessions and the commands keep the shape they are declared
\* with, and an armed command has locked its own administrator.
THEOREM LifecycleTypeCorrect == Spec => []TypeOK
<1>1. Kept => TypeOK
  BY DEF Kept
<1> QED BY <1>1, AlwaysKept, PTL

\* The commands never need the constraints of the database, however old their pages and
\* targets are: one open version at most, the published one current, versions numbered without
\* a gap, and no open version of somebody who has gone or is going.
THEOREM AggregatesConsistent == Spec => []AggregateConsistent
<1>1. Kept => AggregateConsistent
  <2> SUFFICES ASSUME Kept, rows.question # None
               PROVE  LET versions == Existing(rows)
                          published == {n \in versions : rows.version[n].status = "PUBLISHED"} IN
                      /\ versions = 1..Cardinality(versions) /\ versions # {}
                      /\ Cardinality(Candidates(rows)) <= 1
                      /\ published = {rows.question.current} \ {None}
                      /\ rows.question.lifecycleStatus = "ARCHIVED" => Candidates(rows) \cup published = {}
                      /\ rows.version[1].author = rows.question.author
                      /\ \A n \in Candidates(rows) : /\ rows.version[n].author # None
                                                     /\ admin[rows.version[n].author] # "DELETION_PENDING"
    BY DEF AggregateConsistent
  <2> DEFINE versions == Existing(rows)
             published == {n \in versions : rows.version[n].status = "PUBLISHED"}
  <2>1. Shaped(rows) /\ rows \in Rows /\ rows.question \in Question
    BY RowsParts DEF Kept, TypeOK
  <2>2. PICK k \in Numbers : \A n \in Numbers : rows.version[n] # None <=> n <= k
    BY <2>1 DEF Shaped
  <2>3. versions = 1..k /\ k \in Nat /\ k >= 1
    BY <2>2, Bounds DEF Existing, Numbers
  <2>4. Cardinality(versions) = k
    BY <2>3, FS_Interval
  <2>5. published = {rows.question.current} \ {None}
    BY <2>1, Bounds DEF Shaped, Existing, Question
  <2>6. Cardinality(Candidates(rows)) <= 1
    <3>1. CASE Candidates(rows) = {}
      BY <3>1, FS_EmptySet
    <3>2. CASE Candidates(rows) # {}
      <4>1. PICK m \in Candidates(rows) : TRUE
        BY <3>2
      <4>2. Candidates(rows) = {m}
        BY <2>1, <4>1 DEF Shaped
      <4> QED BY <4>2, FS_Singleton
    <3> QED BY <3>1, <3>2
  <2>7. rows.question.lifecycleStatus = "ARCHIVED" => Candidates(rows) \cup published = {}
    BY <2>1, <2>5 DEF Shaped, Candidates, Existing
  <2>8. \A n \in Candidates(rows) : /\ rows.version[n].author # None
                                    /\ admin[rows.version[n].author] # "DELETION_PENDING"
    BY <2>1 DEF Kept, AuthorsStay, Shaped, Candidates
  <2> HIDE DEF versions, published
  <2>9. rows.version[1].author = rows.question.author
    BY <2>1 DEF Shaped
  <2>10. versions = 1..Cardinality(versions) /\ versions # {}
    BY <2>3, <2>4
  <2> QED BY <2>5, <2>6, <2>7, <2>8, <2>9, <2>10 DEF versions, published
<1> QED BY <1>1, AlwaysKept, PTL

\* What is approved or published is what the approving administrator had on the page.
THEOREM ApprovedAsShown == Spec => []PublishedAsApproved
<1>1. Kept => PublishedAsApproved
  BY DEF Kept, Shaped, PublishedAsApproved, Existing
<1> QED BY <1>1, AlwaysKept, PTL

\* The rows change only by a command whose session has, at the very commit, the authority it
\* needs, or by an erasure.
THEOREM CommittedWithAuthority == Spec => AuthorityAtCommit
<1> DEFINE Warranted ==
       \/ \E a \in Admins : /\ cmd[a] # None /\ cmd'[a] = None
                            /\ Authorised(a)
       \/ \E u \in Admins : admin[u] # "ERASED" /\ admin'[u] = "ERASED"
<1>1. Kept /\ [Next]_vars => [rows' # rows => Warranted]_vars
  <2> SUFFICES ASSUME Kept, Next, rows' # rows
               PROVE  Warranted
    OBVIOUS
  <2>1. PICK a \in Admins : Finish(a) \/ Erase(a)
    <3>1. \A b \in Admins : /\ ~View(b) /\ ~BeginAndArm(b) /\ ~Fail(b)
                            /\ ~Age(b) /\ ~SignIn(b) /\ ~RequestErasure(b)
      BY DEF View, BeginAndArm, Fail, Age, SignIn, RequestErasure
    <3>2. \A b \in Admins : \A content : ~SendCreate(b, content)
      BY DEF SendCreate
    <3>3. \A b \in Admins : \A kind, n, content : ~Send(b, kind, n, content)
      BY DEF Send
    <3> QED BY <3>1, <3>2, <3>3 DEF Next
  <2>2. CASE Finish(a)
    <3>1. cmd[a] # None /\ cmd'[a] = None /\ Authorised(a)
      BY <2>2 DEF Finish, Kept, TypeOK
    <3> QED BY <3>1
  <2>3. CASE Erase(a)
    <3>1. admin[a] # "ERASED" /\ admin'[a] = "ERASED"
      BY <2>3 DEF Erase, Kept, TypeOK
    <3> QED BY <3>1
  <2> QED BY <2>1, <2>2, <2>3
<1> QED BY <1>1, AlwaysKept, PTL DEF Spec, AuthorityAtCommit
=============================================================================
