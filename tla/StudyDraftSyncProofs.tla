------------------------ MODULE StudyDraftSyncProofs ------------------------
(***************************************************************************)
(* Theorems about StudyDraftSync: each draft a tab builds on is one the    *)
(* server had, no unanswered attempt is forgotten, only what was typed is  *)
(* saved, what is graded is what is shown, and a merge takes nothing away  *)
(* that nobody else has changed. The invariant says what a tab knows of    *)
(* the server from its copies, its calls and its attempts, and what the    *)
(* requests on the wire can still do.                                      *)
(***************************************************************************)
EXTENDS StudyDraftSync, TLAPS

\* What the save status of a tab can be.
Statuses == {"clean", "dirty", "saving", "conflict", "failed"}

\* The calls that read the draft.
Reads == {"get", "fetch", "query"}

\* A revision of the history: its content, and the tab that saved it, if one did.
Entry == [content: Content, by: Tabs \cup {None}]

\* What was typed in a field, and over what.
Typings == [field: Fields, value: Values, over: Values \cup {None}]

\* The shape of the state.
Shaped ==
    /\ history \in Seq(Entry) /\ history # <<>>
    /\ saved \subseteq [key: Keys, snapshot: Snapshot]
    /\ closed \in BOOLEAN
    /\ wire \subseteq Request
    /\ tab \in [Tabs -> Tab]
    /\ signals \in [Tabs -> SUBSET Nat]
    /\ typed \in [Tabs -> SUBSET Typings]
    /\ budget \in [edits: Nat, failures: Nat, reloads: Nat, device: Nat]

(***************************************************************************)
(* What can still happen to an attempt.                                    *)
(***************************************************************************)

\* A request with this key was accepted.
Done(key) == \E s \in saved : s.key = key

\* It changes nothing any more, whenever it arrives.
Dead(m) == closed \/ Done(m.key) \/ m.expected # Revision

\* A copy whose attempt is not over.
Flying(copy) == copy # None /\ copy.frozen # None

\* The request for the attempt in a copy.
Message(copy) ==
    [key |-> copy.frozen.key, content |-> copy.frozen.content,
     expected |-> copy.base.revision, final |-> FALSE]

\* No save of tab t is later than this revision.
OwnUpTo(t, revision) ==
    \A i \in 1 .. Len(history) : history[i].by = t => i <= revision + 1

(***************************************************************************)
(* What a copy of tab t, in memory or in the storage, says.                *)
(***************************************************************************)

\* Its attempt was made of it, waits, was accepted as the next revision, or was rejected
\* for good.
AttemptSound(t, c) ==
    c.frozen # None =>
        /\ c.frozen.key[1] = t
        /\ c.frozen.rejected => c.base.revision < Revision /\ ~Done(c.frozen.key)
        /\ Done(c.frozen.key) =>
              /\ c.base.revision < Revision
              /\ history[c.base.revision + 2] = [content |-> c.frozen.content, by |-> t]

\* The tab has saved nothing later, but for that attempt.
OwnSaves(t, c) ==
    \/ OwnUpTo(t, c.base.revision)
    \/ c.frozen # None /\ Done(c.frozen.key) /\ OwnUpTo(t, c.base.revision + 1)

\* All of it: the base is real, and there is one kind of work in the copy.
CopySound(t, c) ==
    /\ Had(c.base)
    /\ c.frozen = None => c.post = NoDiff
    /\ c.frozen # None => c.local = NoDiff
    /\ AttemptSound(t, c)
    /\ OwnSaves(t, c)

\* Typed over the base, or while an attempt was on its way.
WasTyped(typing, f, v, base) ==
    \E x \in typing : x.field = f /\ x.value = v /\ x.over \in {None, base.content[f]}

\* Whatever the copy would still save was typed.
CopyTyped(typing, c) ==
    \A f \in Fields :
        /\ c.local[f] # None => WasTyped(typing, f, c.local[f], c.base)
        /\ c.post[f] # None =>
              \E x \in typing : x.field = f /\ x.value = c.post[f] /\ x.over = None
        /\ c.frozen # None /\ c.frozen.content[f] # c.base.content[f] =>
              WasTyped(typing, f, c.frozen.content[f], c.base)

(***************************************************************************)
(* What a tab knows.                                                       *)
(***************************************************************************)

\* The call has an answer of this kind.
Got(r, c, kind) ==
    /\ r.calls[c] # None
    /\ r.calls[c].reply # None
    /\ r.calls[c].reply.kind = kind

\* Answers are true, however old.
RepliesSound(r) ==
    \A c \in Calls :
        /\ Got(r, c, "ok") /\ c \in Reads =>
              r.calls[c].reply.snapshot # None /\ Had(r.calls[c].reply.snapshot)
        /\ Got(r, c, "refused") => closed

\* The attempt is one of the calls' under way, and what their answers mean for it.
PutSound(r) ==
    r.calls["put"] # None =>
        /\ Flying(r.copy) /\ ~r.copy.frozen.rejected
        /\ r.calls["get"] = None
        /\ Got(r, "put", "ok") => Done(r.copy.frozen.key)
        /\ Got(r, "put", "conflict") =>
              ~Done(r.copy.frozen.key) /\ r.copy.base.revision < Revision

\* A draft is read back for an attempt that is over, and checked against what it left.
GetSound(r) ==
    r.calls["get"] # None =>
        /\ Flying(r.copy)
        /\ r.copy.frozen.rejected \/ Done(r.copy.frozen.key)
        /\ r.calls["get"].boundary =
              IF r.copy.frozen.rejected THEN r.copy.base
              ELSE [revision |-> r.copy.base.revision + 1, content |-> r.copy.frozen.content]

\* What the answer to a submission says of the attempt.
SubmitSound(r) ==
    r.calls["submit"] # None =>
        /\ r.attempt # None
        /\ Got(r, "submit", "ok") => closed
        /\ Got(r, "submit", "conflict") => Dead(r.attempt)

\* A page that is away or has ended does nothing; a page that waits for its first copy has
\* no attempt to send.
PageSound(r) ==
    /\ ~r.open => r.copy = None /\ r.calls = NoCalls
    /\ r.over => /\ closed
                 /\ r.copy = None /\ r.calls = NoCalls
                 /\ r.stored = None /\ r.attempt = None
    /\ r.open /\ ~r.over /\ r.copy = None => ~Flying(r.stored)
    /\ r.copy # None /\ ~Work(r.copy) => ~Flying(r.stored)

\* The first copy of a page will not be older than what the tab has seen before.
FirstReadSound(t, r) ==
    r.open /\ ~r.over /\ r.copy = None =>
        \A c \in {"fetch", "query"} : Got(r, c, "ok") =>
            LET read == r.calls[c].reply.snapshot
            IN  /\ OwnUpTo(t, read.revision)
                /\ r.stored # None => r.stored.base.revision <= read.revision
                /\ r.attempt # None => r.attempt.expected <= read.revision

\* A submission under way is of a revision the server had.
SubmissionSound(t, r) ==
    r.attempt # None =>
        LET m == r.attempt
        IN  /\ m.final /\ m.key[1] = t /\ m.key[2] < r.keys
            /\ m.expected <= Revision
            /\ history[m.expected + 1].content = m.content
            /\ Done(m.key) => closed
            /\ \A c \in {r.copy, r.stored} : Flying(c) => c.frozen.key # m.key

\* As long as it can be accepted, the tab shows what it submits.
ShowsSubmission(r) ==
    r.attempt # None /\ ~Dead(r.attempt) =>
        /\ r.copy # None => r.attempt.expected <= r.copy.base.revision
        /\ Flying(r.stored) => r.attempt.expected <= r.stored.base.revision
        /\ r.copy # None /\ ~Work(r.stored) => ~Work(r.copy)

\* The keys of a tab's attempts are ones it has drawn.
KeysDrawn(r) == \A c \in {r.copy, r.stored} : Flying(c) => c.frozen.key[2] < r.keys

\* All that a tab knows.
TabSound(t, r) ==
    /\ \A c \in {r.copy, r.stored} : c # None => CopySound(t, c)
    /\ r.trusted # None => Had(r.trusted)
    /\ RepliesSound(r)
    /\ PutSound(r)
    /\ GetSound(r)
    /\ SubmitSound(r)
    /\ PageSound(r)
    /\ FirstReadSound(t, r)
    /\ SubmissionSound(t, r)
    /\ ShowsSubmission(r)
    /\ KeysDrawn(r)

\* Both of its copies have only what was typed.
TabTyped(typing, r) == \A c \in {r.copy, r.stored} : c # None => CopyTyped(typing, c)

(***************************************************************************)
(* What is on the wire, and what the server keeps.                         *)
(***************************************************************************)

\* The request of an attempt that can still be accepted is kept in the storage, and in
\* memory if there is a copy.
Remembered(m, r) ==
    IF m.final THEN r.attempt = m
    ELSE /\ Flying(r.stored) /\ Message(r.stored) = m
         /\ r.copy # None => Flying(r.copy) /\ Message(r.copy) = m

\* What is known of a request on the wire, whose tab is r.
WireSound(m, r) ==
    /\ m.key[2] < r.keys
    /\ m.expected <= Revision
    /\ m.final => history[m.expected + 1].content = m.content
    /\ m.final /\ Done(m.key) => closed
    /\ \A c \in {r.copy, r.stored} : Flying(c) /\ c.frozen.key = m.key => Message(c) = m
    /\ r.attempt # None /\ r.attempt.key = m.key => r.attempt = m
    /\ ~Dead(m) => Remembered(m, r)

\* A field that differs between two revisions was changed between them.
Changes ==
    \A i, j \in 1 .. Len(history) : \A f \in Fields :
        i < j /\ history[i].content[f] # history[j].content[f] =>
            \E k \in i + 1 .. j : history[k].content[f] # history[k - 1].content[f]

\* The invariant.
Sound ==
    /\ Shaped
    /\ \A t \in Tabs : TabSound(t, tab[t])
    /\ \A t \in Tabs : TabTyped(typed[t], tab[t])
    /\ \A m \in wire : WireSound(m, tab[m.key[1]])
    /\ \A s \in saved : s.key[2] < tab[s.key[1]].keys
    /\ Changes

(***************************************************************************)
(* Drafts: what the operators on contents and copies return.               *)
(***************************************************************************)

\* Changes are laid over a draft, and are what differs from it.
LEMMA Applied ==
    ASSUME NEW content \in Content, NEW diff \in Diff
    PROVE  /\ Apply(content, diff) \in Content
           /\ Apply(content, NoDiff) = content
BY DEF Apply, Content, Diff, NoDiff

\* Laying the difference over a draft gives the other one; there is none between equals.
LEMMA Differed ==
    ASSUME NEW from \in Content, NEW to \in Content
    PROVE  /\ DiffOf(from, to) \in Diff
           /\ Apply(from, DiffOf(from, to)) = to
           /\ DiffOf(from, to) = NoDiff => from = to
           /\ from = to => DiffOf(from, to) = NoDiff
<1>1. DiffOf(from, to) \in Diff
  BY DEF DiffOf, Diff, Content
<1>2. \A f \in Fields : Apply(from, DiffOf(from, to))[f] = to[f]
  BY FieldsAssumption DEF DiffOf, Apply, Content
<1>3. Apply(from, DiffOf(from, to)) = to
  BY <1>2 DEF Apply, Content
<1>4. DiffOf(from, to) = NoDiff => from = to
  <2> SUFFICES ASSUME DiffOf(from, to) = NoDiff PROVE from = to
    OBVIOUS
  <2>1. \A f \in Fields : DiffOf(from, to)[f] = NoDiff[f]
    OBVIOUS
  <2>2. \A f \in Fields : from[f] = to[f]
    BY <2>1, FieldsAssumption DEF DiffOf, NoDiff, Content
  <2> QED
    BY <2>2 DEF Content
<1>5. from = to => DiffOf(from, to) = NoDiff
  BY DEF DiffOf, NoDiff
<1> QED
  BY <1>1, <1>3, <1>4, <1>5

\* A merge of drafts is a draft.
LEMMA Merged ==
    ASSUME NEW base \in Content, NEW local \in Content, NEW remote \in Content
    PROVE  Merge(base, local, remote) \in Content
BY DEF Merge, Content

\* A clean copy shows its base.
LEMMA CleanCopies ==
    ASSUME NEW s \in Snapshot, NEW local \in Diff
    PROVE  /\ CleanCopy(s) \in WorkingCopy
           /\ [CleanCopy(s) EXCEPT !.local = local] \in WorkingCopy
           /\ [CleanCopy(s) EXCEPT !.local = local].base = s
           /\ [CleanCopy(s) EXCEPT !.local = local].local = local
           /\ [CleanCopy(s) EXCEPT !.local = local].post = NoDiff
           /\ [CleanCopy(s) EXCEPT !.local = local].frozen = None
           /\ CleanCopy(s).base = s /\ CleanCopy(s).local = NoDiff
           /\ CleanCopy(s).post = NoDiff /\ CleanCopy(s).frozen = None
BY DEF CleanCopy, WorkingCopy, Diff, NoDiff

\* What a copy shows is a draft.
LEMMA Visibles ==
    ASSUME NEW c \in WorkingCopy
    PROVE  Visible(c) \in Content
BY Applied DEF Visible, WorkingCopy, Frozen, Snapshot

\* The records of a tab are not None.
LEMMA Records ==
    /\ None \notin WorkingCopy /\ None \notin Snapshot /\ None \notin Frozen
    /\ None \notin Call /\ None \notin Reply /\ None \notin Request
BY RecordsAssumption

\* The request for an attempt.
LEMMA Messages ==
    ASSUME NEW c \in WorkingCopy, c.frozen # None
    PROVE  /\ Message(c) \in Request
           /\ Message(c).key = c.frozen.key /\ Message(c).content = c.frozen.content
           /\ Message(c).expected = c.base.revision /\ ~Message(c).final
           /\ c.frozen \in Frozen /\ c.frozen.key \in Keys
BY DEF Message, WorkingCopy, Frozen, Request, Snapshot

(***************************************************************************)
(* Tabs: what the parts of a turn return.                                  *)
(***************************************************************************)

\* The parts of a tab.
Parts == {"open", "over", "copy", "stored", "status", "blocked", "alarm", "pending", "deferred",
          "trusted", "attempt", "keys", "calls"}

\* Two tabs that are equal but for some parts.
SameBut(q, r, changed) == \A x \in Parts \ changed : q[x] = r[x]

\* No call has an answer that it had not before.
NoNewAnswers(q, r) ==
    \A c \in Calls : q.calls[c] # None /\ q.calls[c].reply # None => q.calls[c] = r.calls[c]

\* No call is begun but a reading of the draft.
NoNewCalls(q, r) ==
    \A c \in {"put", "get", "submit"} : q.calls[c] \in {r.calls[c], None}

\* A call that was begun.
LEMMA SentCall ==
    ASSUME NEW boundary \in Snapshot \cup {None}
    PROVE  Sent(boundary) \in Call /\ Sent(boundary).reply = None
           /\ Sent(boundary).boundary = boundary /\ Sent(boundary) # None
<1>1. Sent(boundary) \in Call /\ Sent(boundary).reply = None /\ Sent(boundary).boundary = boundary
  BY DEF Sent, Call
<1> QED
  BY <1>1, Records

\* The storage has the copy, or what it had.
LEMMA KeptTab ==
    ASSUME NEW r \in Tab, NEW copy \in WorkingCopy, NEW status \in Statuses, NEW ok \in BOOLEAN
    PROVE  /\ Kept(r, copy, status, ok) \in Tab
           /\ Kept(r, copy, status, ok).copy = copy
           /\ Kept(r, copy, status, ok).stored = IF ok THEN copy ELSE r.stored
           /\ SameBut(Kept(r, copy, status, ok), r, {"copy", "stored", "status"})
BY DEF Kept, Tab, Statuses, SameBut, Parts

\* A tab whose last work went has nothing in the storage, and may ask for the draft.
LEMMA CleanedTab ==
    ASSUME NEW r \in Tab, NEW copy \in WorkingCopy
    PROVE  /\ Cleaned(r, copy) \in Tab
           /\ Cleaned(r, copy).copy = copy
           /\ Cleaned(r, copy).stored = None
           /\ SameBut(Cleaned(r, copy), r, {"copy", "stored", "status", "calls"})
           /\ \A c \in Calls : Cleaned(r, copy).calls[c] \in {r.calls[c], Sent(None)}
           /\ \A c \in Calls \ {"query"} : Cleaned(r, copy).calls[c] = r.calls[c]
BY SentCall DEF Cleaned, Tab, Statuses, SameBut, Parts, Calls

\* Forgetting the revisions it has caught up with changes nothing else.
LEMMA CaughtUpTab ==
    ASSUME NEW r \in Tab
    PROVE  CaughtUp(r) \in Tab /\ SameBut(CaughtUp(r), r, {"pending", "deferred"})
BY DEF CaughtUp, Tab, SameBut, Parts

\* A tab whose draft is in doubt is blocked, and has what it had.
LEMMA AlarmedTab ==
    ASSUME NEW r \in Tab
    PROVE  /\ Alarmed(r) \in Tab
           /\ SameBut(Alarmed(r), r, {"alarm", "blocked", "status"})
BY DEF Alarmed, Tab, SameBut, Parts

\* A reading of the draft begins, and ends the query.
LEMMA FetchingTab ==
    ASSUME NEW r \in Tab, NEW c \in Calls, NEW boundary \in Snapshot \cup {None}
    PROVE  /\ Fetching(r, c, boundary) \in Tab
           /\ SameBut(Fetching(r, c, boundary), r, {"calls"})
           /\ c # "query" => Fetching(r, c, boundary).calls[c] = Sent(boundary)
           /\ Fetching(r, c, boundary).calls["query"] = None
           /\ \A d \in Calls \ {c, "query"} : Fetching(r, c, boundary).calls[d] = r.calls[d]
BY SentCall DEF Fetching, Tab, SameBut, Parts, Calls

\* Reading the draft again begins no other call and gets no answer.
LEMMA RefreshingTab ==
    ASSUME NEW r \in Tab
    PROVE  /\ Refreshing(r) \in Tab
           /\ SameBut(Refreshing(r), r, {"calls"})
           /\ NoNewAnswers(Refreshing(r), r) /\ NoNewCalls(Refreshing(r), r)
<1> DEFINE boundary == IF r.copy = None THEN None ELSE r.copy.base
           q == Fetching(r, "fetch", boundary)
<1>1. boundary \in Snapshot \cup {None}
  BY DEF Tab, WorkingCopy
<1> HIDE DEF boundary
<1>0. "fetch" \in Calls /\ "fetch" # "query"
  BY DEF Calls
<1>2. q \in Tab /\ SameBut(q, r, {"calls"}) /\ q.calls["fetch"] = Sent(boundary)
      /\ q.calls["query"] = None /\ \A d \in Calls \ {"fetch", "query"} : q.calls[d] = r.calls[d]
  BY <1>0, <1>1, FetchingTab
<1> HIDE DEF q
<1>3. NoNewAnswers(q, r) /\ NoNewCalls(q, r)
  BY <1>1, <1>2, SentCall DEF NoNewAnswers, NoNewCalls, Calls
<1> QED
  BY <1>2, <1>3 DEF q, boundary, Refreshing, SameBut, Parts, NoNewAnswers, NoNewCalls

\* And so does reading it with the tab blocked.
LEMMA CheckingTab ==
    ASSUME NEW r \in Tab
    PROVE  /\ Checking(r) \in Tab
           /\ SameBut(Checking(r), r, {"blocked", "status", "calls"})
           /\ NoNewAnswers(Checking(r), r) /\ NoNewCalls(Checking(r), r)
<1> DEFINE q == [r EXCEPT !.blocked = TRUE, !.status = "conflict"]
<1>1. q \in Tab /\ SameBut(q, r, {"blocked", "status"})
  BY DEF Tab, SameBut, Parts
<1>2. q.calls = r.calls
  BY <1>1 DEF SameBut, Parts
<1>3. Checking(r) = Refreshing(q)
  BY DEF Checking
<1> HIDE DEF q
<1> QED
  BY <1>1, <1>2, <1>3, RefreshingTab DEF SameBut, Parts, NoNewAnswers, NoNewCalls

\* What the draft was read to be is trusted, and the call is over.
LEMMA TrustingTab ==
    ASSUME NEW r \in Tab, NEW c \in Calls, NEW remote \in Snapshot
    PROVE  /\ Trusting(r, c, remote) \in Tab
           /\ SameBut(Trusting(r, c, remote), r, {"trusted", "alarm", "calls"})
           /\ Trusting(r, c, remote).trusted = remote
           /\ Trusting(r, c, remote).calls[c] = None
           /\ \A d \in Calls \ {c} : Trusting(r, c, remote).calls[d] = r.calls[d]
BY DEF Trusting, Tab, SameBut, Parts

\* A call that is over.
LEMMA OverTab ==
    ASSUME NEW r \in Tab, NEW c \in Calls
    PROVE  /\ [r EXCEPT !.calls[c] = None] \in Tab
           /\ SameBut([r EXCEPT !.calls[c] = None], r, {"calls"})
           /\ [r EXCEPT !.calls[c] = None].calls[c] = None
           /\ \A d \in Calls \ {c} : [r EXCEPT !.calls[c] = None].calls[d] = r.calls[d]
BY DEF Tab, SameBut, Parts

\* A tab whose session is over has nothing but its page and its keys.
LEMMA EndedTab ==
    ASSUME NEW r \in Tab
    PROVE  /\ Ended(r) \in Tab
           /\ Ended(r).open = r.open /\ Ended(r).over /\ Ended(r).keys = r.keys
           /\ Ended(r).copy = None /\ Ended(r).stored = None /\ Ended(r).attempt = None
           /\ Ended(r).trusted = None /\ Ended(r).calls = NoCalls
BY DEF Ended, NewTab, Tab, NoCalls

\* A page that was never opened.
LEMMA NewTabs == NewTab \in Tab
BY DEF NewTab, Tab, NoCalls

\* An attempt is put, or the draft read back when it was rejected.
LEMMA DispatchedTab ==
    ASSUME NEW r \in Tab, NEW copy \in WorkingCopy, copy.frozen # None
    PROVE  /\ Dispatched(r, copy) \in Tab
           /\ SameBut(Dispatched(r, copy), r, {"calls"})
           /\ copy.frozen.rejected =>
                 /\ Dispatched(r, copy).calls["get"] = Sent(copy.base)
                 /\ Dispatched(r, copy).calls["query"] = None
                 /\ \A c \in Calls \ {"get", "query"} : Dispatched(r, copy).calls[c] = r.calls[c]
           /\ ~copy.frozen.rejected =>
                 /\ Dispatched(r, copy).calls["put"] = Sent(None)
                 /\ \A c \in Calls \ {"put"} : Dispatched(r, copy).calls[c] = r.calls[c]
<1>1. CASE copy.frozen.rejected
  <2>1. copy.base \in Snapshot \cup {None}
    BY DEF WorkingCopy
  <2>2. "get" \in Calls /\ "get" # "query"
    BY DEF Calls
  <2>3. Dispatched(r, copy) = Fetching(r, "get", copy.base)
    BY <1>1 DEF Dispatched
  <2> QED
    BY <1>1, <2>1, <2>2, <2>3, FetchingTab
<1>2. CASE ~copy.frozen.rejected
  BY <1>2, SentCall DEF Dispatched, Calls, Tab, SameBut, Parts
<1> QED
  BY <1>1, <1>2

\* A new base, with what is left to save over it: clean copies are not stored.
LEMMA AdoptedTab ==
    ASSUME NEW r \in Tab, NEW base \in Snapshot, NEW local \in Diff, NEW ok \in BOOLEAN
    PROVE  LET q == Adopted(r, base, local, ok)
               copy == [CleanCopy(base) EXCEPT !.local = local]
           IN  /\ q \in Tab
               /\ q.copy = copy
               /\ q.stored = IF local = NoDiff THEN None ELSE IF ok THEN copy ELSE r.stored
               /\ SameBut(q, r, {"copy", "stored", "status", "calls", "blocked", "pending",
                                 "deferred"})
               /\ \A c \in Calls : q.calls[c] \in {r.calls[c], Sent(None)}
               /\ \A c \in Calls \ {"query"} : q.calls[c] = r.calls[c]
<1> DEFINE copy == [CleanCopy(base) EXCEPT !.local = local]
           next == IF local = NoDiff THEN Cleaned(r, copy) ELSE Kept(r, copy, "dirty", ok)
           free == [next EXCEPT !.blocked = FALSE]
<1>1. copy \in WorkingCopy
  BY CleanCopies
<1>2. /\ next \in Tab /\ next.copy = copy
      /\ next.stored = IF local = NoDiff THEN None ELSE IF ok THEN copy ELSE r.stored
      /\ SameBut(next, r, {"copy", "stored", "status", "calls"})
      /\ \A c \in Calls : next.calls[c] \in {r.calls[c], Sent(None)}
      /\ \A c \in Calls \ {"query"} : next.calls[c] = r.calls[c]
  <2> HIDE DEF copy
  <2>1. CASE local = NoDiff
    BY <1>1, <2>1, CleanedTab
  <2>2. CASE local # NoDiff
    <3>1. Kept(r, copy, "dirty", ok).calls = r.calls
      BY <1>1, KeptTab DEF Statuses, SameBut, Parts
    <3> QED
      BY <1>1, <2>2, <3>1, KeptTab DEF Statuses, SameBut, Parts
  <2> QED
    BY <2>1, <2>2
<1>3. free \in Tab /\ SameBut(free, next, {"blocked"})
  <2> HIDE DEF next
  <2> QED
    BY <1>2 DEF Tab, SameBut, Parts
<1>4. Adopted(r, base, local, ok) = CaughtUp(free)
  BY DEF Adopted
<1>5. CaughtUp(free) \in Tab /\ SameBut(CaughtUp(free), free, {"pending", "deferred"})
  BY <1>3, CaughtUpTab
<1> HIDE DEF copy, next, free
<1>6. /\ SameBut(CaughtUp(free), next, {"blocked", "pending", "deferred"})
      /\ SameBut(CaughtUp(free), r, {"copy", "stored", "status", "calls", "blocked", "pending",
                                     "deferred"})
  BY <1>2, <1>3, <1>5 DEF SameBut, Parts
<1>7. /\ CaughtUp(free).copy = next.copy /\ CaughtUp(free).stored = next.stored
      /\ CaughtUp(free).calls = next.calls
  BY <1>6 DEF SameBut, Parts
<1> QED
  BY <1>2, <1>4, <1>5, <1>6, <1>7 DEF copy

(***************************************************************************)
(* Turns of a tab.                                                         *)
(***************************************************************************)

\* As long as the server does nothing, what is known of it stays true.
LEMMA SameServer ==
    ASSUME UNCHANGED <<history, saved, closed>>, NEW t, NEW r, NEW m
    PROVE  /\ TabSound(t, r)' = TabSound(t, r)
           /\ WireSound(m, r)' = WireSound(m, r)
           /\ Changes' = Changes
<1>1. /\ \A s : Had(s)' = Had(s)
      /\ \A key : Done(key)' = Done(key)
      /\ \A n : Dead(n)' = Dead(n)
      /\ \A s, revision : OwnUpTo(s, revision)' = OwnUpTo(s, revision)
      /\ Revision' = Revision
  BY DEF Had, Done, Dead, OwnUpTo, Revision
<1>2. \A c : CopySound(t, c)' = CopySound(t, c)
  BY <1>1 DEF CopySound, AttemptSound, OwnSaves
<1>3. /\ RepliesSound(r)' = RepliesSound(r)
      /\ PutSound(r)' = PutSound(r)
      /\ GetSound(r)' = GetSound(r)
      /\ SubmitSound(r)' = SubmitSound(r)
  BY <1>1 DEF RepliesSound, PutSound, GetSound, SubmitSound, Got
<1>4. /\ PageSound(r)' = PageSound(r)
      /\ FirstReadSound(t, r)' = FirstReadSound(t, r)
      /\ SubmissionSound(t, r)' = SubmissionSound(t, r)
      /\ ShowsSubmission(r)' = ShowsSubmission(r)
  BY <1>1 DEF PageSound, FirstReadSound, SubmissionSound, ShowsSubmission, Got
<1>5. TabSound(t, r)' = TabSound(t, r)
  BY <1>1, <1>2, <1>3, <1>4 DEF TabSound, KeysDrawn
<1>6. WireSound(m, r)' = WireSound(m, r)
  BY <1>1 DEF WireSound, Remembered
<1>7. Changes' = Changes
  BY DEF Changes
<1> QED
  BY <1>5, <1>6, <1>7

\* A turn of tab t: what has to be seen of the tab, of the requests it has sent, and of what
\* was typed in it.
LEMMA Turn ==
    ASSUME Sound, NEW t \in Tabs, NEW q \in Tab, tab' = [tab EXCEPT ![t] = q],
           UNCHANGED <<history, saved, closed>>,
           tab[t].keys <= q.keys,
           TabSound(t, q),
           TabTyped(typed'[t], q),
           typed' \in [Tabs -> SUBSET Typings], \A s \in Tabs \ {t} : typed'[s] = typed[s],
           wire' \subseteq Request,
           \A m \in wire' : (m \in wire /\ m.key[1] # t) \/ (m.key[1] = t /\ WireSound(m, q)),
           signals' \in [Tabs -> SUBSET Nat],
           budget' \in [edits: Nat, failures: Nat, reloads: Nat, device: Nat]
    PROVE  Sound'
<1>1. tab \in [Tabs -> Tab]
  BY DEF Sound, Shaped
<1>2. tab'[t] = q /\ (\A s \in Tabs \ {t} : tab'[s] = tab[s]) /\ tab' \in [Tabs -> Tab]
  BY <1>1
<1>3. Shaped'
  BY <1>2 DEF Sound, Shaped
<1>4. \A s \in Tabs : TabSound(s, tab[s])
  BY DEF Sound
<1>5. ASSUME NEW s \in Tabs PROVE TabSound(s, tab[s])'
  <2>1. TabSound(s, tab'[s])
    BY <1>2, <1>4
  <2>2. \A r : TabSound(s, r)' = TabSound(s, r)
    BY SameServer
  <2> QED
    BY <2>1, <2>2
<1>6. ASSUME NEW s \in Tabs PROVE TabTyped(typed[s], tab[s])'
  <2>1. TabTyped(typed'[s], tab'[s])
    <3>1. CASE s = t
      BY <1>2, <3>1
    <3>2. CASE s # t
      BY <1>2, <3>2 DEF Sound
    <3> QED
      BY <3>1, <3>2
  <2> QED
    BY <2>1 DEF TabTyped, CopyTyped, WasTyped
<1>7. ASSUME NEW m \in wire' PROVE WireSound(m, tab[m.key[1]])'
  <2>1. m.key[1] \in Tabs
    BY DEF Request, Keys
  <2>2. WireSound(m, tab'[m.key[1]])
    BY <1>2, <2>1 DEF Sound
  <2>3. \A r : WireSound(m, r)' = WireSound(m, r)
    BY SameServer
  <2> QED
    BY <2>2, <2>3
<1>8. ASSUME NEW s \in saved' PROVE s.key[2] < tab'[s.key[1]].keys
  <2>1. s.key[1] \in Tabs /\ s.key[2] \in Nat /\ s.key[2] < tab[s.key[1]].keys
    BY DEF Sound, Shaped, Keys
  <2>2. tab[t].keys \in Nat /\ q.keys \in Nat
    BY <1>1 DEF Tab
  <2> QED
    BY <1>2, <2>1, <2>2
<1>9. Changes'
  BY SameServer DEF Sound
<1> QED
  BY <1>3, <1>5, <1>6, <1>7, <1>8, <1>9 DEF Sound

\* The parts of a tab that neither its copies nor its attempts are told by.
Inner == {"status", "blocked", "alarm", "pending", "deferred", "trusted", "calls"}

\* What is forgotten of what was typed is in none of the copies the tab has then.
LEMMA Forgets ==
    ASSUME Shaped, NEW t \in Tabs, NEW q, tab'[t] = q, ForgetReplaced(t)
    PROVE  /\ typed' \in [Tabs -> SUBSET Typings]
           /\ \A s \in Tabs \ {t} : typed'[s] = typed[s]
           /\ TabTyped(typed[t], q) => TabTyped(typed'[t], q)
<1>1. typed \in [Tabs -> SUBSET Typings]
  BY DEF Shaped
<1>2. /\ typed'[t] = {x \in typed[t] : Carries(q.copy, x) \/ Carries(q.stored, x)}
      /\ typed' \in [Tabs -> SUBSET Typings]
      /\ \A s \in Tabs \ {t} : typed'[s] = typed[s]
  BY <1>1 DEF ForgetReplaced
<1>3. ASSUME NEW c \in {q.copy, q.stored}, c # None, CopyTyped(typed[t], c)
      PROVE  CopyTyped(typed'[t], c)
  <2> SUFFICES ASSUME NEW f \in Fields
      PROVE  /\ c.local[f] # None => WasTyped(typed'[t], f, c.local[f], c.base)
             /\ c.post[f] # None =>
                   \E x \in typed'[t] : x.field = f /\ x.value = c.post[f] /\ x.over = None
             /\ c.frozen # None /\ c.frozen.content[f] # c.base.content[f] =>
                   WasTyped(typed'[t], f, c.frozen.content[f], c.base)
    BY DEF CopyTyped
  <2>1. \A x \in typed[t] :
           x.field = f /\ (\/ x.value = c.local[f] \/ x.value = c.post[f]
                           \/ c.frozen # None /\ x.value = c.frozen.content[f])
           => x \in typed'[t]
    BY <1>2, <1>3 DEF Carries
  <2> QED
    BY <1>3, <2>1 DEF CopyTyped, WasTyped
<1> QED
  BY <1>2, <1>3 DEF TabTyped

\* The calls of a tab that begins no other than a reading of the draft.
LEMMA OldCalls ==
    ASSUME NEW r, NEW q, SameBut(q, r, Inner), NoNewCalls(q, r),
           PutSound(r), GetSound(r), SubmitSound(r)
    PROVE  PutSound(q) /\ GetSound(q) /\ SubmitSound(q)
<1>1. q.copy = r.copy /\ q.attempt = r.attempt
  BY DEF SameBut, Parts, Inner
<1>2. \A c \in {"put", "get", "submit"} : q.calls[c] # None => q.calls[c] = r.calls[c]
  BY DEF NoNewCalls
<1>3. PutSound(q)
  BY <1>1, <1>2 DEF PutSound, Got, NoNewCalls
<1>4. GetSound(q)
  BY <1>1, <1>2 DEF GetSound
<1>5. SubmitSound(q)
  BY <1>1, <1>2 DEF SubmitSound, Got
<1> QED
  BY <1>3, <1>4, <1>5

\* A turn that changes neither the copies nor the attempts.
LEMMA Idle ==
    ASSUME Sound, NEW t \in Tabs, NEW q \in Tab, tab' = [tab EXCEPT ![t] = q],
           UNCHANGED <<history, saved, closed, wire>>,
           SameBut(q, tab[t], Inner),
           Live(t) \/ q.calls = tab[t].calls,
           NoNewAnswers(q, tab[t]),
           q.trusted # None => Had(q.trusted),
           PutSound(q), GetSound(q), SubmitSound(q),
           typed' = typed \/ ForgetReplaced(t),
           signals' \in [Tabs -> SUBSET Nat],
           budget' \in [edits: Nat, failures: Nat, reloads: Nat, device: Nat]
    PROVE  Sound'
<1> DEFINE r == tab[t]
<1>1. /\ q.open = r.open /\ q.over = r.over /\ q.copy = r.copy /\ q.stored = r.stored
      /\ q.attempt = r.attempt /\ q.keys = r.keys
  BY DEF SameBut, Parts, Inner
<1>2. r \in Tab /\ TabSound(t, r) /\ TabTyped(typed[t], r)
  BY DEF Sound, Shaped
<1>3. \A c \in Calls : \A kind : Got(q, c, kind) => Got(r, c, kind) /\ q.calls[c] = r.calls[c]
  BY DEF NoNewAnswers, Got
<1>4. RepliesSound(q)
  BY <1>2, <1>3 DEF RepliesSound, TabSound
<1>5. PageSound(q)
  BY <1>1, <1>2 DEF PageSound, TabSound, Live
<1>6. FirstReadSound(t, q)
  <2>1. {"fetch", "query"} \subseteq Calls
    BY DEF Calls
  <2>2. FirstReadSound(t, r)
    BY <1>2 DEF TabSound
  <2>3. \A c \in {"fetch", "query"} :
           Got(q, c, "ok") => Got(r, c, "ok") /\ q.calls[c] = r.calls[c]
    BY <1>3, <2>1
  <2> QED
    BY <1>1, <2>2, <2>3 DEF FirstReadSound
<1>7. SubmissionSound(t, q) /\ ShowsSubmission(q) /\ KeysDrawn(q)
  BY <1>1, <1>2 DEF TabSound, SubmissionSound, ShowsSubmission, KeysDrawn
<1>8. TabSound(t, q)
  BY <1>1, <1>2, <1>4, <1>5, <1>6, <1>7 DEF TabSound
<1>9. /\ typed' \in [Tabs -> SUBSET Typings]
      /\ \A s \in Tabs \ {t} : typed'[s] = typed[s]
      /\ TabTyped(typed'[t], q)
  <2>1. TabTyped(typed[t], q)
    BY <1>1, <1>2 DEF TabTyped
  <2>2. tab'[t] = q
    BY DEF Sound, Shaped
  <2> QED
    BY <2>1, <2>2, Forgets DEF Sound, Shaped
<1>10. wire' \subseteq Request
  BY DEF Sound, Shaped
<1>11. \A m \in wire' : (m \in wire /\ m.key[1] # t) \/ (m.key[1] = t /\ WireSound(m, q))
  BY <1>1 DEF Sound, WireSound, Remembered
<1>12. r.keys <= q.keys
  BY <1>1, <1>2 DEF Tab
<1> QED
  BY <1>8, <1>9, <1>10, <1>11, <1>12, Turn

\* Such a turn that begins at most a reading of the draft, and gets no answer.
LEMMA Looking ==
    ASSUME Sound, NEW t \in Tabs, NEW q \in Tab, tab' = [tab EXCEPT ![t] = q],
           UNCHANGED <<history, saved, closed, wire, typed>>,
           SameBut(q, tab[t], Inner), q.trusted = tab[t].trusted,
           Live(t) \/ q.calls = tab[t].calls,
           NoNewAnswers(q, tab[t]), NoNewCalls(q, tab[t]),
           signals' \in [Tabs -> SUBSET Nat],
           budget' \in [edits: Nat, failures: Nat, reloads: Nat, device: Nat]
    PROVE  Sound'
<1>1. TabSound(t, tab[t])
  BY DEF Sound
<1>2. PutSound(q) /\ GetSound(q) /\ SubmitSound(q)
  BY <1>1, OldCalls DEF TabSound
<1>3. q.trusted # None => Had(q.trusted)
  BY <1>1 DEF TabSound
<1> QED
  BY <1>2, <1>3, Idle

\* What the bounds leave stays a number.
LEMMA Spends ==
    ASSUME Shaped, NEW what \in {"edits", "failures", "reloads", "device"}
    PROVE  Spend(what) =>
              /\ budget' \in [edits: Nat, failures: Nat, reloads: Nat, device: Nat]
              /\ what # "edits" => budget'.edits = budget.edits
BY DEF Shaped, Spend

\* A write to the storage spends at most a failure.
LEMMA WritesSpend ==
    ASSUME Shaped, NEW ok, Writes(ok)
    PROVE  /\ budget' \in [edits: Nat, failures: Nat, reloads: Nat, device: Nat]
           /\ budget'.edits = budget.edits
BY Spends DEF Writes, Shaped

\* A tab that reads what it was told of.
LEMMA DrainSound ==
    ASSUME Sound, NEW t \in Tabs, Drain(t)
    PROVE  Sound'
<1>1. tab[t] \in Tab
  BY DEF Sound, Shaped
<1>2. /\ Refreshing(tab[t]) \in Tab /\ SameBut(Refreshing(tab[t]), tab[t], {"calls"})
      /\ NoNewAnswers(Refreshing(tab[t]), tab[t]) /\ NoNewCalls(Refreshing(tab[t]), tab[t])
  BY <1>1, RefreshingTab
<1>3. SameBut(Refreshing(tab[t]), tab[t], Inner) /\ Refreshing(tab[t]).trusted = tab[t].trusted
  BY <1>2 DEF SameBut, Parts, Inner
<1> QED
  BY <1>2, <1>3, Looking DEF Drain, Become, ServerUnchanged, Ready, Sound, Shaped

\* The draft is read again, with the tab blocked or not.
LEMMA ReadAgain ==
    ASSUME NEW r \in Tab, NEW q \in {Refreshing(r), Checking(r)}
    PROVE  /\ q \in Tab /\ SameBut(q, r, Inner) /\ q.trusted = r.trusted
           /\ NoNewAnswers(q, r) /\ NoNewCalls(q, r)
BY RefreshingTab, CheckingTab DEF SameBut, Parts, Inner

\* The connection is back.
LEMMA OnlineSound ==
    ASSUME Sound, NEW t \in Tabs, Online(t)
    PROVE  Sound'
<1>1. tab[t] \in Tab
  BY DEF Sound, Shaped
<1>2. PICK q \in {Refreshing(tab[t]), Checking(tab[t])} : tab' = [tab EXCEPT ![t] = q]
  BY DEF Online, Become
<1>3. budget' \in [edits: Nat, failures: Nat, reloads: Nat, device: Nat]
  BY Spends DEF Online, Sound
<1> QED
  BY <1>1, <1>2, <1>3, ReadAgain, Looking DEF Online, ServerUnchanged, Ready, Sound, Shaped

\* The learner's retry of a reading.
LEMMA RetryReadsSound ==
    ASSUME Sound, NEW t \in Tabs, RetryReads(t)
    PROVE  Sound'
<1>1. tab[t] \in Tab
  BY DEF Sound, Shaped
<1>2. PICK q \in {Refreshing(tab[t]), Checking(tab[t])} : tab' = [tab EXCEPT ![t] = q]
  BY DEF RetryReads, Become
<1> QED
  BY <1>1, <1>2, ReadAgain, Looking DEF RetryReads, ServerUnchanged, Sound, Shaped

\* A signal of another tab.
LEMMA SignalSound ==
    ASSUME Sound, NEW t \in Tabs, NEW revision \in signals[t], Signal(t, revision)
    PROVE  Sound'
<1> DEFINE r == [tab[t] EXCEPT !.pending = IF revision > @ THEN revision ELSE @]
<1>1. tab[t] \in Tab /\ signals \in [Tabs -> SUBSET Nat]
  BY DEF Sound, Shaped
<1>2. r \in Tab /\ SameBut(r, tab[t], {"pending"})
  BY <1>1 DEF Tab, SameBut, Parts
<1>3. signals' \in [Tabs -> SUBSET Nat]
  BY <1>1 DEF Signal
<1>4. PICK q \in {tab[t], r, CaughtUp(r), [r EXCEPT !.deferred = TRUE], Refreshing(r), Checking(r)} :
         /\ tab' = [tab EXCEPT ![t] = q]
         /\ q # tab[t] => Live(t)
  BY DEF Signal, Become
<1> HIDE DEF r
<1>5. q \in Tab /\ SameBut(q, r, Inner) /\ q.trusted = r.trusted
      /\ NoNewAnswers(q, r) /\ NoNewCalls(q, r)
  <2>1. CASE q = tab[t]
    BY <1>1, <1>2, <2>1 DEF SameBut, Parts, Inner, NoNewAnswers, NoNewCalls
  <2>2. CASE q = r
    BY <1>2, <2>2 DEF SameBut, Parts, Inner, NoNewAnswers, NoNewCalls
  <2>3. CASE q = CaughtUp(r)
    BY <1>2, <2>3, CaughtUpTab DEF SameBut, Parts, Inner, NoNewAnswers, NoNewCalls
  <2>4. CASE q = [r EXCEPT !.deferred = TRUE]
    BY <1>2, <2>4 DEF Tab, SameBut, Parts, Inner, NoNewAnswers, NoNewCalls
  <2>5. CASE q \in {Refreshing(r), Checking(r)}
    BY <1>2, <2>5, ReadAgain
  <2> QED
    BY <1>4, <2>1, <2>2, <2>3, <2>4, <2>5
<1>6. SameBut(q, tab[t], Inner) /\ q.trusted = tab[t].trusted
      /\ NoNewAnswers(q, tab[t]) /\ NoNewCalls(q, tab[t])
  BY <1>2, <1>5 DEF SameBut, Parts, Inner, NoNewAnswers, NoNewCalls
<1> QED
  BY <1>3, <1>4, <1>5, <1>6, Looking DEF Signal, ServerUnchanged, Sound, Shaped

\* A call that is over has no answer and begins no other one.
LEMMA CallOver ==
    ASSUME NEW r \in Tab, NEW c \in Calls, NEW q, SameBut(q, [r EXCEPT !.calls[c] = None], Inner),
           q.calls = [r EXCEPT !.calls[c] = None].calls
    PROVE  SameBut(q, r, Inner) /\ NoNewAnswers(q, r) /\ NoNewCalls(q, r)
<1> DEFINE r0 == [r EXCEPT !.calls[c] = None]
<1>1. /\ SameBut(r0, r, {"calls"}) /\ r0.calls[c] = None
      /\ \A d \in Calls \ {c} : r0.calls[d] = r.calls[d]
  BY OverTab
<1>2. SameBut(q, r0, Inner) /\ q.calls = r0.calls
  OBVIOUS
<1> HIDE DEF r0
<1>3. SameBut(q, r, Inner)
  BY <1>1, <1>2 DEF SameBut, Parts, Inner
<1>4. \A d \in Calls : q.calls[d] = None \/ q.calls[d] = r.calls[d]
  BY <1>1, <1>2
<1>5. NoNewAnswers(q, r)
  BY <1>4 DEF NoNewAnswers
<1>6. NoNewCalls(q, r)
  BY <1>4 DEF NoNewCalls, Calls
<1> QED
  BY <1>3, <1>5, <1>6

\* A call is given up: its request, if it writes, is still on the wire.
LEMMA CallFailsSound ==
    ASSUME Sound, NEW t \in Tabs, NEW c \in Calls, CallFails(t, c)
    PROVE  Sound'
<1> DEFINE r == [tab[t] EXCEPT !.calls[c] = None]
<1>1. tab[t] \in Tab
  BY DEF Sound, Shaped
<1>2. r \in Tab /\ SameBut(r, tab[t], {"calls"})
  BY <1>1, OverTab
<1>3. PICK q \in {r, [r EXCEPT !.status = "failed"],
                  [r EXCEPT !.status = "failed", !.blocked = r.alarm]} :
         tab' = [tab EXCEPT ![t] = q]
  BY DEF CallFails, Become
<1>4. q \in Tab /\ SameBut(q, r, {"status", "blocked"})
  <2> HIDE DEF r
  <2> QED
    BY <1>2, <1>3 DEF Tab, SameBut, Parts
<1>5. SameBut(q, r, Inner) /\ q.calls = r.calls /\ q.trusted = tab[t].trusted
  <2> HIDE DEF r
  <2> QED
    BY <1>2, <1>4 DEF SameBut, Parts, Inner
<1>6. SameBut(q, tab[t], Inner) /\ NoNewAnswers(q, tab[t]) /\ NoNewCalls(q, tab[t])
  BY <1>1, <1>5, CallOver
<1>7. budget' \in [edits: Nat, failures: Nat, reloads: Nat, device: Nat]
  BY Spends DEF CallFails, Sound
<1> QED
  BY <1>3, <1>4, <1>5, <1>6, <1>7, Looking DEF CallFails, ServerUnchanged, Sound, Shaped

\* A turn that gives the tab a copy, or another one: what has to be seen of the copy, of the
\* storage and of the calls. A request is sent only for the attempt in the new copy, and an
\* attempt that can still be accepted is not let go.
LEMMA CopyTurn ==
    ASSUME Sound, NEW t \in Tabs, NEW r, r = tab[t], NEW q \in Tab, tab' = [tab EXCEPT ![t] = q],
           UNCHANGED <<history, saved, closed>>, q.open, ~q.over,
           Live(t) \/ (q.copy = r.stored /\ q.stored = r.stored),
           q.attempt = r.attempt, r.keys <= q.keys,
           q.calls["submit"] = r.calls["submit"], NoNewAnswers(q, r),
           q.trusted # None => Had(q.trusted),
           q.copy # None, CopySound(t, q.copy), q.stored \in {q.copy, r.stored, None},
           PutSound(q), GetSound(q), ShowsSubmission(q),
           ~Work(q.copy) => ~Flying(q.stored),
           Flying(q.copy) =>
              \/ \E d \in {r.copy, r.stored} : Flying(d) /\ Message(q.copy) = Message(d)
              \/ q.copy.frozen.key = <<t, r.keys>> /\ r.keys < q.keys,
           Flying(r.copy) =>
              \/ Dead(Message(r.copy))
              \/ /\ Flying(q.copy) /\ Message(q.copy) = Message(r.copy)
                 /\ q.stored = None => r.stored = None,
           \/ wire' = wire
           \/ Flying(q.copy) /\ q.stored = q.copy /\ wire' = wire \cup {Message(q.copy)},
           typed' \in [Tabs -> SUBSET Typings], \A s \in Tabs \ {t} : typed'[s] = typed[s],
           TabTyped(typed'[t], q),
           signals' \in [Tabs -> SUBSET Nat],
           budget' \in [edits: Nat, failures: Nat, reloads: Nat, device: Nat]
    PROVE  Sound'
<1>1. r \in Tab /\ TabSound(t, r) /\ wire \subseteq Request
  BY DEF Sound, Shaped
<1>2. /\ q.copy \in WorkingCopy /\ q.stored \in WorkingCopy \cup {None}
      /\ r.copy \in WorkingCopy \cup {None} /\ r.stored \in WorkingCopy \cup {None}
      /\ r.attempt \in Request \cup {None} /\ r.keys \in Nat /\ q.keys \in Nat
  BY <1>1 DEF Tab
<1>3. \A c \in {r.copy, r.stored} : c # None => CopySound(t, c)
  BY <1>1 DEF TabSound
<1>4. RepliesSound(q)
  <2>1. \A c \in Calls : \A kind : Got(q, c, kind) => Got(r, c, kind) /\ q.calls[c] = r.calls[c]
    BY DEF NoNewAnswers, Got
  <2> QED
    BY <1>1, <2>1 DEF RepliesSound, TabSound
<1>5. SubmitSound(q)
  BY <1>1 DEF TabSound, SubmitSound, Got
<1>6. PageSound(q) /\ FirstReadSound(t, q)
  BY DEF PageSound, FirstReadSound
\* An attempt in the new copies is an old one, or carries the key just drawn.
<1>7. ASSUME NEW c \in {q.copy, q.stored}, Flying(c)
      PROVE  \/ \E d \in {r.copy, r.stored} : Flying(d) /\ Message(c) = Message(d)
             \/ c.frozen.key = <<t, r.keys>> /\ r.keys < q.keys
  BY <1>7 DEF Flying
<1>8. \A d \in {r.copy, r.stored} : Flying(d) => d.frozen.key[2] < r.keys
  BY <1>1 DEF TabSound, KeysDrawn
<1>9. KeysDrawn(q)
  <2> SUFFICES ASSUME NEW c \in {q.copy, q.stored}, Flying(c) PROVE c.frozen.key[2] < q.keys
    BY DEF KeysDrawn
  <2>1. CASE c.frozen.key = <<t, r.keys>> /\ r.keys < q.keys
    BY <2>1
  <2>2. CASE \E d \in {r.copy, r.stored} : Flying(d) /\ Message(c) = Message(d)
    <3>1. PICK d \in {r.copy, r.stored} : Flying(d) /\ Message(c) = Message(d)
      BY <2>2
    <3>2. c.frozen.key = d.frozen.key /\ d.frozen.key[2] < r.keys /\ d.frozen.key \in Keys
      BY <1>2, <1>8, <3>1, Messages DEF Flying
    <3> QED
      BY <1>2, <3>2 DEF Keys
  <2> QED
    BY <1>7, <2>1, <2>2
<1>10. SubmissionSound(t, q)
  <2> SUFFICES ASSUME r.attempt # None PROVE SubmissionSound(t, q)
    BY DEF SubmissionSound
  <2>1. /\ r.attempt.key[2] < r.keys
        /\ \A d \in {r.copy, r.stored} : Flying(d) => d.frozen.key # r.attempt.key
        /\ r.attempt.key \in Keys
    BY <1>1, <1>2 DEF TabSound, SubmissionSound, Request
  <2>2. \A c \in {q.copy, q.stored} : Flying(c) => c.frozen.key # r.attempt.key
    BY <1>2, <1>7, <2>1, Messages DEF Flying, Keys
  <2>3. r.attempt.key[2] < q.keys
    BY <1>2, <2>1 DEF Keys
  <2> QED
    BY <1>1, <2>2, <2>3 DEF TabSound, SubmissionSound
<1>11. \A c \in {q.copy, q.stored} : c # None => CopySound(t, c)
  BY <1>3
<1>12. TabSound(t, q)
  BY <1>4, <1>5, <1>6, <1>9, <1>10, <1>11 DEF TabSound
<1>13. ASSUME NEW m \in wire, m.key[1] = t PROVE WireSound(m, q)
  <2>1. WireSound(m, r) /\ m \in Request
    BY <1>1, <1>13 DEF Sound
  <2>2. m.key \in Keys /\ m.key[2] < r.keys /\ m.key[2] \in Nat
    BY <2>1 DEF WireSound, Request, Keys
  <2>3. m.key[2] < q.keys
    BY <1>2, <2>2
  <2>4. ASSUME NEW c \in {q.copy, q.stored}, Flying(c), c.frozen.key = m.key PROVE Message(c) = m
    <3>1. c.frozen.key # <<t, r.keys>>
      BY <1>2, <2>2, <2>4
    <3>2. PICK d \in {r.copy, r.stored} : Flying(d) /\ Message(c) = Message(d)
      BY <1>7, <2>4, <3>1
    <3>3. d.frozen.key = m.key
      BY <1>2, <2>4, <3>2, Messages DEF Flying
    <3> QED
      BY <2>1, <3>2, <3>3 DEF WireSound
  <2>5. ASSUME ~Dead(m) PROVE Remembered(m, q)
    <3>1. Remembered(m, r)
      BY <2>1, <2>5 DEF WireSound
    <3>2. CASE m.final
      BY <3>1, <3>2 DEF Remembered
    <3>3. CASE ~m.final
      <4>1. Flying(r.stored) /\ Message(r.stored) = m
        BY <3>1, <3>3 DEF Remembered
      <4>2. Live(t) => Flying(r.copy) /\ Message(r.copy) = m
        BY <1>1, <3>1, <3>3, <4>1 DEF Remembered, TabSound, PageSound, Live
      <4>3. Flying(q.copy) /\ Message(q.copy) = m /\ q.stored # None
        BY <2>5, <4>1, <4>2 DEF Flying
      <4> QED
        BY <3>3, <4>1, <4>3 DEF Remembered
    <3> QED
      BY <3>2, <3>3
  <2> QED
    BY <2>1, <2>3, <2>4, <2>5 DEF WireSound
<1>14. ASSUME Flying(q.copy), q.stored = q.copy PROVE /\ Message(q.copy) \in Request
                                                     /\ Message(q.copy).key[1] = t
                                                     /\ WireSound(Message(q.copy), q)
  <2> DEFINE m == Message(q.copy)
  <2>1. /\ m \in Request /\ m.key = q.copy.frozen.key /\ m.content = q.copy.frozen.content
        /\ m.expected = q.copy.base.revision /\ ~m.final
    BY <1>2, <1>14, Messages DEF Flying
  <2>2. m.key[1] = t
    BY <1>14, <2>1 DEF CopySound, AttemptSound, Flying
  <2>3. m.key[2] < q.keys
    BY <1>9, <1>14, <2>1 DEF KeysDrawn
  <2>4. m.expected <= Revision
    BY <2>1 DEF CopySound, Had
  <2>5. q.attempt # None => q.attempt.key # m.key
    BY <1>10, <1>14, <2>1 DEF SubmissionSound
  <2>6. Remembered(m, q)
    BY <1>14, <2>1 DEF Remembered
  <2> HIDE DEF m
  <2>7. WireSound(m, q)
    BY <1>14, <2>1, <2>2, <2>3, <2>4, <2>5, <2>6 DEF WireSound, m
  <2> QED
    BY <2>1, <2>2, <2>7 DEF m
<1>15. wire' \subseteq Request
  BY <1>1, <1>14
<1>16. \A m \in wire' : (m \in wire /\ m.key[1] # t) \/ (m.key[1] = t /\ WireSound(m, q))
  BY <1>13, <1>14
<1> QED
  BY <1>12, <1>15, <1>16, Turn

\* Such a turn of a live tab.
LEMMA Rewritten ==
    ASSUME Sound, NEW t \in Tabs, NEW r, r = tab[t], NEW q \in Tab, tab' = [tab EXCEPT ![t] = q],
           UNCHANGED <<history, saved, closed>>, Live(t),
           q.open = r.open, q.over = r.over,
           q.attempt = r.attempt, r.keys <= q.keys,
           q.calls["submit"] = r.calls["submit"], NoNewAnswers(q, r),
           q.trusted # None => Had(q.trusted),
           q.copy # None, CopySound(t, q.copy), q.stored \in {q.copy, r.stored, None},
           PutSound(q), GetSound(q), ShowsSubmission(q),
           ~Work(q.copy) => ~Flying(q.stored),
           Flying(q.copy) =>
              \/ Flying(r.copy) /\ Message(q.copy) = Message(r.copy)
              \/ q.copy.frozen.key = <<t, r.keys>> /\ r.keys < q.keys,
           Flying(r.copy) =>
              \/ Dead(Message(r.copy))
              \/ /\ Flying(q.copy) /\ Message(q.copy) = Message(r.copy)
                 /\ q.stored = None => r.stored = None,
           \/ wire' = wire
           \/ Flying(q.copy) /\ q.stored = q.copy /\ wire' = wire \cup {Message(q.copy)},
           typed' \in [Tabs -> SUBSET Typings], \A s \in Tabs \ {t} : typed'[s] = typed[s],
           TabTyped(typed'[t], q),
           signals' \in [Tabs -> SUBSET Nat],
           budget' \in [edits: Nat, failures: Nat, reloads: Nat, device: Nat]
    PROVE  Sound'
<1>1. q.open /\ ~q.over
  BY DEF Live
<1>2. Flying(q.copy) =>
         \/ \E d \in {r.copy, r.stored} : Flying(d) /\ Message(q.copy) = Message(d)
         \/ q.copy.frozen.key = <<t, r.keys>> /\ r.keys < q.keys
  OBVIOUS
<1> QED
  BY <1>1, <1>2, CopyTurn

\* A tab with a call of a save under way is live.
LEMMA Waiting ==
    ASSUME Sound, NEW t \in Tabs, NEW c \in Calls, tab[t].calls[c] # None
    PROVE  Live(t)
BY DEF Sound, TabSound, PageSound, NoCalls, Live

\* A save is acknowledged: the acknowledgement is a draft the server had.
LEMMA PutAcknowledgedSound ==
    ASSUME Sound, NEW t \in Tabs, PutAcknowledged(t)
    PROVE  Sound'
<1> DEFINE s == tab[t]
           r == [s EXCEPT !.calls["put"] = None]
           ack == s.calls["put"].reply.snapshot
           asked == [revision |-> r.copy.base.revision + 1, content |-> r.copy.frozen.content]
<1>1. s \in Tab /\ TabSound(t, s) /\ budget \in [edits: Nat, failures: Nat, reloads: Nat, device: Nat]
      /\ signals \in [Tabs -> SUBSET Nat]
  BY DEF Sound, Shaped
<1>0. "put" \in Calls /\ "get" \in Calls
  BY DEF Calls
<1>2. /\ r \in Tab /\ SameBut(r, s, {"calls"}) /\ r.calls["put"] = None
      /\ \A d \in Calls \ {"put"} : r.calls[d] = s.calls[d]
  BY <1>0, <1>1, OverTab
<1>3. Got(s, "put", "ok") /\ Live(t)
  BY <1>0, Waiting DEF PutAcknowledged, Answered, Got
<1>4. /\ Flying(s.copy) /\ ~s.copy.frozen.rejected /\ s.calls["get"] = None
      /\ Done(s.copy.frozen.key)
  BY <1>1, <1>3 DEF TabSound, PutSound, Got
<1>5. s.copy.base \in Snapshot /\ s.copy.frozen \in Frozen /\ r.copy = s.copy
  BY <1>1, <1>2, <1>4 DEF Tab, WorkingCopy, Flying, SameBut, Parts
<1>6. asked \in Snapshot
  BY <1>5 DEF Snapshot, Frozen
<1>7. ServerUnchanged /\ UNCHANGED <<wire, signals, typed, budget>>
      /\ tab' = [tab EXCEPT ![t] = IF ack = asked THEN Fetching(r, "get", ack) ELSE Alarmed(r)]
  BY DEF PutAcknowledged, Become
<1> HIDE DEF s, r
<1>8. ASSUME NEW q \in Tab, SameBut(q, r, {"calls", "alarm", "blocked", "status"}),
             q.calls["put"] = None, q.calls["submit"] = r.calls["submit"],
             tab' = [tab EXCEPT ![t] = q], NoNewAnswers(q, s), GetSound(q)
      PROVE  Sound'
  <2>1. SameBut(q, s, Inner) /\ q.trusted = s.trusted
    BY <1>2, <1>8 DEF SameBut, Parts, Inner
  <2>2. PutSound(q) /\ SubmitSound(q) /\ (q.trusted # None => Had(q.trusted))
    <3>1. q.attempt = s.attempt /\ q.calls["submit"] = s.calls["submit"]
      BY <1>2, <1>8, <2>1 DEF SameBut, Parts, Inner, Calls
    <3> QED
      BY <1>1, <1>8, <2>1, <3>1 DEF TabSound, PutSound, SubmitSound, Got
  <2> QED
    BY <1>1, <1>3, <1>7, <1>8, <2>1, <2>2, Idle DEF s, ServerUnchanged
<1>9. CASE ack = asked
  <2> DEFINE q == Fetching(r, "get", asked)
  <2>1. /\ q \in Tab /\ SameBut(q, r, {"calls"}) /\ q.calls["get"] = Sent(asked)
        /\ q.calls["query"] = None /\ \A d \in Calls \ {"get", "query"} : q.calls[d] = r.calls[d]
    BY <1>0, <1>2, <1>6, FetchingTab
  <2> HIDE DEF q
  <2>2. q.calls["put"] = None /\ q.calls["submit"] = r.calls["submit"]
    BY <1>2, <2>1 DEF Calls
  <2>3. Sent(asked).reply = None /\ Sent(asked).boundary = asked
    BY <1>6, SentCall
  <2>4. NoNewAnswers(q, s)
    BY <1>2, <2>1, <2>3 DEF NoNewAnswers
  <2>5. q.copy = s.copy /\ SameBut(q, r, {"calls", "alarm", "blocked", "status"})
    BY <1>5, <2>1 DEF SameBut, Parts
  <2>6. asked = [revision |-> s.copy.base.revision + 1, content |-> s.copy.frozen.content]
    BY <1>5
  <2>7. GetSound(q)
    BY <1>4, <2>1, <2>3, <2>5, <2>6 DEF GetSound
  <2>8. tab' = [tab EXCEPT ![t] = q]
    BY <1>7, <1>9 DEF q
  <2> QED
    BY <1>8, <2>1, <2>2, <2>4, <2>5, <2>7, <2>8
<1>10. CASE ack # asked
  <2> DEFINE q == Alarmed(r)
  <2>1. q \in Tab /\ SameBut(q, r, {"alarm", "blocked", "status"})
    BY <1>2, AlarmedTab
  <2> HIDE DEF q
  <2>2. q.calls = r.calls /\ SameBut(q, r, {"calls", "alarm", "blocked", "status"})
    BY <2>1 DEF SameBut, Parts
  <2>3. NoNewAnswers(q, s)
    BY <1>2, <2>2 DEF NoNewAnswers
  <2>4. GetSound(q)
    BY <1>0, <1>2, <1>4, <2>2 DEF GetSound
  <2>5. tab' = [tab EXCEPT ![t] = q]
    BY <1>7, <1>10 DEF q
  <2> QED
    BY <1>2, <1>8, <2>1, <2>2, <2>3, <2>4, <2>5
<1> QED
  BY <1>9, <1>10

\* An attempt marked as rejected is the same attempt.
LEMMA Marked ==
    ASSUME NEW c \in WorkingCopy, c.frozen # None
    PROVE  LET d == [c EXCEPT !.frozen.rejected = TRUE]
           IN  /\ d \in WorkingCopy /\ d.base = c.base /\ d.local = c.local /\ d.post = c.post
               /\ d.frozen # None /\ d.frozen.rejected
               /\ d.frozen.key = c.frozen.key /\ d.frozen.content = c.frozen.content
               /\ Message(d) = Message(c)
<1> DEFINE d == [c EXCEPT !.frozen.rejected = TRUE]
<1>1. /\ d \in WorkingCopy /\ d.base = c.base /\ d.local = c.local /\ d.post = c.post
      /\ d.frozen = [c.frozen EXCEPT !.rejected = TRUE] /\ c.frozen \in Frozen
  BY DEF WorkingCopy, Frozen
<1>2. /\ d.frozen \in Frozen /\ d.frozen.rejected /\ d.frozen.key = c.frozen.key
      /\ d.frozen.content = c.frozen.content
  BY <1>1 DEF Frozen
<1>3. d.frozen # None
  BY <1>2, Records
<1> QED
  BY <1>1, <1>2, <1>3 DEF Message

\* A save is rejected: the attempt is marked, and can never be accepted.
LEMMA PutRejectedSound ==
    ASSUME Sound, NEW t \in Tabs, NEW ok \in BOOLEAN, PutRejected(t, ok)
    PROVE  Sound'
<1> DEFINE s == tab[t]
           r == [s EXCEPT !.calls["put"] = None]
           copy == [r.copy EXCEPT !.frozen.rejected = TRUE]
           kept == Kept(r, copy, "saving", ok)
           q == IF ok THEN Dispatched(kept, copy) ELSE kept
<1>0. "put" \in Calls /\ "get" \in Calls /\ "submit" \in Calls
  BY DEF Calls
<1>1. s \in Tab /\ TabSound(t, s) /\ TabTyped(typed[t], s) /\ typed \in [Tabs -> SUBSET Typings]
      /\ signals \in [Tabs -> SUBSET Nat] /\ Shaped
  BY DEF Sound, Shaped
<1>2. /\ r \in Tab /\ SameBut(r, s, {"calls"}) /\ r.calls["put"] = None
      /\ \A d \in Calls \ {"put"} : r.calls[d] = s.calls[d]
  BY <1>0, <1>1, OverTab
<1>3. Got(s, "put", "conflict") /\ Live(t)
  BY <1>0, Waiting DEF PutRejected, Answered, Got
<1>4. ServerUnchanged /\ UNCHANGED <<wire, signals, typed>> /\ tab' = [tab EXCEPT ![t] = q]
  BY DEF PutRejected, Become
<1>5. budget' \in [edits: Nat, failures: Nat, reloads: Nat, device: Nat]
  BY <1>1, WritesSpend DEF PutRejected
<1>6. /\ Flying(s.copy) /\ s.calls["get"] = None
      /\ ~Done(s.copy.frozen.key) /\ s.copy.base.revision < Revision
  BY <1>1, <1>3 DEF TabSound, PutSound, Got
<1>7. s.copy \in WorkingCopy /\ s.copy.frozen # None /\ r.copy = s.copy /\ r.stored = s.stored
      /\ CopySound(t, s.copy)
  BY <1>1, <1>2, <1>6 DEF Tab, Flying, SameBut, Parts, TabSound
<1> HIDE DEF s, r
<1>8. /\ copy \in WorkingCopy /\ copy.base = s.copy.base /\ copy.local = s.copy.local
      /\ copy.post = s.copy.post /\ copy.frozen # None /\ copy.frozen.rejected
      /\ copy.frozen.key = s.copy.frozen.key /\ copy.frozen.content = s.copy.frozen.content
      /\ Message(copy) = Message(s.copy)
  BY <1>7, Marked
<1>9. copy # None /\ Flying(copy) /\ Work(copy)
  BY <1>8, Records DEF Flying, Work
<1>10. CopySound(t, copy)
  BY <1>6, <1>7, <1>8 DEF CopySound, AttemptSound, OwnSaves
<1> HIDE DEF copy
<1>11. /\ kept \in Tab /\ kept.copy = copy /\ kept.stored = IF ok THEN copy ELSE s.stored
       /\ SameBut(kept, r, {"copy", "stored", "status"})
  BY <1>2, <1>7, <1>8, KeptTab DEF Statuses
<1>12. kept.calls = r.calls
  BY <1>11 DEF SameBut, Parts
<1> HIDE DEF kept
<1>13. /\ q \in Tab /\ SameBut(q, kept, {"calls"})
       /\ ok => q.calls["get"] = Sent(copy.base)
       /\ ~ok => q.calls["get"] = None
       /\ \A c \in Calls \ {"get", "query"} : q.calls[c] = kept.calls[c]
       /\ q.calls["query"] \in {None, kept.calls["query"]}
  <2>1. CASE ok
    BY <1>8, <1>11, <2>1, DispatchedTab
  <2>2. CASE ~ok
    BY <1>0, <1>2, <1>6, <1>11, <1>12, <2>2 DEF SameBut, Parts
  <2> QED
    BY <2>1, <2>2
<1> HIDE DEF q
<1>14. /\ q.copy = copy /\ q.stored \in {copy, s.stored}
       /\ q.open = s.open /\ q.over = s.over /\ q.attempt = s.attempt /\ q.keys = s.keys
       /\ q.trusted = s.trusted
  BY <1>2, <1>11, <1>13 DEF SameBut, Parts
<1>15. /\ q.calls["put"] = None /\ q.calls["submit"] = s.calls["submit"]
  BY <1>0, <1>2, <1>12, <1>13
<1>16. Sent(copy.base).reply = None /\ Sent(copy.base).boundary = copy.base
  BY <1>8, SentCall DEF WorkingCopy
<1>17. NoNewAnswers(q, s)
  <2> SUFFICES ASSUME NEW c \in Calls, q.calls[c] # None, q.calls[c].reply # None
      PROVE  q.calls[c] = s.calls[c]
    BY DEF NoNewAnswers
  <2>1. c # "get" /\ c # "put"
    BY <1>13, <1>15, <1>16
  <2> QED
    BY <1>2, <1>12, <1>13, <2>1
<1>18. PutSound(q) /\ GetSound(q)
  BY <1>8, <1>9, <1>13, <1>14, <1>15, <1>16 DEF PutSound, GetSound
<1>19. ShowsSubmission(q)
  <2>1. ShowsSubmission(s) /\ Work(s.copy)
    BY <1>1, <1>6, <1>7 DEF TabSound, Work, Flying
  <2> QED
    BY <1>8, <1>9, <1>14, <2>1, <1>7, <1>6 DEF ShowsSubmission, Flying
<1>20. TabTyped(typed'[t], q)
  <2>1. CopyTyped(typed[t], copy)
    <3>1. CopyTyped(typed[t], s.copy)
      BY <1>1, <1>6 DEF TabTyped, Flying
    <3> QED
      BY <1>7, <1>8, <3>1 DEF CopyTyped
  <2> QED
    BY <1>1, <1>4, <1>14, <2>1 DEF TabTyped
<1>21. q.trusted # None => Had(q.trusted)
  BY <1>1, <1>14 DEF TabSound
<1>22. q.copy # None /\ CopySound(t, q.copy) /\ q.stored \in {q.copy, s.stored, None} /\ Work(q.copy)
  BY <1>9, <1>10, <1>14
<1>23. Flying(q.copy) /\ Message(q.copy) = Message(s.copy)
  BY <1>8, <1>9, <1>14
<1>24. Dead(Message(s.copy))
  <2>1. Message(s.copy).expected = s.copy.base.revision
    BY <1>7, Messages
  <2>2. s.copy.base.revision \in Nat /\ Revision \in Int
    BY <1>1, <1>7 DEF WorkingCopy, Snapshot, Revision, Shaped
  <2> QED
    BY <1>6, <2>1, <2>2 DEF Dead
<1>25. s.keys <= q.keys
  BY <1>1, <1>14 DEF Tab
<1> QED
  BY <1>1, <1>3, <1>4, <1>5, <1>6, <1>13, <1>14, <1>15, <1>17, <1>18, <1>19, <1>20, <1>21, <1>22,
     <1>23, <1>24, <1>25, Rewritten DEF s, ServerUnchanged

\* The attempt made of a copy: it has what the copy shows, under the key drawn for it.
LEMMA Attempts ==
    ASSUME NEW c \in WorkingCopy, NEW key \in Keys, c.frozen = None
    PROVE  LET d == [c EXCEPT !.local = NoDiff,
                              !.frozen = [key |-> key, rejected |-> FALSE, content |-> Visible(c)]]
           IN  /\ d \in WorkingCopy /\ d.base = c.base /\ d.local = NoDiff /\ d.post = c.post
               /\ d.frozen # None /\ d.frozen.key = key /\ d.frozen.content = Visible(c)
               /\ ~d.frozen.rejected
<1> DEFINE frozen == [key |-> key, rejected |-> FALSE, content |-> Visible(c)]
           d == [c EXCEPT !.local = NoDiff, !.frozen = frozen]
<1>1. frozen \in Frozen /\ NoDiff \in Diff
  BY Visibles DEF Frozen, NoDiff, Diff
<1>2. frozen # None
  BY <1>1, Records
<1>3. /\ frozen.key = key /\ frozen.content = Visible(c) /\ ~frozen.rejected
  OBVIOUS
<1> HIDE DEF frozen
<1>4. /\ d \in WorkingCopy /\ d.base = c.base /\ d.local = NoDiff /\ d.post = c.post
      /\ d.frozen = frozen
  BY <1>1 DEF WorkingCopy
<1> QED
  BY <1>2, <1>3, <1>4 DEF frozen

\* A copy shows its base, but for what was typed over it.
LEMMA Shown ==
    ASSUME NEW c \in WorkingCopy, c.frozen = None
    PROVE  /\ \A f \in Fields : Visible(c)[f] # c.base.content[f] =>
                 c.local[f] # None /\ Visible(c)[f] = c.local[f]
           /\ c.local = NoDiff => Visible(c) = c.base.content
BY Applied DEF Visible, Apply, WorkingCopy, Snapshot, Content, NoDiff, Diff

\* Work becomes an attempt, which is stored before it is sent.
LEMMA SaveStartsSound ==
    ASSUME Sound, NEW t \in Tabs, NEW ok \in BOOLEAN, SaveStarts(t, ok)
    PROVE  Sound'
<1> DEFINE s == tab[t]
           fresh == s.copy.frozen = None
           made == [s.copy EXCEPT !.local = NoDiff,
                                  !.frozen = [key |-> <<t, s.keys>>, rejected |-> FALSE,
                                              content |-> Visible(s.copy)]]
           copy == IF ~fresh THEN s.copy ELSE made
           stored == Kept(s, copy, "saving", ok)
           kept == [stored EXCEPT !.keys = IF fresh THEN @ + 1 ELSE @]
           q == IF ok THEN Dispatched(kept, copy) ELSE kept
<1>0. "put" \in Calls /\ "get" \in Calls /\ "submit" \in Calls
  BY DEF Calls
<1>1. s \in Tab /\ TabSound(t, s) /\ TabTyped(typed[t], s) /\ typed \in [Tabs -> SUBSET Typings]
      /\ signals \in [Tabs -> SUBSET Nat] /\ Shaped
  BY DEF Sound, Shaped
<1>2. /\ Live(t) /\ s.copy # None /\ s.calls["put"] = None /\ s.calls["get"] = None
      /\ Work(s.copy) /\ Writes(ok) /\ tab' = [tab EXCEPT ![t] = q]
      /\ wire' = IF ok THEN wire \cup Puts(copy) ELSE wire
      /\ ServerUnchanged /\ UNCHANGED <<signals, typed>>
  BY DEF SaveStarts, Ready, Saving, Become
<1>3. budget' \in [edits: Nat, failures: Nat, reloads: Nat, device: Nat]
  BY <1>1, <1>2, WritesSpend
<1>4. s.copy \in WorkingCopy /\ CopySound(t, s.copy) /\ CopyTyped(typed[t], s.copy) /\ s.keys \in Nat
      /\ s.stored \in WorkingCopy \cup {None}
  BY <1>1, <1>2 DEF Tab, TabSound, TabTyped
<1>5. <<t, s.keys>> \in Keys
  BY <1>4 DEF Keys
<1>6. ~Done(<<t, s.keys>>)
  <2> SUFFICES ASSUME NEW x \in saved, x.key = <<t, s.keys>> PROVE FALSE
    BY DEF Done
  <2>1. x.key[2] < tab[x.key[1]].keys
    BY DEF Sound
  <2> QED
    BY <1>4, <2>1
<1> HIDE DEF s
<1>7. fresh => /\ made \in WorkingCopy /\ made.base = s.copy.base /\ made.local = NoDiff
               /\ made.post = s.copy.post /\ made.frozen # None
               /\ made.frozen.key = <<t, s.keys>> /\ made.frozen.content = Visible(s.copy)
               /\ ~made.frozen.rejected
  BY <1>4, <1>5, Attempts
<1> HIDE DEF made
<1>8. /\ copy \in WorkingCopy /\ copy.base = s.copy.base /\ copy.frozen # None
      /\ copy # None /\ Flying(copy) /\ Work(copy)
  BY <1>2, <1>4, <1>7, Records DEF Flying, Work
<1>9. CopySound(t, copy) /\ CopyTyped(typed[t], copy)
  <2>1. CASE ~fresh
    BY <1>4, <2>1
  <2>2. CASE fresh
    <3>1. CopySound(t, made)
      BY <1>4, <1>6, <1>7, <2>2 DEF CopySound, AttemptSound, OwnSaves
    <3>2. CopyTyped(typed[t], made)
      <4> SUFFICES ASSUME NEW f \in Fields
          PROVE  /\ made.local[f] # None => WasTyped(typed[t], f, made.local[f], made.base)
                 /\ made.post[f] # None =>
                       \E x \in typed[t] : x.field = f /\ x.value = made.post[f] /\ x.over = None
                 /\ made.frozen.content[f] # made.base.content[f] =>
                       WasTyped(typed[t], f, made.frozen.content[f], made.base)
        BY DEF CopyTyped
      <4>1. made.local[f] = None
        BY <1>7, <2>2 DEF NoDiff
      <4>2. made.post[f] = None
        BY <1>4, <1>7, <2>2 DEF NoDiff, CopySound
      <4>3. made.frozen.content[f] # made.base.content[f] =>
               s.copy.local[f] # None /\ made.frozen.content[f] = s.copy.local[f]
        BY <1>4, <1>7, <2>2, Shown
      <4>4. s.copy.local[f] # None => WasTyped(typed[t], f, s.copy.local[f], s.copy.base)
        BY <1>4 DEF CopyTyped
      <4> QED
        BY <1>7, <2>2, <4>1, <4>2, <4>3, <4>4
    <3> QED
      BY <2>2, <3>1, <3>2
  <2> QED
    BY <2>1, <2>2
<1>10. /\ ~fresh => copy = s.copy
       /\ fresh => copy.frozen.key = <<t, s.keys>> /\ ~copy.frozen.rejected
  BY <1>7
<1>11. copy.frozen \in Frozen /\ copy.base \in Snapshot
  BY <1>8 DEF WorkingCopy
<1> HIDE DEF copy
<1>12. /\ stored \in Tab /\ stored.copy = copy /\ stored.stored = IF ok THEN copy ELSE s.stored
       /\ SameBut(stored, s, {"copy", "stored", "status"})
  BY <1>1, <1>8, KeptTab DEF Statuses
<1> HIDE DEF stored
<1>13. kept \in Tab /\ SameBut(kept, stored, {"keys"}) /\ kept.keys = IF fresh THEN s.keys + 1 ELSE s.keys
  <2> HIDE DEF fresh
  <2>1. stored.keys = s.keys
    BY <1>12 DEF SameBut, Parts
  <2> QED
    BY <1>4, <1>12, <2>1 DEF Tab, SameBut, Parts
<1>14. kept.calls = s.calls
  BY <1>12, <1>13 DEF SameBut, Parts
<1> HIDE DEF kept
<1>15. /\ q \in Tab /\ SameBut(q, kept, {"calls"})
       /\ ok /\ copy.frozen.rejected =>
             q.calls["get"] = Sent(copy.base) /\ q.calls["query"] = None
             /\ \A c \in Calls \ {"get", "query"} : q.calls[c] = kept.calls[c]
       /\ ok /\ ~copy.frozen.rejected =>
             q.calls["put"] = Sent(None) /\ \A c \in Calls \ {"put"} : q.calls[c] = kept.calls[c]
       /\ ~ok => q.calls = kept.calls
  <2>1. CASE ok
    BY <1>8, <1>13, <2>1, DispatchedTab
  <2>2. CASE ~ok
    BY <1>13, <2>2 DEF SameBut, Parts
  <2> QED
    BY <2>1, <2>2
<1> HIDE DEF q
<1>16. /\ q.copy = copy /\ q.stored = IF ok THEN copy ELSE s.stored
       /\ q.open = s.open /\ q.over = s.over /\ q.attempt = s.attempt /\ q.keys = kept.keys
       /\ q.trusted = s.trusted
  BY <1>12, <1>13, <1>15 DEF SameBut, Parts
<1>17. Sent(copy.base).reply = None /\ Sent(copy.base).boundary = copy.base
       /\ Sent(None).reply = None
  BY <1>11, SentCall
<1>18. NoNewAnswers(q, s) /\ q.calls["submit"] = s.calls["submit"]
  <2>1. \A c \in Calls : \/ q.calls[c] = None \/ q.calls[c] = s.calls[c]
                         \/ q.calls[c] \in {Sent(copy.base), Sent(None)}
    BY <1>14, <1>15
  <2>2. q.calls["submit"] = s.calls["submit"]
    BY <1>0, <1>14, <1>15
  <2> QED
    BY <1>17, <2>1, <2>2 DEF NoNewAnswers
<1>19. PutSound(q) /\ GetSound(q)
  <2>1. CASE ok /\ copy.frozen.rejected
    BY <1>0, <1>2, <1>8, <1>14, <1>15, <1>16, <1>17, <2>1 DEF PutSound, GetSound
  <2>2. CASE ok /\ ~copy.frozen.rejected
    BY <1>0, <1>2, <1>8, <1>14, <1>15, <1>16, <1>17, <2>2 DEF PutSound, GetSound, Got
  <2>3. CASE ~ok
    BY <1>2, <1>14, <1>15, <2>3 DEF PutSound, GetSound
  <2> QED
    BY <2>1, <2>2, <2>3
<1>20. ShowsSubmission(q)
  <2>1. ShowsSubmission(s)
    BY <1>1 DEF TabSound
  <2> QED
    BY <1>2, <1>8, <1>16, <2>1 DEF ShowsSubmission, Flying
<1>21. TabTyped(typed'[t], q)
  BY <1>1, <1>2, <1>9, <1>16 DEF TabTyped
<1>22. q.trusted # None => Had(q.trusted)
  BY <1>1, <1>16 DEF TabSound
<1>23. \/ Flying(s.copy) /\ Message(q.copy) = Message(s.copy)
       \/ q.copy.frozen.key = <<t, s.keys>> /\ s.keys < q.keys
  BY <1>2, <1>4, <1>10, <1>13, <1>16 DEF Flying
<1>24. Flying(s.copy) => /\ Flying(q.copy) /\ Message(q.copy) = Message(s.copy)
                         /\ q.stored = None => s.stored = None
  BY <1>8, <1>10, <1>16 DEF Flying
<1>25. \/ wire' = wire
       \/ Flying(q.copy) /\ q.stored = q.copy /\ wire' = wire \cup {Message(q.copy)}
  BY <1>2, <1>8, <1>16 DEF Puts, Message
<1>26. s.keys <= q.keys
  BY <1>4, <1>13, <1>16
<1> QED
  BY <1>1, <1>2, <1>3, <1>8, <1>9, <1>15, <1>16, <1>18, <1>19, <1>20, <1>21, <1>22,
     <1>23, <1>24, <1>25, <1>26, Rewritten DEF s, ServerUnchanged

\* A copy with one field typed anew, apart from the attempt on its way if there is one.
Edited(c, d, f, v) ==
    /\ d \in WorkingCopy /\ d.base = c.base /\ d.frozen = c.frozen
    /\ c.frozen # None =>
          d.local = c.local /\ d.post[f] = v /\ \A g \in Fields \ {f} : d.post[g] = c.post[g]
    /\ c.frozen = None =>
          /\ d.post = c.post /\ d.local[f] = (IF c.base.content[f] = v THEN None ELSE v)
          /\ \A g \in Fields \ {f} : d.local[g] = c.local[g]

\* The copy after an edit.
LEMMA EditedCopy ==
    ASSUME NEW c \in WorkingCopy, NEW f \in Fields, NEW v \in Values
    PROVE  Edited(c, IF c.frozen # None THEN [c EXCEPT !.post[f] = v]
                     ELSE [c EXCEPT !.local[f] = IF c.base.content[f] = v THEN None ELSE v], f, v)
<1>1. CASE c.frozen # None
  <2> DEFINE d == [c EXCEPT !.post[f] = v]
  <2>1. /\ d \in WorkingCopy /\ d.base = c.base /\ d.frozen = c.frozen
        /\ d.local = c.local /\ d.post[f] = v
        /\ \A g \in Fields \ {f} : d.post[g] = c.post[g]
    BY DEF WorkingCopy, Diff
  <2> HIDE DEF d
  <2>2. Edited(c, d, f, v)
    BY <1>1, <2>1 DEF Edited
  <2> QED
    BY <1>1, <2>2 DEF d
<1>2. CASE c.frozen = None
  <2> DEFINE w == IF c.base.content[f] = v THEN None ELSE v
             d == [c EXCEPT !.local[f] = w]
  <2>1. w \in Values \cup {None}
    OBVIOUS
  <2> HIDE DEF w
  <2>2. /\ d \in WorkingCopy /\ d.base = c.base /\ d.frozen = c.frozen
        /\ d.post = c.post /\ d.local[f] = w
        /\ \A g \in Fields \ {f} : d.local[g] = c.local[g]
    BY <2>1 DEF WorkingCopy, Diff
  <2> HIDE DEF d
  <2>3. Edited(c, d, f, v)
    BY <1>2, <2>2 DEF Edited, w
  <2> QED
    BY <1>2, <2>3 DEF d, w
<1> QED
  BY <1>1, <1>2

\* What is told by some of what was typed is told by more of it.
LEMMA MoreTyped ==
    ASSUME NEW typing, NEW typing2, typing \subseteq typing2, NEW c, CopyTyped(typing, c)
    PROVE  CopyTyped(typing2, c)
BY DEF CopyTyped, WasTyped

\* What was typed is remembered; what it replaces is forgotten, unless the storage has it.
LEMMA EditTyped ==
    ASSUME NEW c \in WorkingCopy, NEW typing \in SUBSET Typings, NEW typing2 \in SUBSET Typings,
           NEW f \in Fields, NEW v \in Values, NEW copy, NEW stored, NEW new \in typing2,
           c.frozen = None => c.post = NoDiff,
           CopyTyped(typing, c), stored # None => CopyTyped(typing, stored),
           Edited(c, copy, f, v),
           new.field = f, new.value = v,
           new.over = IF c.frozen # None THEN None ELSE c.base.content[f],
           \A x \in typing : c.frozen # None \/ x.field # f \/ Carries(stored, x) => x \in typing2
    PROVE  CopyTyped(typing2, copy) /\ (stored # None => CopyTyped(typing2, stored))
<1>1. CASE c.frozen # None
  <2>1. CopyTyped(typing2, c)
    BY <1>1, MoreTyped
  <2>2. ASSUME NEW g \in Fields, copy.post[g] # None
        PROVE  \E x \in typing2 : x.field = g /\ x.value = copy.post[g] /\ x.over = None
    <3>1. CASE g = f
      BY <1>1, <3>1 DEF Edited
    <3>2. CASE g # f
      BY <1>1, <2>1, <2>2, <3>2 DEF Edited, CopyTyped
    <3> QED
      BY <3>1, <3>2
  <2>3. copy.base = c.base /\ copy.frozen = c.frozen /\ copy.local = c.local
    BY <1>1 DEF Edited
  <2>4. CopyTyped(typing2, copy)
    BY <2>1, <2>2, <2>3 DEF CopyTyped
  <2>5. stored # None => CopyTyped(typing2, stored)
    BY <1>1, MoreTyped
  <2> QED
    BY <2>4, <2>5
<1>2. CASE c.frozen = None
  <2>1. copy.base = c.base /\ copy.frozen = None /\ copy.post = NoDiff
    BY <1>2 DEF Edited
  <2>2. ASSUME NEW g \in Fields, copy.local[g] # None
        PROVE  WasTyped(typing2, g, copy.local[g], copy.base)
    <3>1. CASE g = f
      <4>1. copy.local[f] = v
        BY <1>2, <2>2, <3>1 DEF Edited
      <4> QED
        BY <1>2, <2>1, <3>1, <4>1 DEF WasTyped
    <3>2. CASE g # f
      <4>1. WasTyped(typing, g, copy.local[g], copy.base)
        BY <1>2, <2>1, <2>2, <3>2 DEF Edited, CopyTyped
      <4> QED
        BY <3>2, <4>1 DEF WasTyped
    <3> QED
      BY <3>1, <3>2
  <2>3. CopyTyped(typing2, copy)
    BY <2>1, <2>2 DEF CopyTyped, NoDiff
  <2>4. ASSUME stored # None PROVE CopyTyped(typing2, stored)
    <3> SUFFICES ASSUME NEW g \in Fields
        PROVE  /\ stored.local[g] # None => WasTyped(typing2, g, stored.local[g], stored.base)
               /\ stored.post[g] # None =>
                     \E x \in typing2 : x.field = g /\ x.value = stored.post[g] /\ x.over = None
               /\ stored.frozen # None /\ stored.frozen.content[g] # stored.base.content[g] =>
                     WasTyped(typing2, g, stored.frozen.content[g], stored.base)
      BY DEF CopyTyped
    <3>1. \A x \in typing :
             x.field = g /\ (\/ x.value = stored.local[g] \/ x.value = stored.post[g]
                             \/ stored.frozen # None /\ x.value = stored.frozen.content[g])
             => x \in typing2
      BY <2>4 DEF Carries
    <3> QED
      BY <2>4, <3>1 DEF CopyTyped, WasTyped
  <2> QED
    BY <2>3, <2>4
<1> QED
  BY <1>1, <1>2

\* The learner types.
LEMMA EditSound ==
    ASSUME Sound, NEW t \in Tabs, NEW f \in Fields, NEW v \in Values, NEW ok \in BOOLEAN,
           Edit(t, f, v, ok)
    PROVE  Sound'
<1> DEFINE s == tab[t]
           flying == s.copy.frozen # None
           copy == IF flying THEN [s.copy EXCEPT !.post[f] = v]
                   ELSE [s.copy EXCEPT !.local[f] = IF s.copy.base.content[f] = v THEN None ELSE v]
           over == IF flying THEN None ELSE s.copy.base.content[f]
           q == IF Work(copy) THEN Kept(s, copy, IF Saving(s) THEN "saving" ELSE "dirty", ok)
                ELSE Cleaned(s, copy)
           new == [field |-> f, value |-> v, over |-> over]
           typing == {x \in typed[t] : flying \/ x.field # f \/ Carries(q.stored, x)} \cup {new}
<1>0. "put" \in Calls /\ "get" \in Calls /\ "submit" \in Calls /\ "put" # "query"
      /\ "get" # "query" /\ "submit" # "query"
  BY DEF Calls
<1>1. s \in Tab /\ TabSound(t, s) /\ TabTyped(typed[t], s) /\ typed \in [Tabs -> SUBSET Typings]
      /\ signals \in [Tabs -> SUBSET Nat] /\ tab \in [Tabs -> Tab]
  BY DEF Sound, Shaped
<1>2. /\ Live(t) /\ s.copy # None /\ s.attempt = None /\ tab' = [tab EXCEPT ![t] = q]
      /\ ServerUnchanged /\ UNCHANGED <<wire, signals>>
  BY DEF Edit, Ready, Become
<1>3. budget' \in [edits: Nat, failures: Nat, reloads: Nat, device: Nat]
  <2>1. budget \in [edits: Nat, failures: Nat, reloads: Nat, device: Nat]
    BY DEF Sound, Shaped
  <2>2. /\ budget.edits > 0 /\ (ok \/ budget.failures > 0)
        /\ budget' = [budget EXCEPT !.edits = @ - 1, !.failures = IF ok THEN @ ELSE @ - 1]
    BY DEF Edit
  <2> DEFINE left == IF ok THEN budget.failures ELSE budget.failures - 1
  <2>3. budget.edits - 1 \in Nat /\ left \in Nat
    BY <2>1, <2>2
  <2>4. budget' = [budget EXCEPT !.edits = budget.edits - 1, !.failures = left]
    BY <2>2
  <2> HIDE DEF left
  <2> QED
    BY <2>1, <2>3, <2>4
<1>4. typed' = [typed EXCEPT ![t] = typing]
  <2>1. tab'[t] = q
    BY <1>1, <1>2
  <2>2. typed' = [typed EXCEPT ![t] =
                        {x \in @ : flying \/ x.field # f \/ Carries(tab'[t].stored, x)}
                        \cup {[field |-> f, value |-> v, over |-> over]}]
    BY DEF Edit
  <2> QED
    BY <2>1, <2>2
<1>5. s.copy \in WorkingCopy /\ CopySound(t, s.copy) /\ CopyTyped(typed[t], s.copy)
      /\ s.copy.base.content[f] \in Values
  BY <1>1, <1>2 DEF Tab, TabSound, TabTyped, WorkingCopy, Snapshot, Content
<1>6. typing \in SUBSET Typings
  <2>1. new \in Typings
    BY <1>5 DEF Typings
  <2>2. typed[t] \in SUBSET Typings
    BY <1>1
  <2> HIDE DEF new
  <2> QED
    BY <2>1, <2>2
<1> HIDE DEF s
<1>7. /\ Edited(s.copy, copy, f, v)
      /\ copy \in WorkingCopy /\ copy.base = s.copy.base /\ copy.frozen = s.copy.frozen
      /\ flying => copy.local = s.copy.local
      /\ ~flying => copy.post = s.copy.post
  <2>1. Edited(s.copy, copy, f, v)
    BY <1>5, EditedCopy
  <2> HIDE DEF copy
  <2> QED
    BY <2>1 DEF Edited
<1> HIDE DEF copy
<1>8. CopySound(t, copy)
  BY <1>5, <1>7 DEF CopySound, AttemptSound, OwnSaves
<1>9. copy # None
  BY <1>7, Records
<1>10. /\ CopyTyped(typing, copy)
       /\ q.stored # None /\ CopyTyped(typed[t], q.stored) => CopyTyped(typing, q.stored)
  <2> HIDE DEF q
  <2>1. typed[t] \in SUBSET Typings
    BY <1>1
  <2>2. s.copy.frozen = None => s.copy.post = NoDiff
    BY <1>5 DEF CopySound
  <2>3. new \in typing /\ new.field = f /\ new.value = v /\ new.over = over
    OBVIOUS
  <2>4. \A x \in typed[t] : flying \/ x.field # f \/ Carries(q.stored, x) => x \in typing
    OBVIOUS
  <2>5. \A x \in typed[t] : flying \/ x.field # f \/ Carries(None, x) => x \in typing
    BY DEF Carries
  <2> HIDE DEF typing, new
  <2>6. ASSUME q.stored # None, CopyTyped(typed[t], q.stored) PROVE CopyTyped(typing, q.stored)
    BY <1>5, <1>6, <1>7, <2>1, <2>2, <2>3, <2>4, <2>6, EditTyped
  <2>7. CopyTyped(typing, copy)
    BY <1>5, <1>6, <1>7, <2>1, <2>2, <2>3, <2>5, EditTyped
  <2> QED
    BY <2>6, <2>7
<1> HIDE DEF typing
<1>11. /\ q \in Tab /\ q.copy = copy /\ q.stored \in {copy, s.stored, None}
       /\ ~Work(copy) => q.stored = None
       /\ SameBut(q, s, {"copy", "stored", "status", "calls"})
       /\ \A c \in Calls : q.calls[c] \in {s.calls[c], Sent(None)}
       /\ \A c \in Calls \ {"query"} : q.calls[c] = s.calls[c]
  <2>1. CASE Work(copy)
    <3> DEFINE status == IF Saving(s) THEN "saving" ELSE "dirty"
    <3>0. status \in Statuses
      BY DEF Statuses
    <3> HIDE DEF status
    <3>1. /\ Kept(s, copy, status, ok) \in Tab
          /\ Kept(s, copy, status, ok).copy = copy
          /\ Kept(s, copy, status, ok).stored = IF ok THEN copy ELSE s.stored
          /\ SameBut(Kept(s, copy, status, ok), s, {"copy", "stored", "status"})
      BY <1>1, <1>7, <3>0, KeptTab
    <3>2. Kept(s, copy, status, ok).calls = s.calls
      BY <3>1 DEF SameBut, Parts
    <3> QED
      BY <2>1, <3>1, <3>2 DEF SameBut, Parts, status
  <2>2. CASE ~Work(copy)
    BY <1>1, <1>7, <2>2, CleanedTab
  <2> QED
    BY <2>1, <2>2
<1> HIDE DEF q
<1>12. /\ q.open = s.open /\ q.over = s.over /\ q.attempt = s.attempt /\ q.keys = s.keys
       /\ q.trusted = s.trusted
  BY <1>11 DEF SameBut, Parts
<1>13. Sent(None).reply = None
  BY SentCall
<1>14. NoNewAnswers(q, s)
  BY <1>11, <1>13 DEF NoNewAnswers
<1>15. PutSound(q) /\ GetSound(q)
  <2>1. q.calls["put"] = s.calls["put"] /\ q.calls["get"] = s.calls["get"]
    BY <1>0, <1>11
  <2>2. PutSound(s) /\ GetSound(s)
    BY <1>1 DEF TabSound
  <2>3. q.copy.base = s.copy.base /\ q.copy.frozen = s.copy.frozen /\ q.copy # None
    BY <1>7, <1>9, <1>11
  <2> QED
    BY <1>2, <2>1, <2>2, <2>3 DEF PutSound, GetSound, Got, Flying
<1>16. ShowsSubmission(q)
  BY <1>2, <1>12 DEF ShowsSubmission
<1>17. TabTyped(typed'[t], q)
  <2>1. typed'[t] = typing
    BY <1>1, <1>4
  <2>2. s.stored # None => CopyTyped(typed[t], s.stored)
    BY <1>1 DEF TabTyped
  <2>3. q.stored # None => CopyTyped(typing, q.stored)
    BY <1>10, <1>11, <2>2
  <2> QED
    BY <1>10, <1>11, <2>1, <2>3 DEF TabTyped
<1>18. typed' \in [Tabs -> SUBSET Typings] /\ \A x \in Tabs \ {t} : typed'[x] = typed[x]
  BY <1>1, <1>4, <1>6
<1>19. q.trusted # None => Had(q.trusted)
  BY <1>1, <1>12 DEF TabSound
<1>20. Flying(q.copy) => Flying(s.copy) /\ Message(q.copy) = Message(s.copy)
  BY <1>2, <1>7, <1>11 DEF Flying, Message
<1>21. Flying(s.copy) =>
          /\ Flying(q.copy) /\ Message(q.copy) = Message(s.copy)
          /\ q.stored = None => s.stored = None
  <2> SUFFICES ASSUME Flying(s.copy) PROVE Work(copy) /\ Flying(q.copy) /\ Message(q.copy) = Message(s.copy)
                                           /\ (q.stored = None => s.stored = None)
    OBVIOUS
  <2>1. Work(copy) /\ Flying(q.copy) /\ Message(q.copy) = Message(s.copy)
    BY <1>7, <1>9, <1>11 DEF Flying, Work, Message
  <2>2. q.stored = IF ok THEN copy ELSE s.stored
    BY <1>1, <1>7, <2>1, KeptTab DEF q, Statuses
  <2> QED
    BY <1>9, <2>1, <2>2
<1>22. s.keys <= q.keys
  BY <1>1, <1>12 DEF Tab
<1>23. ~Work(q.copy) => ~Flying(q.stored)
  BY <1>11 DEF Flying
<1>24. q.calls["submit"] = s.calls["submit"]
  BY <1>0, <1>11
<1> QED
  BY <1>1, <1>2, <1>3, <1>8, <1>9, <1>11, <1>12, <1>14, <1>15, <1>16, <1>17, <1>18, <1>19,
     <1>20, <1>21, <1>22, <1>23, <1>24, Rewritten DEF s, ServerUnchanged

\* A turn that adopts a new base and lays over it what was typed over the fields it leaves
\* as they were. An attempt that can still be accepted is never dropped for it.
LEMMA AdoptedTurn ==
    ASSUME Sound, NEW t \in Tabs, NEW s, s = tab[t], NEW r \in Tab, SameBut(r, s, Inner),
           NEW base \in Snapshot, NEW local \in Diff, NEW ok \in BOOLEAN,
           tab' = [tab EXCEPT ![t] = Adopted(r, base, local, ok)],
           UNCHANGED <<history, saved, closed, wire>>, Live(t),
           NoNewAnswers(r, s), r.calls["submit"] = s.calls["submit"],
           r.calls["put"] = None, r.calls["get"] = None,
           r.trusted # None => Had(r.trusted),
           Had(base), OwnUpTo(t, base.revision),
           \A f \in Fields : local[f] # None => WasTyped(typed[t], f, local[f], base),
           Flying(s.copy) => Dead(Message(s.copy)),
           s.attempt # None /\ ~Dead(s.attempt) =>
              s.attempt.expected <= base.revision /\ (local # NoDiff => Work(s.stored)),
           ForgetReplaced(t),
           signals' \in [Tabs -> SUBSET Nat],
           budget' \in [edits: Nat, failures: Nat, reloads: Nat, device: Nat]
    PROVE  Sound'
<1> DEFINE q == Adopted(r, base, local, ok)
           copy == [CleanCopy(base) EXCEPT !.local = local]
<1>0. "put" \in Calls /\ "get" \in Calls /\ "submit" \in Calls /\ "put" # "query"
      /\ "get" # "query" /\ "submit" # "query"
  BY DEF Calls
<1>1. s \in Tab /\ TabSound(t, s) /\ TabTyped(typed[t], s) /\ Shaped
  BY DEF Sound, Shaped
<1>2. /\ q \in Tab /\ q.copy = copy
      /\ q.stored = IF local = NoDiff THEN None ELSE IF ok THEN copy ELSE r.stored
      /\ SameBut(q, r, {"copy", "stored", "status", "calls", "blocked", "pending", "deferred"})
      /\ \A c \in Calls : q.calls[c] \in {r.calls[c], Sent(None)}
      /\ \A c \in Calls \ {"query"} : q.calls[c] = r.calls[c]
  BY AdoptedTab
<1>3. /\ copy \in WorkingCopy /\ copy.base = base /\ copy.local = local
      /\ copy.post = NoDiff /\ copy.frozen = None
  BY CleanCopies
<1>4. tab' = [tab EXCEPT ![t] = q] /\ tab'[t] = q
  BY <1>1 DEF Shaped
<1> HIDE DEF q, copy
<1>5. /\ q.open = s.open /\ q.over = s.over /\ q.attempt = s.attempt /\ q.keys = s.keys
      /\ q.trusted = r.trusted /\ r.stored = s.stored
  BY <1>2 DEF SameBut, Parts, Inner
<1>6. copy # None /\ (Work(copy) <=> local # NoDiff) /\ ~Flying(copy)
  BY <1>3, Records DEF Work, Flying
<1>7. CopySound(t, copy)
  BY <1>3 DEF CopySound, AttemptSound, OwnSaves
<1>8. CopyTyped(typed[t], copy)
  BY <1>3 DEF CopyTyped, NoDiff
<1>9. q.stored \in {copy, s.stored, None} /\ TabTyped(typed[t], q)
  BY <1>1, <1>2, <1>5, <1>8 DEF TabTyped
<1>10. /\ typed' \in [Tabs -> SUBSET Typings] /\ \A x \in Tabs \ {t} : typed'[x] = typed[x]
       /\ TabTyped(typed'[t], q)
  BY <1>1, <1>4, <1>9, Forgets
<1>11. Sent(None).reply = None
  BY SentCall
<1>12. NoNewAnswers(q, s)
  BY <1>2, <1>11 DEF NoNewAnswers
<1>13. PutSound(q) /\ GetSound(q) /\ q.calls["submit"] = s.calls["submit"]
  BY <1>0, <1>2 DEF PutSound, GetSound
<1>14. ShowsSubmission(q)
  <2> SUFFICES ASSUME s.attempt # None, ~Dead(s.attempt)
      PROVE  /\ s.attempt.expected <= q.copy.base.revision
             /\ Flying(q.stored) => s.attempt.expected <= q.stored.base.revision
             /\ ~Work(q.stored) => ~Work(q.copy)
    BY <1>5 DEF ShowsSubmission
  <2>1. ShowsSubmission(s)
    BY <1>1 DEF TabSound
  <2>2. s.attempt.expected <= q.copy.base.revision
    BY <1>2, <1>3
  <2>3. Flying(q.stored) => s.attempt.expected <= q.stored.base.revision
    BY <1>6, <1>9, <2>1 DEF ShowsSubmission, Flying
  <2>4. ~Work(q.stored) => ~Work(q.copy)
    BY <1>2, <1>5, <1>6
  <2> QED
    BY <2>2, <2>3, <2>4
<1>15. ~Work(q.copy) => ~Flying(q.stored)
  BY <1>2, <1>6 DEF Flying
<1>16. s.keys <= q.keys
  BY <1>1, <1>5 DEF Tab
<1> QED
  BY <1>2, <1>4, <1>5, <1>6, <1>7, <1>9, <1>10, <1>12, <1>13, <1>14, <1>15, <1>16, Rewritten

\* A draft that was read, or a newer one read before: it is one the server had.
LEMMA LatestHad ==
    ASSUME NEW s \in Tab, NEW read \in Snapshot, Had(read), s.trusted # None => Had(s.trusted)
    PROVE  /\ Latest(s, read) \in Snapshot /\ Had(Latest(s, read))
           /\ read.revision <= Latest(s, read).revision
<1>1. s.trusted \in Snapshot \cup {None}
  BY DEF Tab
<1>2. CASE s.trusted # None /\ s.trusted.revision > read.revision
  BY <1>1, <1>2 DEF Latest, Snapshot
<1>3. CASE ~(s.trusted # None /\ s.trusted.revision > read.revision)
  BY <1>3 DEF Latest, Snapshot
<1> QED
  BY <1>2, <1>3

\* A larger revision bounds what a smaller one does.
LEMMA OwnLater ==
    ASSUME Shaped, NEW t, NEW n \in Int, NEW k \in Int, n <= k, OwnUpTo(t, n)
    PROVE  OwnUpTo(t, k)
BY DEF OwnUpTo, Shaped

\* The answers of a tab's calls are what they should be.
LEMMA Answers ==
    ASSUME NEW s \in Tab, RepliesSound(s), NEW c \in Reads, Got(s, c, "ok")
    PROVE  /\ s.calls[c].reply.snapshot \in Snapshot /\ Had(s.calls[c].reply.snapshot)
           /\ s.calls[c].boundary \in Snapshot \cup {None}
<1>1. c \in Calls
  BY DEF Reads, Calls
<1>2. s.calls[c] \in Call
  BY <1>1 DEF Tab, Got
<1>3. s.calls[c].reply \in Reply
  BY <1>2 DEF Call, Got
<1> QED
  BY <1>1, <1>2, <1>3 DEF RepliesSound, Reply, Call

\* Of the changes laid over a draft, those that differ from it are left.
LEMMA LaidOver ==
    ASSUME NEW content \in Content, NEW diff \in Diff
    PROVE  LET local == DiffOf(content, Apply(content, diff))
           IN  /\ local \in Diff
               /\ \A f \in Fields : local[f] # None => diff[f] # None /\ local[f] = diff[f]
BY Applied, Differed DEF DiffOf, Apply, Content, Diff

\* What the reading back of a save has: the attempt is over, and the answer later than it.
LEMMA ReadBack ==
    ASSUME Sound, NEW t \in Tabs, NEW s, s = tab[t], Got(s, "get", "ok")
    PROVE  /\ s \in Tab /\ Live(t) /\ Flying(s.copy) /\ s.calls["put"] = None
           /\ s.copy \in WorkingCopy /\ CopySound(t, s.copy) /\ Dead(Message(s.copy))
           /\ s.calls["get"].reply.snapshot \in Snapshot /\ Had(s.calls["get"].reply.snapshot)
           /\ s.calls["get"].boundary \in Snapshot
           /\ Had(s.calls["get"].boundary)
           /\ OwnUpTo(t, s.calls["get"].boundary.revision)
           /\ s.copy.base.revision <= s.calls["get"].boundary.revision
<1>1. s \in Tab /\ TabSound(t, s) /\ Shaped /\ "get" \in Calls /\ "put" \in Calls /\ "get" \in Reads
  BY DEF Sound, Shaped, Calls, Reads
<1>2. s.calls["get"] # None
  BY DEF Got
<1>3. Live(t)
  BY <1>1, <1>2, Waiting
<1>4. /\ Flying(s.copy) /\ (s.copy.frozen.rejected \/ Done(s.copy.frozen.key))
      /\ s.calls["get"].boundary =
              IF s.copy.frozen.rejected THEN s.copy.base
              ELSE [revision |-> s.copy.base.revision + 1, content |-> s.copy.frozen.content]
      /\ s.calls["put"] = None
  BY <1>1, <1>2 DEF TabSound, GetSound, PutSound
<1>5. /\ s.copy \in WorkingCopy /\ CopySound(t, s.copy) /\ s.copy.frozen # None
      /\ s.copy.base \in Snapshot /\ s.copy.frozen \in Frozen
  BY <1>1, <1>4 DEF Tab, TabSound, Flying, WorkingCopy
<1>6. s.copy.base.revision \in Nat /\ s.copy.frozen.content \in Content
  BY <1>5 DEF Snapshot, Frozen
<1>7. /\ s.copy.frozen.rejected => s.copy.base.revision < Revision /\ ~Done(s.copy.frozen.key)
      /\ Done(s.copy.frozen.key) =>
            /\ s.copy.base.revision < Revision
            /\ history[s.copy.base.revision + 2] = [content |-> s.copy.frozen.content, by |-> t]
      /\ OwnSaves(t, s.copy) /\ Had(s.copy.base)
  BY <1>5 DEF CopySound, AttemptSound
<1>8. Revision \in Nat
  BY <1>1 DEF Shaped, Revision
<1>9. Dead(Message(s.copy))
  <2>1. Message(s.copy).expected = s.copy.base.revision
    BY <1>5, Messages
  <2> QED
    BY <1>4, <1>6, <1>7, <1>8, <2>1 DEF Dead
<1>10. CASE s.copy.frozen.rejected
  BY <1>1, <1>3, <1>4, <1>5, <1>6, <1>7, <1>9, <1>10, Answers DEF OwnSaves, TabSound
<1>11. CASE ~s.copy.frozen.rejected
  <2> DEFINE ack == [revision |-> s.copy.base.revision + 1, content |-> s.copy.frozen.content]
  <2>1. ack \in Snapshot /\ s.calls["get"].boundary = ack /\ s.copy.base.revision <= ack.revision
    BY <1>4, <1>6, <1>11 DEF Snapshot
  <2>2. Had(ack)
    BY <1>4, <1>6, <1>7, <1>8, <1>11 DEF Had
  <2>3. OwnUpTo(t, s.copy.base.revision + 1)
    BY <1>1, <1>6, <1>7, OwnLater DEF OwnSaves
  <2> QED
    BY <1>1, <1>3, <1>4, <1>5, <1>9, <2>1, <2>2, <2>3, Answers DEF TabSound
<1> QED
  BY <1>10, <1>11

\* A save is over: the draft read back is later than the attempt.
LEMMA SaveCompletesSound ==
    ASSUME Sound, NEW t \in Tabs, NEW ok \in BOOLEAN, SaveCompletes(t, ok)
    PROVE  Sound'
<1> DEFINE s == tab[t]
           call == s.calls["get"]
           read == call.reply.snapshot
           remote == Latest(s, read)
           good == /\ Canonical(s, call)
                   /\ s.copy.frozen.rejected => remote.revision > s.copy.base.revision
           local == DiffOf(remote.content, Apply(remote.content, s.copy.post))
           r == Trusting(s, "get", remote)
<1>0. "get" \in Calls /\ "put" \in Calls /\ "submit" \in Calls /\ "get" \in Reads /\ "put" # "get"
      /\ "submit" # "get"
  BY DEF Calls, Reads
<1>1. TabSound(t, s) /\ TabTyped(typed[t], s) /\ Shaped /\ signals \in [Tabs -> SUBSET Nat]
      /\ budget \in [edits: Nat, failures: Nat, reloads: Nat, device: Nat]
  BY DEF Sound, Shaped
<1>2. Got(s, "get", "ok")
  BY DEF SaveCompletes, Answered, Got
<1>3. /\ s \in Tab /\ Live(t) /\ Flying(s.copy) /\ s.calls["put"] = None
      /\ s.copy \in WorkingCopy /\ CopySound(t, s.copy) /\ Dead(Message(s.copy))
      /\ read \in Snapshot /\ Had(read) /\ call.boundary \in Snapshot /\ Had(call.boundary)
      /\ OwnUpTo(t, call.boundary.revision)
      /\ s.copy.base.revision <= call.boundary.revision
  BY <1>2, ReadBack
<1>4. ServerUnchanged /\ UNCHANGED wire
  BY DEF SaveCompletes
<1>5. CASE good
  <2>1. /\ tab' = [tab EXCEPT ![t] = Adopted(r, remote, local, ok)]
        /\ ForgetReplaced(t)
        /\ Writes(ok) \/ UNCHANGED budget
        /\ signals' = [x \in Tabs |-> IF x # t /\ Live(x)
                                      THEN signals[x] \cup {remote.revision} ELSE signals[x]]
    BY <1>5 DEF SaveCompletes, Become
  <2>2. budget' \in [edits: Nat, failures: Nat, reloads: Nat, device: Nat]
    BY <1>1, <2>1, WritesSpend
  <2>3. remote \in Snapshot /\ Had(remote)
    BY <1>1, <1>3, LatestHad DEF TabSound
  <2>4. call.boundary.revision <= remote.revision
    <3>1. call.boundary # None
      BY <1>3, Records
    <3>2. Canonical(s, call)
      BY <1>5
    <3> QED
      BY <3>1, <3>2 DEF Canonical, Progresses
  <2>5. signals' \in [Tabs -> SUBSET Nat]
    <3>1. remote.revision \in Nat
      BY <2>3 DEF Snapshot
    <3> HIDE DEF remote
    <3> QED
      BY <1>1, <2>1, <3>1
  <2>6. /\ r \in Tab /\ SameBut(r, s, {"trusted", "alarm", "calls"})
        /\ r.trusted = remote /\ r.calls["get"] = None
        /\ \A d \in Calls \ {"get"} : r.calls[d] = s.calls[d]
    BY <1>0, <1>3, <2>3, TrustingTab
  <2> HIDE DEF s, call, read, r, good
  <2>7. OwnUpTo(t, remote.revision)
    BY <1>1, <1>3, <2>3, <2>4, OwnLater DEF Snapshot
  <2>8. /\ local \in Diff
        /\ \A f \in Fields : local[f] # None =>
              s.copy.post[f] # None /\ local[f] = s.copy.post[f]
    BY <1>3, <2>3, LaidOver DEF WorkingCopy, Snapshot
  <2> HIDE DEF local, remote
  <2>9. \A f \in Fields : local[f] # None => WasTyped(typed[t], f, local[f], remote)
    <3>1. CopyTyped(typed[t], s.copy)
      BY <1>1, <1>3 DEF TabTyped, Flying
    <3> QED
      BY <2>8, <3>1 DEF CopyTyped, WasTyped
  <2>10. s.attempt # None /\ ~Dead(s.attempt) =>
            s.attempt.expected <= remote.revision /\ (local # NoDiff => Work(s.stored))
    <3> SUFFICES ASSUME s.attempt # None, ~Dead(s.attempt)
        PROVE  s.attempt.expected <= remote.revision /\ Work(s.stored)
      OBVIOUS
    <3>1. s.attempt.expected <= s.copy.base.revision /\ Work(s.stored)
      BY <1>1, <1>3 DEF TabSound, ShowsSubmission, Flying, Work
    <3>2. s.attempt.expected \in Nat /\ s.copy.base.revision \in Nat /\ remote.revision \in Nat
          /\ call.boundary.revision \in Nat
      BY <1>3, <2>3 DEF Tab, Request, WorkingCopy, Snapshot
    <3> QED
      BY <1>3, <2>4, <3>1, <3>2
  <2>11. /\ SameBut(r, s, Inner) /\ NoNewAnswers(r, s) /\ r.calls["submit"] = s.calls["submit"]
         /\ r.calls["put"] = None
    BY <1>0, <1>3, <2>6 DEF SameBut, Parts, Inner, NoNewAnswers
  <2> QED
    BY <1>3, <1>4, <2>1, <2>2, <2>3, <2>5, <2>6, <2>7, <2>8, <2>9, <2>10, <2>11, AdoptedTurn
    DEF s, ServerUnchanged
<1>6. CASE ~good
  <2> DEFINE a == Alarmed(s)
             q == [a EXCEPT !.calls["get"] = None]
  <2>1. tab' = [tab EXCEPT ![t] = q] /\ UNCHANGED <<signals, typed, budget>>
    BY <1>6 DEF SaveCompletes, Become
  <2>2. a \in Tab /\ SameBut(a, s, {"alarm", "blocked", "status"})
    BY <1>3, AlarmedTab
  <2> HIDE DEF a, s, good
  <2>3. /\ q \in Tab /\ SameBut(q, a, {"calls"}) /\ q.calls["get"] = None
        /\ \A d \in Calls \ {"get"} : q.calls[d] = a.calls[d]
    BY <1>0, <2>2, OverTab
  <2> HIDE DEF q
  <2>4. SameBut(q, s, Inner) /\ q.trusted = s.trusted /\ a.calls = s.calls
    BY <2>2, <2>3 DEF SameBut, Parts, Inner
  <2>5. NoNewAnswers(q, s) /\ NoNewCalls(q, s)
    BY <2>3, <2>4 DEF NoNewAnswers, NoNewCalls, Calls
  <2> QED
    BY <1>1, <1>3, <1>4, <2>1, <2>3, <2>4, <2>5, Looking DEF s, ServerUnchanged
<1> QED
  BY <1>5, <1>6

\* What a merge leaves to save is what was typed over fields the server still has as they were.
LEMMA MergedOver ==
    ASSUME NEW c \in WorkingCopy, c.frozen = None, NEW remote \in Snapshot
    PROVE  LET local == DiffOf(remote.content,
                               Merge(c.base.content, Visible(c), remote.content))
           IN  /\ local \in Diff
               /\ \A f \in Fields : local[f] # None =>
                     /\ c.local[f] # None /\ local[f] = c.local[f]
                     /\ remote.content[f] = c.base.content[f]
               /\ c.local = NoDiff => local = NoDiff
<1> DEFINE merged == Merge(c.base.content, Visible(c), remote.content)
           local == DiffOf(remote.content, merged)
<1>1. /\ c.base.content \in Content /\ remote.content \in Content /\ Visible(c) \in Content
      /\ c.local \in Diff
  BY Visibles DEF WorkingCopy, Snapshot
<1>2. merged \in Content
  BY <1>1, Merged
<1>3. local \in Diff
  BY <1>1, <1>2, Differed
<1>4. ASSUME NEW f \in Fields, local[f] # None
      PROVE  /\ c.local[f] # None /\ local[f] = c.local[f]
             /\ remote.content[f] = c.base.content[f]
  <2>1. merged[f] # remote.content[f] /\ local[f] = merged[f]
    BY <1>4 DEF DiffOf
  <2>2. /\ merged[f] = Visible(c)[f] /\ Visible(c)[f] # c.base.content[f]
        /\ remote.content[f] = c.base.content[f]
    BY <2>1 DEF Merge
  <2> QED
    BY <2>1, <2>2, Shown
<1>5. c.local = NoDiff => local = NoDiff
  BY <1>3, <1>4 DEF NoDiff, Diff
<1> QED
  BY <1>3, <1>4, <1>5

\* A turn that merges what the tab has, in memory or in the storage, with a draft that is
\* no older than its base.
LEMMA ReconciledTurn ==
    ASSUME Sound, NEW t \in Tabs, NEW s, s = tab[t], NEW r \in Tab, SameBut(r, s, Inner),
           NEW mine \in WorkingCopy, mine = IF s.copy = None THEN s.stored ELSE s.copy,
           mine.frozen = None,
           NEW remote \in Snapshot, NEW ok \in BOOLEAN,
           tab' = [tab EXCEPT ![t] = Reconciled(r, mine, remote, ok)],
           UNCHANGED <<history, saved, closed, wire>>, Live(t),
           NoNewAnswers(r, s), NoNewCalls(r, s), r.calls["submit"] = s.calls["submit"],
           r.trusted # None => Had(r.trusted),
           Had(remote), mine.base.revision <= remote.revision,
           s.copy = None /\ s.attempt # None => s.attempt.expected <= remote.revision,
           ForgetReplaced(t),
           signals' \in [Tabs -> SUBSET Nat],
           budget' \in [edits: Nat, failures: Nat, reloads: Nat, device: Nat]
    PROVE  Sound'
<1> DEFINE local == DiffOf(remote.content,
                           Merge(mine.base.content, Visible(mine), remote.content))
<1>1. s \in Tab /\ TabSound(t, s) /\ TabTyped(typed[t], s) /\ Shaped
  BY DEF Sound, Shaped
<1>2. /\ local \in Diff
      /\ \A f \in Fields : local[f] # None =>
            /\ mine.local[f] # None /\ local[f] = mine.local[f]
            /\ remote.content[f] = mine.base.content[f]
      /\ mine.local = NoDiff => local = NoDiff
  BY MergedOver
<1>3. tab' = [tab EXCEPT ![t] = Adopted(r, remote, local, ok)]
  BY DEF Reconciled
<1> HIDE DEF local
<1>4. mine # None /\ mine \in {s.copy, s.stored}
  BY Records
<1>5. CopySound(t, mine) /\ CopyTyped(typed[t], mine)
  BY <1>1, <1>4 DEF TabSound, TabTyped
<1>6. OwnUpTo(t, remote.revision)
  <2>1. OwnUpTo(t, mine.base.revision)
    BY <1>5 DEF CopySound, OwnSaves
  <2>2. mine.base.revision \in Nat /\ remote.revision \in Nat
    BY DEF WorkingCopy, Snapshot
  <2> QED
    BY <1>1, <2>1, <2>2, OwnLater
<1>7. \A f \in Fields : local[f] # None => WasTyped(typed[t], f, local[f], remote)
  BY <1>2, <1>5 DEF CopyTyped, WasTyped
<1>8. ~Flying(s.copy)
  BY DEF Flying
<1>9. r.calls["put"] = None /\ r.calls["get"] = None
  BY <1>1, <1>8 DEF TabSound, PutSound, GetSound, NoNewCalls
<1>10. s.attempt # None /\ ~Dead(s.attempt) =>
          s.attempt.expected <= remote.revision /\ (local # NoDiff => Work(s.stored))
  <2> SUFFICES ASSUME s.attempt # None, ~Dead(s.attempt)
      PROVE  s.attempt.expected <= remote.revision /\ (mine.local # NoDiff => Work(s.stored))
    BY <1>2
  <2>1. ShowsSubmission(s)
    BY <1>1 DEF TabSound
  <2>2. CASE s.copy = None
    BY <1>4, <2>2 DEF Work
  <2>3. CASE s.copy # None
    <3>1. s.attempt.expected <= mine.base.revision
      BY <2>1, <2>3 DEF ShowsSubmission
    <3>2. /\ s.attempt.expected \in Nat /\ mine.base.revision \in Nat /\ remote.revision \in Nat
      BY <1>1 DEF Tab, Request, WorkingCopy, Snapshot
    <3>3. mine.local # NoDiff => Work(s.stored)
      BY <1>4, <2>1, <2>3 DEF ShowsSubmission, Work
    <3> QED
      BY <3>1, <3>2, <3>3
  <2> QED
    BY <2>2, <2>3
<1> QED
  BY <1>2, <1>3, <1>6, <1>7, <1>8, <1>9, <1>10, AdoptedTurn

\* A turn that gives a page its first copy.
LEMMA FirstCopyTurn ==
    ASSUME Sound, NEW t \in Tabs, NEW s, s = tab[t], NEW q \in Tab,
           SameBut(q, s, Inner \cup {"copy"}),
           NEW remote \in Snapshot, s.copy = None, q.copy = CleanCopy(remote),
           tab' = [tab EXCEPT ![t] = q],
           UNCHANGED <<history, saved, closed, wire>>, Live(t),
           NoNewAnswers(q, s), NoNewCalls(q, s), q.calls["submit"] = s.calls["submit"],
           q.trusted # None => Had(q.trusted),
           Had(remote), OwnUpTo(t, remote.revision),
           s.attempt # None => s.attempt.expected <= remote.revision,
           ForgetReplaced(t),
           signals' \in [Tabs -> SUBSET Nat],
           budget' \in [edits: Nat, failures: Nat, reloads: Nat, device: Nat]
    PROVE  Sound'
<1>1. s \in Tab /\ TabSound(t, s) /\ TabTyped(typed[t], s) /\ Shaped /\ tab'[t] = q
  BY DEF Sound, Shaped
<1>2. /\ q.copy \in WorkingCopy /\ q.copy.base = remote /\ q.copy.local = NoDiff
      /\ q.copy.post = NoDiff /\ q.copy.frozen = None /\ q.copy # None
  <2>1. NoDiff \in Diff
    BY DEF NoDiff, Diff
  <2>2. /\ CleanCopy(remote) \in WorkingCopy
        /\ CleanCopy(remote).base = remote /\ CleanCopy(remote).local = NoDiff
        /\ CleanCopy(remote).post = NoDiff /\ CleanCopy(remote).frozen = None
    BY <2>1, CleanCopies
  <2> QED
    BY <2>2, Records
<1>3. /\ q.open = s.open /\ q.over = s.over /\ q.attempt = s.attempt /\ q.keys = s.keys
      /\ q.stored = s.stored
  BY DEF SameBut, Parts, Inner
<1>4. CopySound(t, q.copy) /\ CopyTyped(typed[t], q.copy)
  BY <1>2 DEF CopySound, AttemptSound, OwnSaves, CopyTyped, NoDiff
<1>5. TabTyped(typed[t], q)
  BY <1>1, <1>3, <1>4 DEF TabTyped
<1>6. /\ typed' \in [Tabs -> SUBSET Typings] /\ \A x \in Tabs \ {t} : typed'[x] = typed[x]
      /\ TabTyped(typed'[t], q)
  BY <1>1, <1>5, Forgets
<1>7. PutSound(q) /\ GetSound(q)
  BY <1>1 DEF TabSound, PutSound, GetSound, NoNewCalls, Flying
<1>8. ~Flying(s.stored) /\ ~Flying(s.copy)
  BY <1>1 DEF TabSound, PageSound, Live, Flying
<1>9. ShowsSubmission(q)
  BY <1>2, <1>3, <1>8 DEF ShowsSubmission, Work
<1>10. s.keys <= q.keys
  BY <1>1, <1>3 DEF Tab
<1>11. ~Flying(q.copy)
  BY <1>2 DEF Flying
<1> QED
  BY <1>1, <1>2, <1>3, <1>4, <1>6, <1>7, <1>8, <1>9, <1>10, <1>11, Rewritten

\* What the reading of the draft by a page without a copy has brought.
LEMMA FirstReads ==
    ASSUME NEW t \in Tabs, NEW s \in Tab, TabSound(t, s), Live(t), s = tab[t], s.copy = None,
           NEW c \in {"fetch", "query"}, Got(s, c, "ok"), Shaped,
           NEW remote \in Snapshot, s.calls[c].reply.snapshot \in Snapshot,
           s.calls[c].reply.snapshot.revision <= remote.revision
    PROVE  /\ OwnUpTo(t, remote.revision)
           /\ s.stored # None => s.stored.base.revision <= remote.revision
           /\ s.attempt # None => s.attempt.expected <= remote.revision
<1> DEFINE read == s.calls[c].reply.snapshot
<1>1. /\ OwnUpTo(t, read.revision)
      /\ s.stored # None => s.stored.base.revision <= read.revision
      /\ s.attempt # None => s.attempt.expected <= read.revision
  BY DEF TabSound, FirstReadSound, Live
<1>2. read.revision \in Nat /\ remote.revision \in Nat /\ read.revision <= remote.revision
  BY DEF Snapshot
<1> HIDE DEF read
<1>3. OwnUpTo(t, remote.revision)
  BY <1>1, <1>2, OwnLater
<1>4. s.stored # None => s.stored.base.revision \in Nat
  BY DEF Tab, WorkingCopy, Snapshot
<1>5. s.attempt # None => s.attempt.expected \in Nat
  BY DEF Tab, Request
<1> QED
  BY <1>1, <1>2, <1>3, <1>4, <1>5

\* The draft was read again.
LEMMA FetchDoneSound ==
    ASSUME Sound, NEW t \in Tabs, NEW ok \in BOOLEAN, FetchDone(t, ok)
    PROVE  Sound'
<1> DEFINE s == tab[t]
           call == s.calls["fetch"]
           read == [s EXCEPT !.calls["fetch"] = None]
           remote == Latest(read, call.reply.snapshot)
           r == IF Canonical(read, call) THEN Trusting(read, "fetch", remote) ELSE read
           first == CaughtUp([r EXCEPT !.copy = CleanCopy(remote), !.status = "clean",
                                       !.blocked = FALSE])
           later == [r EXCEPT !.pending = IF remote.revision > @ THEN remote.revision ELSE @,
                              !.deferred = TRUE]
           frozen == r.copy # None /\ r.copy.frozen # None
           next == IF ~Canonical(read, call)
                      \/ (r.copy # None /\ ~Progresses(r.copy.base, remote))
                   THEN IF r.copy = None THEN r ELSE Alarmed(r)
                   ELSE IF r.copy = None THEN first
                   ELSE IF frozen THEN later
                   ELSE Reconciled(r, r.copy, remote, ok)
<1>0. "fetch" \in Calls /\ "fetch" \in Reads /\ "submit" \in Calls
  BY DEF Calls, Reads
<1>1. s \in Tab /\ TabSound(t, s) /\ Shaped /\ signals \in [Tabs -> SUBSET Nat]
  BY DEF Sound, Shaped
<1>2. /\ Got(s, "fetch", "ok") /\ Live(t) /\ ForgetReplaced(t) /\ Writes(ok)
      /\ ServerUnchanged /\ UNCHANGED <<wire, signals>>
  BY <1>0, Waiting DEF FetchDone, Answered, Got
<1>3. tab' = [tab EXCEPT ![t] = next]
  BY DEF FetchDone, Become
<1>4. budget' \in [edits: Nat, failures: Nat, reloads: Nat, device: Nat]
  BY <1>1, <1>2, WritesSpend
<1>5. call.reply.snapshot \in Snapshot /\ Had(call.reply.snapshot)
  BY <1>0, <1>1, <1>2, Answers DEF TabSound
<1>6. /\ read \in Tab /\ SameBut(read, s, {"calls"}) /\ read.calls["fetch"] = None
      /\ \A d \in Calls \ {"fetch"} : read.calls[d] = s.calls[d]
  BY <1>0, <1>1, OverTab
<1>7. read.trusted = s.trusted /\ (s.trusted # None => Had(s.trusted))
  BY <1>1, <1>6 DEF SameBut, Parts, TabSound
<1> HIDE DEF s, call, read
<1>8. /\ remote \in Snapshot /\ Had(remote)
      /\ call.reply.snapshot.revision <= remote.revision
  BY <1>5, <1>6, <1>7, LatestHad
<1> HIDE DEF remote
<1>9. /\ r \in Tab /\ SameBut(r, s, {"trusted", "alarm", "calls"})
      /\ r.trusted # None => Had(r.trusted)
      /\ r.calls["fetch"] = None /\ \A d \in Calls \ {"fetch"} : r.calls[d] = s.calls[d]
  <2>1. CASE Canonical(read, call)
    <3> DEFINE x == Trusting(read, "fetch", remote)
    <3>1. /\ x \in Tab /\ SameBut(x, read, {"trusted", "alarm", "calls"})
          /\ x.trusted = remote /\ x.calls["fetch"] = None
          /\ \A d \in Calls \ {"fetch"} : x.calls[d] = read.calls[d]
      BY <1>0, <1>6, <1>8, TrustingTab
    <3>2. r = x
      BY <2>1
    <3> HIDE DEF r, x
    <3> QED
      BY <1>6, <1>8, <3>1, <3>2 DEF SameBut, Parts
  <2>2. CASE ~Canonical(read, call)
    <3>1. r = read
      BY <2>2
    <3> HIDE DEF r
    <3> QED
      BY <1>6, <1>7, <3>1 DEF SameBut, Parts
  <2> QED
    BY <2>1, <2>2
<1> HIDE DEF r
<1>10. /\ SameBut(r, s, Inner) /\ NoNewAnswers(r, s) /\ NoNewCalls(r, s)
       /\ r.copy = s.copy /\ r.calls["submit"] = s.calls["submit"]
  BY <1>0, <1>9 DEF SameBut, Parts, Inner, NoNewAnswers, NoNewCalls, Calls
<1>11. ASSUME NEW q \in Tab, SameBut(q, r, Inner \ {"trusted", "calls"}),
              tab' = [tab EXCEPT ![t] = q]
       PROVE  Sound'
  <2>1. SameBut(q, s, Inner) /\ NoNewAnswers(q, s) /\ NoNewCalls(q, s) /\ q.trusted = r.trusted
    BY <1>10, <1>11 DEF SameBut, Parts, Inner, NoNewAnswers, NoNewCalls
  <2>2. PutSound(q) /\ GetSound(q) /\ SubmitSound(q)
    BY <1>1, <2>1, OldCalls DEF TabSound
  <2> QED
    BY <1>1, <1>2, <1>4, <1>9, <1>11, <2>1, <2>2, Idle DEF ServerUnchanged, s
<1>12. CASE next = r
  BY <1>3, <1>9, <1>11, <1>12 DEF SameBut
<1>13. CASE next = Alarmed(r)
  <2>1. Alarmed(r) \in Tab /\ SameBut(Alarmed(r), r, Inner \ {"trusted", "calls"})
    BY <1>9, AlarmedTab DEF SameBut, Parts, Inner
  <2> QED
    BY <1>3, <1>11, <1>13, <2>1
<1>14. CASE next = later
  <2>1. later \in Tab /\ SameBut(later, r, Inner \ {"trusted", "calls"})
    BY <1>8, <1>9 DEF Tab, SameBut, Parts, Inner, Snapshot
  <2> HIDE DEF next, later
  <2> QED
    BY <1>3, <1>11, <1>14, <2>1
<1>15. CASE r.copy = None /\ next = first
  <2> DEFINE x == [r EXCEPT !.copy = CleanCopy(remote), !.status = "clean", !.blocked = FALSE]
  <2>1. CleanCopy(remote) \in WorkingCopy
    <3>1. NoDiff \in Diff
      BY DEF NoDiff, Diff
    <3> QED
      BY <1>8, <3>1, CleanCopies
  <2>2. x \in Tab /\ x.copy = CleanCopy(remote) /\ SameBut(x, r, {"copy", "status", "blocked"})
    BY <1>9, <2>1 DEF Tab, SameBut, Parts
  <2>3. first = CaughtUp(x)
    OBVIOUS
  <2> HIDE DEF x, next, first
  <2>4. first \in Tab /\ SameBut(first, x, {"pending", "deferred"})
    BY <2>2, <2>3, CaughtUpTab
  <2>5. /\ first.copy = CleanCopy(remote) /\ SameBut(first, s, Inner \cup {"copy"})
        /\ first.calls = r.calls /\ first.trusted = r.trusted
    BY <1>9, <2>2, <2>4 DEF SameBut, Parts, Inner
  <2>6. NoNewAnswers(first, s) /\ NoNewCalls(first, s) /\ first.calls["submit"] = s.calls["submit"]
    BY <1>10, <2>5 DEF NoNewAnswers, NoNewCalls
  <2>7. OwnUpTo(t, remote.revision) /\ (s.attempt # None => s.attempt.expected <= remote.revision)
    BY <1>1, <1>2, <1>5, <1>8, <1>10, <1>15, FirstReads DEF s, call
  <2>8. s.copy = None
    BY <1>10, <1>15
  <2> QED
    BY <1>1, <1>2, <1>3, <1>4, <1>8, <1>9, <1>15, <2>4, <2>5, <2>6, <2>7, <2>8, FirstCopyTurn
    DEF ServerUnchanged, s
<1>16. CASE /\ r.copy # None /\ r.copy.frozen = None /\ Progresses(r.copy.base, remote)
            /\ next = Reconciled(r, r.copy, remote, ok)
  <2>1. r.copy \in WorkingCopy /\ r.copy.base.revision <= remote.revision
    BY <1>8, <1>9, <1>16 DEF Tab, Progresses, WorkingCopy, Snapshot
  <2> HIDE DEF next
  <2> QED
    BY <1>1, <1>2, <1>3, <1>4, <1>8, <1>9, <1>10, <1>16, <2>1, ReconciledTurn
    DEF ServerUnchanged, s
<1>17. \/ next \in {r, Alarmed(r), later}
       \/ r.copy = None /\ next = first
       \/ /\ r.copy # None /\ r.copy.frozen = None /\ Progresses(r.copy.base, remote)
          /\ next = Reconciled(r, r.copy, remote, ok)
  <2> HIDE DEF first, later
  <2> QED
    OBVIOUS
<1> QED
  BY <1>12, <1>13, <1>14, <1>15, <1>16, <1>17

\* Of two drafts the server had, a later one may follow an earlier one.
LEMMA HadProgresses ==
    ASSUME NEW old \in Snapshot, NEW new \in Snapshot, Had(old), Had(new),
           old.revision <= new.revision
    PROVE  Progresses(old, new)
BY DEF Had, Progresses, Snapshot

\* The query of the draft was answered.
LEMMA QueryDoneSound ==
    ASSUME Sound, NEW t \in Tabs, NEW ok \in BOOLEAN, QueryDone(t, ok)
    PROVE  Sound'
<1> DEFINE s == tab[t]
           r == [s EXCEPT !.calls["query"] = None]
           remote == s.calls["query"].reply.snapshot
           mine == IF r.copy = None THEN r.stored ELSE r.copy
           x == [r EXCEPT !.copy = CleanCopy(remote), !.alarm = FALSE, !.blocked = FALSE]
           first == CaughtUp(x)
           shown == [r EXCEPT !.copy = mine]
           calm == [r EXCEPT !.alarm = r.copy # None /\ @]
           next == IF mine = None THEN first
                   ELSE IF mine.frozen # None THEN r
                   ELSE IF ~Progresses(mine.base, remote) THEN Alarmed(shown)
                   ELSE IF r.copy = None \/ remote.revision > mine.base.revision
                   THEN Reconciled(calm, mine, remote, ok)
                   ELSE r
<1>0. "query" \in Calls /\ "query" \in Reads /\ "submit" \in Calls
  BY DEF Calls, Reads
<1>1. s \in Tab /\ TabSound(t, s) /\ Shaped /\ signals \in [Tabs -> SUBSET Nat]
  BY DEF Sound, Shaped
<1>2. /\ Got(s, "query", "ok") /\ Live(t) /\ ForgetReplaced(t) /\ Writes(ok)
      /\ ServerUnchanged /\ UNCHANGED <<wire, signals>>
  BY <1>0, Waiting DEF QueryDone, Answered, Got
<1>3. tab' = [tab EXCEPT ![t] = next]
  BY DEF QueryDone, Become
<1>4. budget' \in [edits: Nat, failures: Nat, reloads: Nat, device: Nat]
  BY <1>1, <1>2, WritesSpend
<1>5. remote \in Snapshot /\ Had(remote) /\ remote.revision <= remote.revision
  <2>1. remote \in Snapshot /\ Had(remote)
    BY <1>0, <1>1, <1>2, Answers DEF TabSound
  <2> QED
    BY <2>1 DEF Snapshot
<1>6. /\ r \in Tab /\ SameBut(r, s, {"calls"}) /\ r.calls["query"] = None
      /\ \A d \in Calls \ {"query"} : r.calls[d] = s.calls[d]
  BY <1>0, <1>1, OverTab
<1>7. s.copy = None =>
         /\ OwnUpTo(t, remote.revision)
         /\ s.stored # None => s.stored.base.revision <= remote.revision
         /\ s.attempt # None => s.attempt.expected <= remote.revision
  BY <1>1, <1>2, <1>5, FirstReads
<1> HIDE DEF s, r, remote
<1>8. /\ SameBut(r, s, Inner) /\ NoNewAnswers(r, s) /\ NoNewCalls(r, s)
      /\ r.copy = s.copy /\ r.stored = s.stored /\ r.trusted = s.trusted
      /\ r.calls["submit"] = s.calls["submit"]
  BY <1>0, <1>6 DEF SameBut, Parts, Inner, NoNewAnswers, NoNewCalls, Calls
<1>9. s.trusted # None => Had(s.trusted)
  BY <1>1 DEF TabSound
<1>10. ASSUME NEW q \in Tab, SameBut(q, r, {"alarm", "blocked", "status"}),
              tab' = [tab EXCEPT ![t] = q]
       PROVE  Sound'
  <2>1. SameBut(q, s, Inner) /\ NoNewAnswers(q, s) /\ NoNewCalls(q, s) /\ q.trusted = s.trusted
    BY <1>8, <1>10 DEF SameBut, Parts, Inner, NoNewAnswers, NoNewCalls
  <2>2. PutSound(q) /\ GetSound(q) /\ SubmitSound(q)
    BY <1>1, <2>1, OldCalls DEF TabSound
  <2> QED
    BY <1>1, <1>2, <1>4, <1>9, <1>10, <2>1, <2>2, Idle DEF ServerUnchanged, s
<1>11. CASE next = r
  BY <1>3, <1>6, <1>10, <1>11 DEF SameBut
<1>12. CASE mine = None
  <2>1. CleanCopy(remote) \in WorkingCopy
    <3>1. NoDiff \in Diff
      BY DEF NoDiff, Diff
    <3> QED
      BY <1>5, <3>1, CleanCopies
  <2>2. x \in Tab /\ x.copy = CleanCopy(remote) /\ SameBut(x, r, {"copy", "alarm", "blocked"})
    BY <1>6, <2>1 DEF Tab, SameBut, Parts
  <2>3. next = first
    BY <1>12
  <2>4. s.copy = None
    BY <1>8, <1>12
  <2> HIDE DEF x, next
  <2>5. first \in Tab /\ SameBut(first, x, {"pending", "deferred"})
    BY <2>2, CaughtUpTab
  <2> HIDE DEF first
  <2>6. /\ first.copy = CleanCopy(remote) /\ SameBut(first, s, Inner \cup {"copy"})
        /\ first.calls = r.calls /\ first.trusted = s.trusted
    BY <1>8, <2>2, <2>5 DEF SameBut, Parts, Inner
  <2>7. NoNewAnswers(first, s) /\ NoNewCalls(first, s) /\ first.calls["submit"] = s.calls["submit"]
    BY <1>8, <2>6 DEF NoNewAnswers, NoNewCalls
  <2> QED
    BY <1>1, <1>2, <1>3, <1>4, <1>5, <1>7, <1>9, <2>3, <2>4, <2>5, <2>6, <2>7, FirstCopyTurn
    DEF ServerUnchanged, s
<1>13. CASE mine # None /\ mine.frozen = None /\ ~Progresses(mine.base, remote)
            /\ next = Alarmed(shown)
  <2>1. mine \in WorkingCopy /\ mine \in {s.copy, s.stored}
    BY <1>6, <1>8, <1>13 DEF Tab
  <2>2. CopySound(t, mine)
    BY <1>1, <1>13, <2>1 DEF TabSound
  <2>3. mine.base \in Snapshot /\ Had(mine.base)
    BY <2>1, <2>2 DEF WorkingCopy, CopySound
  <2>4. s.copy # None
    BY <1>5, <1>7, <1>8, <1>13, <2>3, HadProgresses
  <2>5. mine = r.copy
    BY <1>8, <2>4
  <2>6. shown \in Tab /\ SameBut(shown, r, {})
    BY <1>6, <2>1, <2>5 DEF Tab, SameBut, Parts
  <2>7. Alarmed(shown) \in Tab /\ SameBut(Alarmed(shown), shown, {"alarm", "blocked", "status"})
    BY <2>6, AlarmedTab
  <2> HIDE DEF shown, next, mine
  <2>8. SameBut(Alarmed(shown), r, {"alarm", "blocked", "status"})
    BY <2>6, <2>7 DEF SameBut, Parts
  <2> QED
    BY <1>3, <1>10, <1>13, <2>7, <2>8
<1>14. CASE mine # None /\ mine.frozen = None /\ Progresses(mine.base, remote)
            /\ next = Reconciled(calm, mine, remote, ok)
  <2>1. mine \in WorkingCopy /\ mine = IF s.copy = None THEN s.stored ELSE s.copy
    BY <1>6, <1>8, <1>14 DEF Tab
  <2>2. calm \in Tab /\ SameBut(calm, r, {"alarm"})
    <3> DEFINE b == r.copy # None /\ r.alarm
    <3>1. b \in BOOLEAN /\ calm = [r EXCEPT !.alarm = b]
      BY <1>6
    <3> HIDE DEF b, calm
    <3> QED
      BY <1>6, <3>1 DEF Tab, SameBut, Parts
  <2>3. mine.base.revision <= remote.revision
    BY <1>5, <1>14, <2>1 DEF Progresses, WorkingCopy, Snapshot
  <2> HIDE DEF calm, next, mine
  <2>4. /\ SameBut(calm, s, Inner) /\ NoNewAnswers(calm, s) /\ NoNewCalls(calm, s)
        /\ calm.calls = r.calls /\ calm.trusted = s.trusted
    BY <1>8, <2>2 DEF SameBut, Parts, Inner, NoNewAnswers, NoNewCalls
  <2> QED
    BY <1>1, <1>2, <1>3, <1>4, <1>5, <1>7, <1>8, <1>9, <1>14, <2>1, <2>2, <2>3, <2>4,
       ReconciledTurn DEF ServerUnchanged, s
<1>15. \/ mine = None
       \/ next = r
       \/ /\ mine # None /\ mine.frozen = None /\ ~Progresses(mine.base, remote)
          /\ next = Alarmed(shown)
       \/ /\ mine # None /\ mine.frozen = None /\ Progresses(mine.base, remote)
          /\ next = Reconciled(calm, mine, remote, ok)
  <2> HIDE DEF mine, shown, calm, first
  <2> QED
    OBVIOUS
<1> QED
  BY <1>11, <1>12, <1>13, <1>14, <1>15

\* A tab that lets its work go, for the session is over.
LEMMA EndedTurn ==
    ASSUME Sound, NEW t \in Tabs, closed, NEW r \in Tab, r.keys = tab[t].keys,
           tab' = [tab EXCEPT ![t] = Ended(r)],
           UNCHANGED <<history, saved, closed, wire, typed, budget>>,
           signals' \in [Tabs -> SUBSET Nat]
    PROVE  Sound'
<1> DEFINE q == Ended(r)
<1>1. Shaped /\ tab[t] \in Tab /\ \A m \in wire : WireSound(m, tab[m.key[1]])
  BY DEF Sound, Shaped
<1>2. /\ q \in Tab /\ q.over /\ q.keys = tab[t].keys
      /\ q.copy = None /\ q.stored = None /\ q.attempt = None
      /\ q.trusted = None /\ q.calls = NoCalls
  BY EndedTab
<1>3. tab' = [tab EXCEPT ![t] = q]
  OBVIOUS
<1> HIDE DEF q
<1>4. \A c \in Calls : q.calls[c] = None
  BY <1>2 DEF NoCalls
<1>5. TabSound(t, q)
  <2>1. RepliesSound(q) /\ PutSound(q) /\ GetSound(q) /\ SubmitSound(q)
    BY <1>4 DEF RepliesSound, PutSound, GetSound, SubmitSound, Got, Calls
  <2>2. PageSound(q) /\ FirstReadSound(t, q) /\ SubmissionSound(t, q)
    BY <1>2 DEF PageSound, FirstReadSound, SubmissionSound
  <2>3. ShowsSubmission(q) /\ KeysDrawn(q)
    BY <1>2 DEF ShowsSubmission, KeysDrawn, Flying
  <2> QED
    BY <1>2, <2>1, <2>2, <2>3 DEF TabSound
<1>6. TabTyped(typed'[t], q)
  BY <1>2 DEF TabTyped
<1>7. ASSUME NEW m \in wire, m.key[1] = t PROVE WireSound(m, q)
  BY <1>1, <1>2, <1>7 DEF WireSound, Dead, Flying
<1>8. tab[t].keys <= q.keys
  BY <1>1, <1>2 DEF Tab
<1> QED
  BY <1>1, <1>2, <1>3, <1>5, <1>6, <1>7, <1>8, Turn DEF Shaped

\* A page that comes or goes, with what the storage has: nothing is under way but the first
\* reading of the draft.
LEMMA PageTurn ==
    ASSUME Sound, NEW t \in Tabs, NEW s, s = tab[t], NEW q \in Tab, tab' = [tab EXCEPT ![t] = q],
           UNCHANGED <<history, saved, closed, wire, typed>>,
           ~q.over, q.copy = None, q.stored = s.stored, q.attempt = s.attempt, q.keys = s.keys,
           q.trusted \in {s.trusted, None},
           q.open => ~Flying(s.stored), ~q.open => q.calls = NoCalls,
           \A c \in {"put", "get", "submit"} : q.calls[c] = None,
           \A c \in Calls : q.calls[c] # None => q.calls[c].reply = None,
           signals' \in [Tabs -> SUBSET Nat],
           budget' \in [edits: Nat, failures: Nat, reloads: Nat, device: Nat]
    PROVE  Sound'
<1>1. Shaped /\ s \in Tab /\ TabSound(t, s) /\ TabTyped(typed[t], s)
      /\ \A m \in wire : WireSound(m, tab[m.key[1]])
  BY DEF Sound, Shaped
<1>2. \A c \in Calls : \A kind : ~Got(q, c, kind)
  BY DEF Got
<1>3. TabSound(t, q)
  <2>1. RepliesSound(q) /\ PutSound(q) /\ GetSound(q) /\ SubmitSound(q)
    BY <1>2 DEF RepliesSound, PutSound, GetSound, SubmitSound
  <2>2. PageSound(q)
    BY DEF PageSound
  <2>3. FirstReadSound(t, q)
    BY <1>2 DEF FirstReadSound, Calls
  <2>4. SubmissionSound(t, q)
    BY <1>1 DEF TabSound, SubmissionSound, Flying
  <2>5. ShowsSubmission(q)
    BY <1>1 DEF TabSound, ShowsSubmission
  <2>6. KeysDrawn(q)
    BY <1>1 DEF TabSound, KeysDrawn, Flying
  <2>7. /\ \A c \in {q.copy, q.stored} : c # None => CopySound(t, c)
        /\ q.trusted # None => Had(q.trusted)
    BY <1>1 DEF TabSound
  <2> QED
    BY <2>1, <2>2, <2>3, <2>4, <2>5, <2>6, <2>7 DEF TabSound
<1>4. TabTyped(typed'[t], q)
  BY <1>1 DEF TabTyped
<1>5. ASSUME NEW m \in wire, m.key[1] = t PROVE WireSound(m, q)
  BY <1>1, <1>5 DEF WireSound, Remembered, Flying
<1>6. tab[t].keys <= q.keys
  BY <1>1 DEF Tab
<1> QED
  BY <1>1, <1>3, <1>4, <1>5, <1>6, Turn DEF Shaped

\* A page goes away: what it stored is what can still be accepted.
LEMMA ReloadSound ==
    ASSUME Sound, NEW t \in Tabs, Reload(t)
    PROVE  Sound'
<1> DEFINE s == tab[t]
           q == [NewTab EXCEPT !.stored = s.stored, !.attempt = s.attempt, !.keys = s.keys]
<1>1. s \in Tab /\ Shaped /\ signals \in [Tabs -> SUBSET Nat]
  BY DEF Sound, Shaped
<1>2. budget' \in [edits: Nat, failures: Nat, reloads: Nat, device: Nat]
  BY <1>1, Spends DEF Reload
<1>3. /\ tab' = [tab EXCEPT ![t] = q] /\ signals' = [signals EXCEPT ![t] = {}]
      /\ ServerUnchanged /\ UNCHANGED <<wire, typed>>
  BY DEF Reload, Become
<1>4. signals' \in [Tabs -> SUBSET Nat]
  BY <1>1, <1>3
<1> HIDE DEF s
<1>5. /\ q \in Tab /\ ~q.over /\ ~q.open /\ q.copy = None /\ q.stored = s.stored
      /\ q.attempt = s.attempt /\ q.keys = s.keys /\ q.trusted = None /\ q.calls = NoCalls
  BY <1>1, NewTabs DEF Tab, NewTab
<1>6. \A c \in Calls : q.calls[c] = None
  BY <1>5 DEF NoCalls
<1> HIDE DEF q
<1>7. \A c \in {"put", "get", "submit"} : q.calls[c] = None
  BY <1>6 DEF Calls
<1> QED
  BY <1>2, <1>3, <1>4, <1>5, <1>6, <1>7, PageTurn DEF s, ServerUnchanged

\* A page is opened, and sends the attempt it finds in the storage.
LEMMA OpenSound ==
    ASSUME Sound, NEW t \in Tabs, Open(t)
    PROVE  Sound'
<1> DEFINE s == tab[t]
           r == [s EXCEPT !.open = TRUE]
<1>1. /\ s \in Tab /\ TabSound(t, s) /\ TabTyped(typed[t], s) /\ Shaped
      /\ signals \in [Tabs -> SUBSET Nat] /\ typed \in [Tabs -> SUBSET Typings]
      /\ budget \in [edits: Nat, failures: Nat, reloads: Nat, device: Nat]
  BY DEF Sound, Shaped
<1>2. ~s.open /\ ServerUnchanged /\ UNCHANGED <<signals, typed, budget>>
  BY DEF Open
<1>3. /\ s.copy = None /\ s.calls = NoCalls /\ (s.over => closed)
  BY <1>1, <1>2 DEF TabSound, PageSound
<1>4. \/ closed /\ tab' = [tab EXCEPT ![t] = Ended(r)] /\ UNCHANGED wire
      \/ /\ ~closed /\ Flying(r.stored)
         /\ tab' = [tab EXCEPT ![t] =
                       Dispatched([r EXCEPT !.copy = r.stored, !.status = "saving"], r.stored)]
         /\ wire' = wire \cup Puts(r.stored)
      \/ /\ ~closed /\ ~Flying(r.stored)
         /\ tab' = [tab EXCEPT ![t] = [r EXCEPT !.calls["query"] = Sent(None)]]
         /\ UNCHANGED wire
  BY DEF Open, Become, Flying
<1> HIDE DEF s
<1>5. r \in Tab /\ r.open /\ SameBut(r, s, {"open"})
  BY <1>1 DEF Tab, SameBut, Parts
<1> HIDE DEF r
<1>6. /\ r.copy = None /\ r.calls = NoCalls /\ r.stored = s.stored /\ r.over = s.over
      /\ r.attempt = s.attempt /\ r.keys = s.keys /\ r.trusted = s.trusted
  BY <1>3, <1>5 DEF SameBut, Parts
<1>7. \A c \in Calls : r.calls[c] = None
  BY <1>6 DEF NoCalls
<1>8. CASE closed /\ tab' = [tab EXCEPT ![t] = Ended(r)] /\ UNCHANGED wire
  BY <1>1, <1>2, <1>5, <1>6, <1>8, EndedTurn DEF s, ServerUnchanged
<1>9. CASE /\ ~closed /\ ~Flying(r.stored)
           /\ tab' = [tab EXCEPT ![t] = [r EXCEPT !.calls["query"] = Sent(None)]]
           /\ UNCHANGED wire
  <2> DEFINE q == [r EXCEPT !.calls["query"] = Sent(None)]
  <2>1. Sent(None) \in Call /\ Sent(None).reply = None /\ "query" \in Calls
    BY SentCall DEF Calls
  <2>2. /\ q \in Tab /\ SameBut(q, r, {"calls"}) /\ q.calls["query"] = Sent(None)
        /\ \A c \in Calls \ {"query"} : q.calls[c] = None
    BY <1>5, <1>7, <2>1 DEF Tab, SameBut, Parts
  <2> HIDE DEF q
  <2>3. /\ q.open /\ ~q.over /\ q.copy = None /\ q.stored = s.stored
        /\ q.attempt = s.attempt /\ q.keys = s.keys /\ q.trusted = s.trusted
    BY <1>3, <1>5, <1>6, <1>9, <2>2 DEF SameBut, Parts
  <2>4. \A c \in {"put", "get", "submit"} : q.calls[c] = None
    BY <2>2 DEF Calls
  <2>5. \A c \in Calls : q.calls[c] # None => q.calls[c].reply = None
    BY <2>1, <2>2
  <2> QED
    BY <1>1, <1>2, <1>6, <1>9, <2>2, <2>3, <2>4, <2>5, PageTurn DEF s, q, ServerUnchanged
<1>10. CASE /\ ~closed /\ Flying(r.stored)
            /\ tab' = [tab EXCEPT ![t] =
                          Dispatched([r EXCEPT !.copy = r.stored, !.status = "saving"], r.stored)]
            /\ wire' = wire \cup Puts(r.stored)
  <2> DEFINE shown == [r EXCEPT !.copy = r.stored, !.status = "saving"]
             q == Dispatched(shown, r.stored)
             copy == s.stored
  <2>0. "put" \in Calls /\ "get" \in Calls /\ "submit" \in Calls
    BY DEF Calls
  <2>1. /\ copy \in WorkingCopy /\ copy.frozen # None /\ CopySound(t, copy)
        /\ Flying(copy) /\ copy # None /\ Work(copy) /\ copy.base \in Snapshot
    BY <1>1, <1>6, <1>10 DEF Tab, Flying, TabSound, Work, WorkingCopy
  <2>2. /\ shown \in Tab /\ SameBut(shown, r, {"copy", "status"}) /\ shown.copy = copy
    BY <1>5, <1>6, <2>1 DEF Tab, SameBut, Parts
  <2> HIDE DEF shown
  <2>3. /\ q \in Tab /\ SameBut(q, shown, {"calls"})
        /\ copy.frozen.rejected =>
              /\ q.calls["get"] = Sent(copy.base)
              /\ q.calls["query"] = None
              /\ \A c \in Calls \ {"get", "query"} : q.calls[c] = shown.calls[c]
        /\ ~copy.frozen.rejected =>
              /\ q.calls["put"] = Sent(None)
              /\ \A c \in Calls \ {"put"} : q.calls[c] = shown.calls[c]
    BY <1>6, <2>1, <2>2, DispatchedTab
  <2>4. tab' = [tab EXCEPT ![t] = q]
    BY <1>10 DEF shown
  <2> HIDE DEF q
  <2>5. /\ q.open /\ ~q.over /\ q.copy = copy /\ q.stored = copy
        /\ q.attempt = s.attempt /\ q.keys = s.keys /\ q.trusted = s.trusted
    BY <1>3, <1>5, <1>6, <1>10, <2>2, <2>3 DEF SameBut, Parts
  <2>6. \A c \in Calls : shown.calls[c] = None
    BY <1>7, <2>2 DEF SameBut, Parts
  <2>7. Sent(copy.base).reply = None /\ Sent(copy.base).boundary = copy.base
        /\ Sent(None).reply = None
    BY <2>1, SentCall
  <2>8. NoNewAnswers(q, s)
    BY <2>3, <2>6, <2>7 DEF NoNewAnswers
  <2>9. PutSound(q) /\ GetSound(q) /\ q.calls["submit"] = s.calls["submit"]
    <3>1. q.calls["submit"] = None
      BY <2>0, <2>3, <2>6
    <3>2. s.calls["submit"] = None
      BY <1>3, <2>0 DEF NoCalls
    <3>3. CASE copy.frozen.rejected
      BY <2>0, <2>1, <2>3, <2>5, <2>6, <2>7, <3>1, <3>2, <3>3 DEF PutSound, GetSound
    <3>4. CASE ~copy.frozen.rejected
      BY <2>0, <2>1, <2>3, <2>5, <2>6, <2>7, <3>1, <3>2, <3>4 DEF PutSound, GetSound, Got
    <3> QED
      BY <3>3, <3>4
  <2>10. ShowsSubmission(q)
    <3>1. ShowsSubmission(s)
      BY <1>1 DEF TabSound
    <3> QED
      BY <2>1, <2>5, <3>1 DEF ShowsSubmission
  <2>11. TabTyped(typed'[t], q)
    BY <1>1, <1>2, <2>5 DEF TabTyped
  <2>12. q.trusted # None => Had(q.trusted)
    BY <1>1, <2>5 DEF TabSound
  <2>13. \/ wire' = wire
         \/ Flying(q.copy) /\ q.stored = q.copy /\ wire' = wire \cup {Message(q.copy)}
    BY <1>6, <1>10, <2>1, <2>5 DEF Puts, Message
  <2>14. ~Flying(s.copy)
    BY <1>3 DEF Flying
  <2>15. s.keys <= q.keys
    BY <1>1, <2>5 DEF Tab
  <2>16. \E d \in {s.copy, s.stored} : Flying(d) /\ Message(q.copy) = Message(d)
    BY <2>1, <2>5
  <2> HIDE DEF copy
  <2>17. q.copy # None /\ CopySound(t, q.copy) /\ q.stored \in {q.copy, s.stored, None}
         /\ Work(q.copy) /\ q.copy = s.stored /\ q.stored = s.stored
    BY <2>1, <2>5 DEF copy
  <2> QED
    BY <1>1, <1>2, <2>3, <2>4, <2>5, <2>8, <2>9, <2>10, <2>11, <2>12, <2>13, <2>14, <2>15,
       <2>16, <2>17, CopyTurn DEF s, ServerUnchanged
<1> QED
  BY <1>4, <1>8, <1>9, <1>10

\* A tab learns that the session is over.
LEMMA SessionOverSound ==
    ASSUME Sound, NEW t \in Tabs, NEW c \in Calls, SessionOver(t, c)
    PROVE  Sound'
<1>1. tab[t] \in Tab /\ TabSound(t, tab[t]) /\ signals \in [Tabs -> SUBSET Nat]
  BY DEF Sound, Shaped
<1>2. closed
  BY <1>1 DEF SessionOver, Answered, TabSound, RepliesSound, Got
<1>3. signals' \in [Tabs -> SUBSET Nat]
  BY <1>1 DEF SessionOver
<1> QED
  BY <1>1, <1>2, <1>3, EndedTurn DEF SessionOver, Become, ServerUnchanged

\* A tab learns that its submission was accepted.
LEMMA SubmitDoneSound ==
    ASSUME Sound, NEW t \in Tabs, SubmitDone(t)
    PROVE  Sound'
<1>1. tab[t] \in Tab /\ TabSound(t, tab[t]) /\ signals \in [Tabs -> SUBSET Nat]
  BY DEF Sound, Shaped
<1>2. closed
  BY <1>1 DEF SubmitDone, Answered, TabSound, SubmitSound, Got
<1>3. signals' \in [Tabs -> SUBSET Nat]
  BY <1>1 DEF SubmitDone
<1> QED
  BY <1>1, <1>2, <1>3, EndedTurn DEF SubmitDone, Become, ServerUnchanged

\* A turn that changes the submission attempt and leaves the copies: an attempt is made under
\* the key just drawn and of what the copy shows, or given up when it is dead.
LEMMA AttemptTurn ==
    ASSUME Sound, NEW t \in Tabs, NEW s, s = tab[t], NEW q \in Tab, tab' = [tab EXCEPT ![t] = q],
           UNCHANGED <<history, saved, closed, typed>>, Live(t),
           SameBut(q, s, Inner \cup {"attempt", "keys"}),
           NoNewAnswers(q, s), q.trusted = s.trusted, s.keys <= q.keys,
           \A c \in {"put", "get"} : q.calls[c] \in {s.calls[c], None},
           SubmitSound(q), SubmissionSound(t, q), ShowsSubmission(q),
           \/ q.attempt = s.attempt
           \/ q.attempt = None /\ (s.attempt # None => Dead(s.attempt))
           \/ s.attempt = None /\ s.copy # None /\ q.attempt.key = <<t, s.keys>>,
           \/ wire' = wire
           \/ q.attempt # None /\ wire' = wire \cup {q.attempt},
           signals' \in [Tabs -> SUBSET Nat], UNCHANGED budget
    PROVE  Sound'
<1>1. Shaped /\ s \in Tab /\ TabSound(t, s) /\ TabTyped(typed[t], s) /\ wire \subseteq Request
      /\ \A m \in wire : WireSound(m, tab[m.key[1]])
  BY DEF Sound, Shaped
<1>2. /\ q.open = s.open /\ q.over = s.over /\ q.copy = s.copy /\ q.stored = s.stored
  BY DEF SameBut, Parts, Inner
<1>3. s.keys \in Nat /\ q.keys \in Nat /\ q.attempt \in Request \cup {None}
      /\ s.attempt \in Request \cup {None}
  BY <1>1 DEF Tab
<1>4. \A c \in Calls : \A kind : Got(q, c, kind) => Got(s, c, kind) /\ q.calls[c] = s.calls[c]
  BY DEF NoNewAnswers, Got
<1>5. RepliesSound(q)
  BY <1>1, <1>4 DEF RepliesSound, TabSound
<1>6. PutSound(q)
  BY <1>1, <1>2 DEF TabSound, PutSound, Got
<1>7. GetSound(q)
  BY <1>1, <1>2 DEF TabSound, GetSound
<1>8. PageSound(q)
  BY <1>1, <1>2 DEF TabSound, PageSound, Live
<1>9. FirstReadSound(t, q)
  <2>1. {"fetch", "query"} \subseteq Calls
    BY DEF Calls
  <2>2. FirstReadSound(t, s)
    BY <1>1 DEF TabSound
  <2>3. \A c \in {"fetch", "query"} :
           Got(q, c, "ok") => Got(s, c, "ok") /\ q.calls[c] = s.calls[c]
    BY <1>4, <2>1
  <2> QED
    BY <1>2, <2>2, <2>3 DEF FirstReadSound
<1>10. \A c \in {s.copy, s.stored} : Flying(c) => c.frozen.key \in Keys /\ c.frozen.key[2] < s.keys
  <2>1. \A c \in {s.copy, s.stored} : c \in WorkingCopy \cup {None}
    BY <1>1 DEF Tab
  <2> QED
    BY <1>1, <2>1, Messages DEF TabSound, KeysDrawn, Flying
<1>11. KeysDrawn(q)
  BY <1>2, <1>3, <1>10 DEF KeysDrawn, Keys
<1>12. TabSound(t, q)
  BY <1>1, <1>2, <1>5, <1>6, <1>7, <1>8, <1>9, <1>11 DEF TabSound
<1>13. ASSUME NEW m \in wire, m.key[1] = t PROVE WireSound(m, q)
  <2>1. WireSound(m, s) /\ m \in Request
    BY <1>1, <1>13
  <2>2. m.key \in Keys /\ m.key[2] < s.keys /\ m.key[2] \in Nat
    BY <2>1 DEF WireSound, Request, Keys
  <2>3. m.key[2] < q.keys
    BY <1>3, <2>2
  <2>4. q.attempt # None /\ q.attempt.key = m.key => q.attempt = m
    BY <1>3, <2>1, <2>2 DEF WireSound
  <2>5. ASSUME ~Dead(m) PROVE Remembered(m, q)
    <3>1. Remembered(m, s)
      BY <2>1, <2>5 DEF WireSound
    <3>2. CASE m.final
      <4>1. s.attempt = m /\ m # None
        BY <2>1, <3>1, <3>2, Records DEF Remembered
      <4> QED
        BY <2>5, <3>2, <4>1 DEF Remembered
    <3>3. CASE ~m.final
      BY <1>2, <3>1, <3>3 DEF Remembered
    <3> QED
      BY <3>2, <3>3
  <2> QED
    BY <1>2, <2>1, <2>3, <2>4, <2>5 DEF WireSound
<1>14. ASSUME q.attempt # None
       PROVE  q.attempt \in Request /\ q.attempt.key[1] = t /\ WireSound(q.attempt, q)
  <2>1. /\ q.attempt.final /\ q.attempt.key[1] = t /\ q.attempt.key[2] < q.keys
        /\ q.attempt.expected <= Revision
        /\ history[q.attempt.expected + 1].content = q.attempt.content
        /\ Done(q.attempt.key) => closed
        /\ \A c \in {q.copy, q.stored} : Flying(c) => c.frozen.key # q.attempt.key
    BY <1>14 DEF SubmissionSound
  <2> QED
    BY <1>3, <1>14, <2>1 DEF WireSound, Remembered
<1>15. wire' \subseteq Request
  BY <1>1, <1>14
<1>16. \A m \in wire' : (m \in wire /\ m.key[1] # t) \/ (m.key[1] = t /\ WireSound(m, q))
  BY <1>13, <1>14
<1>17. TabTyped(typed'[t], q)
  BY <1>1, <1>2 DEF TabTyped
<1> QED
  BY <1>1, <1>12, <1>15, <1>16, <1>17, Turn DEF Shaped

\* A submission that is sent, of an attempt that is known.
LEMMA SubmitSentTab ==
    ASSUME NEW r \in Tab, NEW m \in Request
    PROVE  /\ SubmitSent(r, m) \in Tab /\ SameBut(SubmitSent(r, m), r, {"attempt", "calls"})
           /\ SubmitSent(r, m).attempt = m
           /\ SubmitSent(r, m).calls["submit"] = Sent(None)
           /\ \A c \in Calls \ {"submit"} : SubmitSent(r, m).calls[c] = r.calls[c]
           /\ NoNewAnswers(SubmitSent(r, m), r)
           /\ \A c \in {"put", "get"} : SubmitSent(r, m).calls[c] = r.calls[c]
<1> DEFINE q == SubmitSent(r, m)
<1>1. Sent(None) \in Call /\ Sent(None).reply = None /\ "submit" \in Calls
  BY SentCall DEF Calls
<1>2. /\ q \in Tab /\ SameBut(q, r, {"attempt", "calls"}) /\ q.attempt = m
      /\ q.calls["submit"] = Sent(None)
      /\ \A c \in Calls \ {"submit"} : q.calls[c] = r.calls[c]
  BY <1>1 DEF SubmitSent, Tab, SameBut, Parts
<1> HIDE DEF q
<1>3. NoNewAnswers(q, r) /\ \A c \in {"put", "get"} : q.calls[c] = r.calls[c]
  BY <1>1, <1>2 DEF NoNewAnswers, Calls
<1> QED
  BY <1>2, <1>3 DEF q

\* A submission is sent again as it was stored.
LEMMA SubmitAgainSound ==
    ASSUME Sound, NEW t \in Tabs, SubmitAgain(t)
    PROVE  Sound'
<1> DEFINE s == tab[t]
           q == SubmitSent(s, s.attempt)
<1>1. s \in Tab /\ TabSound(t, s) /\ Shaped
  BY DEF Sound, Shaped
<1>2. /\ Live(t) /\ s.attempt # None /\ tab' = [tab EXCEPT ![t] = q]
      /\ wire' = wire \cup {s.attempt} /\ ServerUnchanged /\ UNCHANGED <<signals, typed, budget>>
  BY DEF SubmitAgain, Ready, Become
<1>3. s.attempt \in Request
  BY <1>1, <1>2 DEF Tab
<1> HIDE DEF s
<1>4. /\ q \in Tab /\ SameBut(q, s, {"attempt", "calls"}) /\ q.attempt = s.attempt
      /\ q.calls["submit"] = Sent(None) /\ NoNewAnswers(q, s)
      /\ \A c \in {"put", "get"} : q.calls[c] = s.calls[c]
  BY <1>1, <1>3, SubmitSentTab
<1> HIDE DEF q
<1>5. /\ SameBut(q, s, Inner \cup {"attempt", "keys"}) /\ q.trusted = s.trusted
      /\ q.keys = s.keys /\ q.copy = s.copy /\ q.stored = s.stored
  BY <1>4 DEF SameBut, Parts, Inner
<1>6. SubmitSound(q)
  <2>1. Sent(None).reply = None
    BY SentCall
  <2> QED
    BY <1>2, <1>4, <2>1 DEF SubmitSound, Got
<1>7. SubmissionSound(t, q) /\ ShowsSubmission(q)
  BY <1>1, <1>4, <1>5 DEF TabSound, SubmissionSound, ShowsSubmission
<1>8. s.keys <= q.keys
  BY <1>1, <1>5 DEF Tab
<1> QED
  BY <1>1, <1>2, <1>4, <1>5, <1>6, <1>7, <1>8, AttemptTurn DEF s, ServerUnchanged, Shaped

\* A submission is stored, then sent, where nothing is left to save.
LEMMA SubmitStartsSound ==
    ASSUME Sound, NEW t \in Tabs, SubmitStarts(t)
    PROVE  Sound'
<1> DEFINE s == tab[t]
           m == [key |-> <<t, s.keys>>, content |-> s.copy.base.content,
                 expected |-> s.copy.base.revision, final |-> TRUE]
           sent == SubmitSent(s, m)
           q == [sent EXCEPT !.keys = @ + 1]
<1>1. s \in Tab /\ TabSound(t, s) /\ Shaped
  BY DEF Sound, Shaped
<1>2. /\ Live(t) /\ s.copy # None /\ s.attempt = None /\ ~Work(s.copy)
      /\ tab' = [tab EXCEPT ![t] = q] /\ wire' = wire \cup {m}
      /\ ServerUnchanged /\ UNCHANGED <<signals, typed, budget>>
  BY DEF SubmitStarts, Ready, Become
<1>3. s.copy \in WorkingCopy /\ s.copy.base \in Snapshot /\ CopySound(t, s.copy) /\ s.keys \in Nat
  BY <1>1, <1>2 DEF Tab, WorkingCopy, TabSound
<1>4. /\ m \in Request /\ m.key = <<t, s.keys>> /\ m.content = s.copy.base.content
      /\ m.expected = s.copy.base.revision /\ m.final
  BY <1>3 DEF Request, Keys, Snapshot
<1>5. ~Done(<<t, s.keys>>)
  <2> SUFFICES ASSUME NEW x \in saved, x.key = <<t, s.keys>> PROVE FALSE
    BY DEF Done
  <2>1. x.key[2] < tab[x.key[1]].keys
    BY DEF Sound
  <2> QED
    BY <1>3, <2>1
<1> HIDE DEF s, m
<1>6. /\ sent \in Tab /\ SameBut(sent, s, {"attempt", "calls"}) /\ sent.attempt = m
      /\ sent.calls["submit"] = Sent(None) /\ NoNewAnswers(sent, s)
      /\ \A c \in {"put", "get"} : sent.calls[c] = s.calls[c]
  BY <1>1, <1>4, SubmitSentTab
<1> HIDE DEF sent
<1>7. /\ q \in Tab /\ SameBut(q, sent, {"keys"}) /\ q.keys = s.keys + 1
  <2>1. sent.keys = s.keys
    BY <1>6 DEF SameBut, Parts
  <2> QED
    BY <1>3, <1>6, <2>1 DEF Tab, SameBut, Parts
<1> HIDE DEF q
<1>8. /\ SameBut(q, s, Inner \cup {"attempt", "keys"}) /\ q.trusted = s.trusted
      /\ q.copy = s.copy /\ q.stored = s.stored /\ q.attempt = m /\ q.calls = sent.calls
  BY <1>6, <1>7 DEF SameBut, Parts, Inner
<1>9. NoNewAnswers(q, s) /\ \A c \in {"put", "get"} : q.calls[c] = s.calls[c]
  BY <1>6, <1>8 DEF NoNewAnswers
<1>10. m # None
  BY <1>4, Records
<1>11. SubmitSound(q)
  <2>1. Sent(None).reply = None
    BY SentCall
  <2> QED
    BY <1>6, <1>8, <1>10, <2>1 DEF SubmitSound, Got
<1>12. ~Flying(s.copy) /\ ~Flying(s.stored)
  BY <1>1, <1>2 DEF Work, Flying, TabSound, PageSound
<1>13. SubmissionSound(t, q)
  BY <1>3, <1>4, <1>5, <1>7, <1>8, <1>12 DEF SubmissionSound, CopySound, Had
<1>14. ShowsSubmission(q)
  BY <1>2, <1>3, <1>4, <1>8, <1>12 DEF ShowsSubmission, Snapshot
<1>15. s.keys <= q.keys
  BY <1>3, <1>7
<1> QED
  BY <1>1, <1>2, <1>4, <1>7, <1>8, <1>9, <1>10, <1>11, <1>13, <1>14, <1>15, AttemptTurn
  DEF s, ServerUnchanged, Shaped

\* A submission is rejected: it can never be accepted, and is given up.
LEMMA SubmitRejectedSound ==
    ASSUME Sound, NEW t \in Tabs, SubmitRejected(t)
    PROVE  Sound'
<1> DEFINE s == tab[t]
           r == [s EXCEPT !.calls["submit"] = None, !.attempt = None]
<1>0. "submit" \in Calls
  BY DEF Calls
<1>1. s \in Tab /\ TabSound(t, s) /\ Shaped
  BY DEF Sound, Shaped
<1>2. /\ Got(s, "submit", "conflict") /\ Live(t)
      /\ ServerUnchanged /\ UNCHANGED <<wire, signals, typed, budget>>
  BY <1>0, Waiting DEF SubmitRejected, Answered, Got
<1>3. PICK q \in {r, Checking(r)} : tab' = [tab EXCEPT ![t] = q]
  BY DEF SubmitRejected, Become
<1>4. Dead(s.attempt)
  BY <1>1, <1>2 DEF TabSound, SubmitSound, Got
<1> HIDE DEF s
<1>5. /\ r \in Tab /\ SameBut(r, s, {"calls", "attempt"}) /\ r.attempt = None
      /\ r.calls["submit"] = None /\ \A c \in Calls \ {"submit"} : r.calls[c] = s.calls[c]
  BY <1>0, <1>1 DEF Tab, SameBut, Parts
<1> HIDE DEF r
<1>6. /\ Checking(r) \in Tab /\ SameBut(Checking(r), r, {"blocked", "status", "calls"})
      /\ NoNewAnswers(Checking(r), r) /\ NoNewCalls(Checking(r), r)
  BY <1>5, CheckingTab
<1>7. q \in Tab /\ SameBut(q, r, {"blocked", "status", "calls"}) /\ NoNewAnswers(q, r) /\ NoNewCalls(q, r)
  BY <1>3, <1>5, <1>6 DEF SameBut, NoNewAnswers, NoNewCalls
<1>8. /\ SameBut(q, s, Inner \cup {"attempt", "keys"}) /\ q.trusted = s.trusted
      /\ q.attempt = None /\ q.keys = s.keys
  BY <1>5, <1>7 DEF SameBut, Parts, Inner
<1>9. NoNewAnswers(q, s) /\ (\A c \in {"put", "get"} : q.calls[c] \in {s.calls[c], None})
      /\ q.calls["submit"] = None
  BY <1>5, <1>7 DEF NoNewAnswers, NoNewCalls, Calls
<1>10. SubmitSound(q) /\ SubmissionSound(t, q) /\ ShowsSubmission(q)
  BY <1>8, <1>9 DEF SubmitSound, SubmissionSound, ShowsSubmission
<1>11. s.keys <= q.keys
  BY <1>1, <1>8 DEF Tab
<1> QED
  BY <1>1, <1>2, <1>3, <1>4, <1>7, <1>8, <1>9, <1>10, <1>11, AttemptTurn
  DEF s, ServerUnchanged, Shaped

(***************************************************************************)
(* Steps of the server.                                                    *)
(***************************************************************************)

\* A call that is answered.
WithReply(r, c, reply) == [r EXCEPT !.calls[c].reply = reply]

\* It has the answer, and nothing else is changed.
LEMMA AnsweredTab ==
    ASSUME NEW r \in Tab, NEW c \in Calls, r.calls[c] # None, NEW reply \in Reply,
           NEW q, q = WithReply(r, c, reply)
    PROVE  /\ q \in Tab /\ SameBut(q, r, {"calls"})
           /\ q.calls[c] # None /\ q.calls[c].reply = reply
           /\ q.calls[c].boundary = r.calls[c].boundary
           /\ \A d \in Calls \ {c} : q.calls[d] = r.calls[d]
<1> DEFINE call == [r.calls[c] EXCEPT !.reply = reply]
<1>1. r.calls[c] \in Call /\ r.calls \in [Calls -> Call \cup {None}]
  BY DEF Tab
<1>2. call \in Call /\ call.reply = reply /\ call.boundary = r.calls[c].boundary
  BY <1>1 DEF Call
<1>3. call # None
  BY <1>2, Records
<1>4. q = [r EXCEPT !.calls = [r.calls EXCEPT ![c] = call]]
  BY DEF WithReply
<1> HIDE DEF call
<1> DEFINE calls == [r.calls EXCEPT ![c] = call]
<1>5. /\ calls \in [Calls -> Call \cup {None}] /\ calls[c] = call
      /\ \A d \in Calls \ {c} : calls[d] = r.calls[d]
  BY <1>1, <1>2
<1> HIDE DEF calls
<1>6. q \in Tab /\ q.calls = calls /\ SameBut(q, r, {"calls"})
  <2>1. q = [r EXCEPT !.calls = calls]
    BY <1>4 DEF calls
  <2> QED
    BY <1>5, <2>1 DEF Tab, SameBut, Parts
<1> QED
  BY <1>2, <1>3, <1>5, <1>6

\* An answer to a save or to a submission that says what has become of the attempt.
LEMMA Answering ==
    ASSUME NEW t \in Tabs, NEW r \in Tab, NEW c \in {"put", "submit"}, NEW reply \in Reply,
           r.calls[c] # None, TabSound(t, r)',
           NEW q, q = WithReply(r, c, reply),
           reply.kind = "refused" => closed',
           c = "put" /\ reply.kind = "ok" => Done(r.copy.frozen.key)',
           c = "put" /\ reply.kind = "conflict" =>
              ~Done(r.copy.frozen.key)' /\ r.copy.base.revision < Revision',
           c = "submit" /\ reply.kind = "ok" => closed',
           c = "submit" /\ reply.kind = "conflict" => Dead(r.attempt)'
    PROVE  q \in Tab /\ SameBut(q, r, {"calls"}) /\ TabSound(t, q)'
<1>0. c \in Calls /\ c \notin Reads /\ {"fetch", "query"} \subseteq Calls /\ "get" \in Calls
      /\ "put" \in Calls /\ "submit" \in Calls
  BY DEF Calls, Reads
<1>1. /\ q \in Tab /\ SameBut(q, r, {"calls"}) /\ q.calls[c] # None /\ q.calls[c].reply = reply
      /\ \A d \in Calls \ {c} : q.calls[d] = r.calls[d]
  BY <1>0, AnsweredTab
<1>2. /\ q.open = r.open /\ q.over = r.over /\ q.copy = r.copy /\ q.stored = r.stored
      /\ q.attempt = r.attempt /\ q.keys = r.keys /\ q.trusted = r.trusted
  BY <1>1 DEF SameBut, Parts
<1>3. \A d \in Calls \ {c} : \A kind : Got(q, d, kind) = Got(r, d, kind)
  BY <1>1 DEF Got
<1>4. \A kind : Got(q, c, kind) => reply.kind = kind
  BY <1>1 DEF Got
<1>5. RepliesSound(q)'
  <2>1. RepliesSound(r)'
    BY DEF TabSound
  <2> QED
    BY <1>0, <1>1, <1>3, <1>4, <2>1 DEF RepliesSound, Got
<1>6. PutSound(q)'
  <2>1. PutSound(r)'
    BY DEF TabSound
  <2>2. CASE c = "put"
    BY <1>0, <1>1, <1>2, <1>4, <2>1, <2>2 DEF PutSound, Got
  <2>3. CASE c = "submit"
    BY <1>0, <1>1, <1>2, <2>1, <2>3 DEF PutSound, Got
  <2> QED
    BY <2>2, <2>3
<1>7. GetSound(q)'
  <2>1. GetSound(r)'
    BY DEF TabSound
  <2> QED
    BY <1>0, <1>1, <1>2, <2>1 DEF GetSound, Reads
<1>8. SubmitSound(q)'
  <2>1. SubmitSound(r)'
    BY DEF TabSound
  <2>2. CASE c = "submit"
    BY <1>0, <1>1, <1>2, <1>4, <2>1, <2>2 DEF SubmitSound, Got
  <2>3. CASE c = "put"
    BY <1>0, <1>1, <1>2, <2>1, <2>3 DEF SubmitSound, Got
  <2> QED
    BY <2>2, <2>3
<1>9. PageSound(q)'
  <2>1. PageSound(r)'
    BY DEF TabSound
  <2>2. r.open /\ ~r.over
    BY <1>0, <2>1 DEF PageSound, NoCalls
  <2> QED
    BY <1>2, <2>1, <2>2 DEF PageSound
<1>10. FirstReadSound(t, q)'
  <2>1. FirstReadSound(t, r)'
    BY DEF TabSound
  <2>2. \A d \in {"fetch", "query"} : d \in Calls \ {c}
    BY <1>0 DEF Reads
  <2>3. \A d \in {"fetch", "query"} : Got(q, d, "ok") = Got(r, d, "ok") /\ q.calls[d] = r.calls[d]
    BY <1>1, <1>3, <2>2
  <2> QED
    BY <1>2, <2>1, <2>3 DEF FirstReadSound
<1>11. SubmissionSound(t, q)' /\ ShowsSubmission(q)' /\ KeysDrawn(q)'
  BY <1>2 DEF TabSound, SubmissionSound, ShowsSubmission, KeysDrawn
<1>12. /\ \A d \in {q.copy, q.stored} : d # None => CopySound(t, d)'
       /\ q.trusted # None => Had(q.trusted)'
  BY <1>2 DEF TabSound
<1>13. TabSound(t, q)'
  BY <1>5, <1>6, <1>7, <1>8, <1>9, <1>10, <1>11, <1>12 DEF TabSound
<1> QED
  BY <1>1, <1>13

\* The answer to a request on the wire reaches the tab, or nobody.
LEMMA Delivered ==
    ASSUME Sound, NEW m \in wire, NEW kind \in {"ok", "conflict", "refused"},
           NEW snapshot \in Snapshot \cup {None}, Deliver(m, kind, snapshot),
           NEW t, t = m.key[1], NEW r, r = tab[t], TabSound(t, r)',
           kind = "refused" => closed',
           kind = "ok" => IF m.final THEN closed' ELSE Done(m.key)',
           kind = "conflict" =>
              IF m.final THEN Dead(m)' ELSE ~Done(m.key)' /\ m.expected < Revision'
    PROVE  \E q \in Tab : /\ tab' = [tab EXCEPT ![t] = q] /\ SameBut(q, r, {"calls"})
                          /\ TabSound(t, q)'
<1>1. m \in Request /\ t \in Tabs /\ r \in Tab /\ tab \in [Tabs -> Tab] /\ WireSound(m, r)
  BY DEF Sound, Shaped, Request, Keys
<1> DEFINE c == IF m.final THEN "submit" ELSE "put"
           mine == IF m.final THEN r.attempt ELSE r.copy.frozen
           waits == r.calls[c] # None /\ r.calls[c].reply = None /\ mine.key = m.key
           reply == [kind |-> kind, snapshot |-> snapshot]
           q == WithReply(r, c, reply)
<1>2. tab' = IF waits THEN [tab EXCEPT ![t] = q] ELSE tab
  BY DEF Deliver, WithReply
<1>3. CASE ~waits
  <2>1. tab' = [tab EXCEPT ![t] = r]
    BY <1>1, <1>2, <1>3
  <2> QED
    BY <1>1, <2>1 DEF SameBut
<1>4. CASE waits
  <2>1. reply \in Reply /\ reply.kind = kind
    BY DEF Reply
  <2>2. c \in {"put", "submit"} /\ r.calls[c] # None
    BY <1>4
  <2>3. c = "put" => r.copy \in WorkingCopy /\ r.copy.frozen.key = m.key
                     /\ r.copy.base.revision = m.expected /\ ~m.final
    <3> SUFFICES ASSUME c = "put"
        PROVE  r.copy \in WorkingCopy /\ r.copy.frozen.key = m.key
               /\ r.copy.base.revision = m.expected /\ ~m.final
      OBVIOUS
    <3>1. ~m.final /\ r.calls["put"] # None /\ r.copy.frozen.key = m.key
      BY <1>4
    <3>2. Flying(r.copy) /\ r.copy \in WorkingCopy
      BY <1>1, <3>1 DEF TabSound, PutSound, Flying, Tab
    <3>3. Message(r.copy) = m
      BY <1>1, <3>1, <3>2 DEF WireSound
    <3> QED
      BY <3>1, <3>2, <3>3, Messages DEF Flying
  <2>4. c = "submit" => m.final /\ r.attempt = m
    <3> SUFFICES ASSUME c = "submit" PROVE m.final /\ r.attempt = m
      OBVIOUS
    <3>1. m.final /\ r.calls["submit"] # None /\ r.attempt.key = m.key
      BY <1>4
    <3>2. r.attempt # None
      BY <3>1 DEF TabSound, SubmitSound
    <3> QED
      BY <1>1, <3>1, <3>2 DEF WireSound
  <2>5. tab' = [tab EXCEPT ![t] = q]
    BY <1>2, <1>4
  <2> HIDE DEF c, reply, waits, mine
  <2>6. q \in Tab /\ SameBut(q, r, {"calls"}) /\ TabSound(t, q)'
    BY <1>1, <2>1, <2>2, <2>3, <2>4, Answering
  <2> QED
    BY <2>5, <2>6
<1> QED
  BY <1>3, <1>4

\* What is known of a request does not depend on the calls of the tab.
LEMMA WireOfTab ==
    ASSUME NEW m, NEW r, NEW q, SameBut(q, r, {"calls"}), WireSound(m, r)'
    PROVE  WireSound(m, q)'
<1>1. q.copy = r.copy /\ q.stored = r.stored /\ q.attempt = r.attempt /\ q.keys = r.keys
  BY DEF SameBut, Parts
<1> QED
  BY <1>1 DEF WireSound, Remembered

\* A step of the server: what has to be seen of the tabs and of the requests that are left.
LEMMA ServerStep ==
    ASSUME Sound, NEW t \in Tabs, NEW q \in Tab, tab' = [tab EXCEPT ![t] = q],
           SameBut(q, tab[t], {"calls"}),
           \A s \in Tabs : \A r : r = tab[s] /\ s # t => TabSound(s, r)',
           TabSound(t, q)',
           \A n \in wire' : \A r : r = tab[n.key[1]] => WireSound(n, r)',
           wire' \subseteq wire, UNCHANGED <<signals, typed>>,
           history' \in Seq(Entry), history' # <<>>, closed' \in BOOLEAN,
           saved' \subseteq [key: Keys, snapshot: Snapshot],
           \A x \in saved' : x.key[2] < tab[x.key[1]].keys,
           Changes',
           budget' \in [edits: Nat, failures: Nat, reloads: Nat, device: Nat]
    PROVE  Sound'
<1>1. tab \in [Tabs -> Tab] /\ wire \subseteq Request
  BY DEF Sound, Shaped
<1>2. tab'[t] = q /\ (\A s \in Tabs \ {t} : tab'[s] = tab[s]) /\ tab' \in [Tabs -> Tab]
  BY <1>1
<1>3. Shaped'
  BY <1>1, <1>2 DEF Sound, Shaped
<1>4. ASSUME NEW s \in Tabs PROVE TabSound(s, tab[s])'
  <2>1. CASE s = t
    BY <1>2, <2>1
  <2>2. CASE s # t
    <3>1. PICK r : r = tab[s]
      OBVIOUS
    <3>2. TabSound(s, r)' /\ tab'[s] = r
      BY <1>2, <2>2, <3>1
    <3> QED
      BY <3>2
  <2> QED
    BY <2>1, <2>2
<1>5. \A s \in Tabs : tab'[s].copy = tab[s].copy /\ tab'[s].stored = tab[s].stored
                      /\ tab'[s].keys = tab[s].keys
  BY <1>2 DEF SameBut, Parts
<1>6. ASSUME NEW s \in Tabs PROVE TabTyped(typed[s], tab[s])'
  <2>1. TabTyped(typed[s], tab[s])
    BY DEF Sound
  <2> QED
    BY <1>5, <2>1 DEF TabTyped, CopyTyped, WasTyped
<1>7. ASSUME NEW n \in wire' PROVE WireSound(n, tab[n.key[1]])'
  <2>1. n.key[1] \in Tabs
    BY <1>1 DEF Request, Keys
  <2>2. PICK r : r = tab[n.key[1]]
    OBVIOUS
  <2>3. WireSound(n, r)'
    BY <2>2
  <2>4. PICK r2 : r2 = tab'[n.key[1]]
    OBVIOUS
  <2>5. SameBut(r2, r, {"calls"})
    BY <1>2, <2>1, <2>2, <2>4 DEF SameBut
  <2>6. WireSound(n, r2)'
    BY <2>3, <2>5, WireOfTab
  <2> QED
    BY <2>4, <2>6
<1>8. ASSUME NEW x \in saved' PROVE x.key[2] < tab'[x.key[1]].keys
  <2>1. x.key[1] \in Tabs
    BY DEF Keys
  <2> QED
    BY <1>5, <2>1
<1> QED
  BY <1>3, <1>4, <1>6, <1>7, <1>8 DEF Sound

\* What the server has now is a draft it had, and no save of a tab is later.
LEMMA CurrentHad ==
    ASSUME Shaped
    PROVE  /\ Current \in Snapshot /\ Had(Current) /\ Current.revision = Revision /\ Revision \in Nat
           /\ \A t : OwnUpTo(t, Revision)
<1>1. Len(history) \in Nat \ {0} /\ history[Len(history)] \in Entry
  BY DEF Shaped
<1>2. history[Len(history)].content \in Content /\ Revision \in Nat /\ Revision + 1 = Len(history)
  BY <1>1 DEF Entry, Revision
<1>3. Current \in Snapshot /\ Current.revision = Revision
      /\ Current.content = history[Len(history)].content
  BY <1>2 DEF Current, Snapshot
<1> QED
  BY <1>1, <1>2, <1>3 DEF Had, OwnUpTo

\* A reading of the draft is answered.
LEMMA ServeReadSound ==
    ASSUME Sound, NEW t \in Tabs, NEW c \in Calls, ServeRead(t, c)
    PROVE  Sound'
<1> DEFINE r == tab[t]
           reply == IF closed THEN [kind |-> "refused", snapshot |-> None]
                    ELSE [kind |-> "ok", snapshot |-> Current]
           q == WithReply(r, c, reply)
<1>1. r \in Tab /\ TabSound(t, r) /\ TabTyped(typed[t], r) /\ Shaped
      /\ \A m \in wire : WireSound(m, tab[m.key[1]])
  BY DEF Sound, Shaped
<1>2. /\ c \in {"get", "fetch", "query"} /\ r.calls[c] # None
      /\ UNCHANGED <<history, saved, closed, wire, signals, typed, budget>>
      /\ tab' = [tab EXCEPT ![t] = q]
  BY DEF ServeRead, WithReply
<1>3. Live(t)
  BY <1>2, Waiting
<1>4. /\ Current \in Snapshot /\ Had(Current) /\ Current.revision = Revision /\ Revision \in Nat
      /\ OwnUpTo(t, Revision)
  BY <1>1, CurrentHad
<1>5. /\ reply \in Reply
      /\ reply.kind = "refused" => closed
      /\ reply.kind = "ok" => reply.snapshot = Current
      /\ reply.kind \in {"refused", "ok"}
  BY <1>4 DEF Reply
<1> HIDE DEF r, reply
<1>6. /\ q \in Tab /\ SameBut(q, r, {"calls"}) /\ q.calls[c] # None /\ q.calls[c].reply = reply
      /\ q.calls[c].boundary = r.calls[c].boundary
      /\ \A d \in Calls \ {c} : q.calls[d] = r.calls[d]
  BY <1>1, <1>2, <1>5, AnsweredTab
<1> HIDE DEF q
<1>7. /\ q.open = r.open /\ q.over = r.over /\ q.copy = r.copy /\ q.stored = r.stored
      /\ q.attempt = r.attempt /\ q.keys = r.keys /\ q.trusted = r.trusted
  BY <1>6 DEF SameBut, Parts
<1>8. \A d \in Calls \ {c} : \A kind : Got(q, d, kind) => Got(r, d, kind) /\ q.calls[d] = r.calls[d]
  BY <1>6 DEF Got
<1>9. \A kind : Got(q, c, kind) => reply.kind = kind
  BY <1>6 DEF Got
<1>10. RepliesSound(q)
  <2>1. RepliesSound(r) /\ Current # None
    BY <1>1, <1>4, Records DEF TabSound
  <2> SUFFICES ASSUME NEW d \in Calls
      PROVE  /\ Got(q, d, "ok") /\ d \in Reads =>
                   q.calls[d].reply.snapshot # None /\ Had(q.calls[d].reply.snapshot)
             /\ Got(q, d, "refused") => closed
    BY DEF RepliesSound
  <2>2. CASE d = c
    BY <1>4, <1>5, <1>6, <1>9, <2>1, <2>2
  <2>3. CASE d # c
    BY <1>8, <2>1, <2>3 DEF RepliesSound
  <2> QED
    BY <2>2, <2>3
<1>11. PutSound(q)
  <2>1. q.calls["put"] = r.calls["put"] /\ (q.calls["get"] = None <=> r.calls["get"] = None)
    BY <1>2, <1>6 DEF Calls
  <2> QED
    BY <1>1, <1>7, <2>1 DEF TabSound, PutSound, Got
<1>12. GetSound(q)
  <2>1. /\ q.calls["get"] = None <=> r.calls["get"] = None
        /\ q.calls["get"] # None => q.calls["get"].boundary = r.calls["get"].boundary
    BY <1>2, <1>6 DEF Calls
  <2> QED
    BY <1>1, <1>7, <2>1 DEF TabSound, GetSound
<1>13. SubmitSound(q)
  <2>1. q.calls["submit"] = r.calls["submit"]
    BY <1>2, <1>6 DEF Calls
  <2> QED
    BY <1>1, <1>7, <2>1 DEF TabSound, SubmitSound, Got
<1>14. PageSound(q)
  BY <1>1, <1>3, <1>7 DEF TabSound, PageSound, Live, r
<1>15. FirstReadSound(t, q)
  <2> SUFFICES ASSUME r.copy = None, NEW d \in {"fetch", "query"}, Got(q, d, "ok")
      PROVE  /\ OwnUpTo(t, q.calls[d].reply.snapshot.revision)
             /\ r.stored # None => r.stored.base.revision <= q.calls[d].reply.snapshot.revision
             /\ r.attempt # None => r.attempt.expected <= q.calls[d].reply.snapshot.revision
    BY <1>7 DEF FirstReadSound
  <2>0. d \in Calls
    BY DEF Calls
  <2>1. CASE d = c
    <3>1. q.calls[d].reply.snapshot.revision = Revision
      BY <1>4, <1>5, <1>6, <1>9, <2>1
    <3>2. r.stored # None => r.stored.base.revision <= Revision
      BY <1>1 DEF TabSound, CopySound, Had
    <3>3. r.attempt # None => r.attempt.expected <= Revision
      BY <1>1 DEF TabSound, SubmissionSound
    <3> QED
      BY <1>4, <3>1, <3>2, <3>3
  <2>2. CASE d # c
    <3>1. Got(r, d, "ok") /\ q.calls[d] = r.calls[d]
      BY <1>8, <2>0, <2>2
    <3> QED
      BY <1>1, <1>3, <3>1 DEF TabSound, FirstReadSound, Live, r
  <2> QED
    BY <2>1, <2>2
<1>16. SubmissionSound(t, q) /\ ShowsSubmission(q) /\ KeysDrawn(q)
  BY <1>1, <1>7 DEF TabSound, SubmissionSound, ShowsSubmission, KeysDrawn
<1>17. TabSound(t, q)
  BY <1>1, <1>7, <1>10, <1>11, <1>12, <1>13, <1>14, <1>15, <1>16 DEF TabSound
<1>18. TabTyped(typed'[t], q)
  BY <1>1, <1>2, <1>7 DEF TabTyped
<1>19. \A m \in wire : m.key[1] = t => WireSound(m, q)
  BY <1>1, <1>7 DEF WireSound, Remembered, r
<1>20. tab[t].keys <= q.keys
  BY <1>1, <1>7 DEF Tab, r
<1> QED
  BY <1>1, <1>2, <1>6, <1>17, <1>18, <1>19, <1>20, Turn DEF Shaped

\* The server answers a request without doing anything for it.
LEMMA AnswerSound ==
    ASSUME Sound, NEW m \in wire, UNCHANGED <<history, saved, closed, signals, typed, budget>>,
           wire' = wire \ {m},
           NEW kind \in {"ok", "conflict", "refused"}, NEW snapshot \in Snapshot \cup {None},
           Deliver(m, kind, snapshot),
           kind = "refused" => closed,
           kind = "ok" => IF m.final THEN closed ELSE Done(m.key),
           kind = "conflict" =>
              IF m.final THEN Dead(m) ELSE ~Done(m.key) /\ m.expected < Revision
    PROVE  Sound'
<1>1. Shaped /\ m \in Request /\ m.key[1] \in Tabs
  BY DEF Sound, Shaped, Request, Keys
<1> DEFINE t == m.key[1]
<1>2. PICK r : r = tab[t]
  OBVIOUS
<1>3. \A s, x : TabSound(s, x)' = TabSound(s, x)
  BY SameServer
<1>4. \A n, x : WireSound(n, x)' = WireSound(n, x)
  BY SameServer
<1>5. TabSound(t, r)'
  BY <1>1, <1>2, <1>3 DEF Sound
<1>6. /\ closed' = closed /\ Done(m.key)' = Done(m.key) /\ Dead(m)' = Dead(m) /\ Revision' = Revision
  BY DEF Done, Dead, Revision
<1>7. PICK q \in Tab : tab' = [tab EXCEPT ![t] = q] /\ SameBut(q, r, {"calls"}) /\ TabSound(t, q)'
  BY <1>2, <1>5, <1>6, Delivered
<1>8. \A s \in Tabs : \A x : x = tab[s] /\ s # t => TabSound(s, x)'
  BY <1>3 DEF Sound
<1>9. \A n \in wire' : \A x : x = tab[n.key[1]] => WireSound(n, x)'
  BY <1>4 DEF Sound
<1>10. Changes'
  BY SameServer DEF Sound
<1> QED
  BY <1>1, <1>2, <1>7, <1>8, <1>9, <1>10, ServerStep DEF Shaped, Sound

\* A request that was recorded, refused or rejected.
LEMMA UnchangingSound ==
    ASSUME Sound, NEW m \in wire, wire' = wire \ {m}, UNCHANGED <<signals, typed, budget>>,
           Replays(m) \/ Refuses(m) \/ Rejects(m)
    PROVE  Sound'
<1>1. Shaped /\ m \in Request /\ m.key[1] \in Tabs /\ TabSound(m.key[1], tab[m.key[1]])
      /\ WireSound(m, tab[m.key[1]])
  BY DEF Sound, Shaped, Request, Keys
<1>2. CASE Replays(m)
  <2> DEFINE x == CHOOSE s \in saved : s.key = m.key
  <2>1. Done(m.key)
    BY <1>2 DEF Replays, Recorded, Done
  <2>2. x \in saved
    BY <2>1 DEF Done
  <2>3. x.snapshot \in Snapshot
    BY <1>1, <2>2 DEF Shaped
  <2>4. m.final => closed
    BY <1>1, <2>1 DEF WireSound
  <2>5. Deliver(m, "ok", x.snapshot) /\ UNCHANGED <<history, saved, closed>>
    BY <1>2 DEF Replays
  <2> HIDE DEF x
  <2> QED
    BY <2>1, <2>3, <2>4, <2>5, AnswerSound
<1>3. CASE Refuses(m)
  BY <1>3, AnswerSound DEF Refuses
<1>4. CASE Rejects(m)
  <2>1. ~Done(m.key) /\ Stale(m) /\ Deliver(m, "conflict", None)
        /\ UNCHANGED <<history, saved, closed>>
    BY <1>4 DEF Rejects, Recorded, Done
  <2>2. m.expected <= Revision /\ m.expected \in Nat
        /\ (m.final => history[m.expected + 1].content = m.content)
    BY <1>1 DEF WireSound, Request
  <2>3. Revision \in Nat /\ Current.content = history[Revision + 1].content
    BY <1>1 DEF Shaped, Revision, Current
  <2>4. m.expected # Revision
    BY <2>1, <2>2, <2>3 DEF Stale
  <2> QED
    BY <2>1, <2>2, <2>3, <2>4, AnswerSound DEF Dead
<1> QED
  BY <1>2, <1>3, <1>4

\* When the session is closed, what a tab knows stays true, and no request does anything.
LEMMA Closing ==
    ASSUME closed', UNCHANGED history, saved \subseteq saved', NEW s, NEW r, TabSound(s, r),
           \A c \in {r.copy, r.stored} :
              Flying(c) => (Done(c.frozen.key)' => Done(c.frozen.key))
    PROVE  TabSound(s, r)'
<1>1. /\ \A x : Had(x)' = Had(x)
      /\ \A key : Done(key) => Done(key)'
      /\ \A n : Dead(n)'
      /\ \A t, revision : OwnUpTo(t, revision)' = OwnUpTo(t, revision)
      /\ Revision' = Revision
  BY DEF Had, Done, Dead, OwnUpTo, Revision
<1>2. \A c \in {r.copy, r.stored} : c # None => CopySound(s, c)'
  BY <1>1 DEF TabSound, CopySound, AttemptSound, OwnSaves, Flying
<1>3. RepliesSound(r)'
  BY <1>1 DEF TabSound, RepliesSound, Got
<1>4. PutSound(r)'
  BY <1>1 DEF TabSound, PutSound, Got
<1>5. GetSound(r)'
  BY <1>1 DEF TabSound, GetSound
<1>6. SubmitSound(r)'
  BY <1>1 DEF TabSound, SubmitSound, Got
<1>7. PageSound(r)'
  BY DEF TabSound, PageSound
<1>8. FirstReadSound(s, r)'
  BY <1>1 DEF TabSound, FirstReadSound, Got
<1>9. SubmissionSound(s, r)' /\ ShowsSubmission(r)' /\ KeysDrawn(r)'
  BY <1>1 DEF TabSound, SubmissionSound, ShowsSubmission, KeysDrawn
<1>10. r.trusted # None => Had(r.trusted)'
  BY <1>1 DEF TabSound
<1> QED
  BY <1>2, <1>3, <1>4, <1>5, <1>6, <1>7, <1>8, <1>9, <1>10 DEF TabSound

\* The requests that are left do nothing.
LEMMA ClosingWire ==
    ASSUME closed', UNCHANGED history, NEW n, NEW r, WireSound(n, r)
    PROVE  WireSound(n, r)'
BY DEF WireSound, Dead, Revision

\* A revision after the others.
LEMMA Appended ==
    ASSUME Shaped, NEW e \in Entry, history' = Append(history, e), saved \subseteq saved'
    PROVE  /\ history' \in Seq(Entry) /\ history' # <<>> /\ Len(history') = Len(history) + 1
           /\ \A i \in 1 .. Len(history) : history'[i] = history[i]
           /\ history'[Len(history) + 1] = e
           /\ Revision' = Revision + 1 /\ Revision \in Nat /\ Len(history) = Revision + 1
           /\ \A x : x.revision \in Nat /\ Had(x) => Had(x)'
           /\ \A key : Done(key) => Done(key)'
           /\ \A t, n : e.by # t /\ OwnUpTo(t, n) => OwnUpTo(t, n)'
           /\ \A t : OwnUpTo(t, Revision + 1)'
<1>1. history \in Seq(Entry) /\ Len(history) \in Nat \ {0}
  BY DEF Shaped
<1>2. /\ history' \in Seq(Entry) /\ history' # <<>> /\ Len(history') = Len(history) + 1
      /\ \A i \in 1 .. Len(history) : history'[i] = history[i]
      /\ history'[Len(history) + 1] = e
  BY <1>1
<1>3. Revision' = Revision + 1 /\ Revision \in Nat /\ Len(history) = Revision + 1
  BY <1>1, <1>2 DEF Revision
<1>4. \A x : x.revision \in Nat /\ Had(x) => Had(x)'
  BY <1>1, <1>2, <1>3 DEF Had
<1>5. \A key : Done(key) => Done(key)'
  BY DEF Done
<1>6. \A t, n : e.by # t /\ OwnUpTo(t, n) => OwnUpTo(t, n)'
  BY <1>1, <1>2 DEF OwnUpTo
<1>7. \A t : OwnUpTo(t, Revision + 1)'
  BY <1>1, <1>2, <1>3 DEF OwnUpTo
<1> QED
  BY <1>1, <1>2, <1>3, <1>4, <1>5, <1>6, <1>7

\* After another save a tab's copies are what they were, but for the attempt that was accepted.
LEMMA AppendingCopies ==
    ASSUME Shaped, NEW e \in Entry, history' = Append(history, e), saved \subseteq saved',
           NEW s, NEW c \in WorkingCopy, CopySound(s, c),
           Flying(c) =>
              \/ Done(c.frozen.key)' => Done(c.frozen.key)
              \/ c.base.revision = Revision /\ e = [content |-> c.frozen.content, by |-> s],
           e.by = s => Flying(c) /\ Done(c.frozen.key)' /\ c.base.revision = Revision
    PROVE  CopySound(s, c)'
<1>0. c # None /\ c.base.revision \in Nat
  BY Records DEF WorkingCopy, Snapshot
<1>1. Had(c.base)'
  BY <1>0, Appended DEF CopySound
<1>2. AttemptSound(s, c)'
  <2> SUFFICES ASSUME c.frozen # None
      PROVE  /\ c.frozen.key[1] = s
             /\ c.frozen.rejected => c.base.revision < Revision' /\ ~Done(c.frozen.key)'
             /\ Done(c.frozen.key)' =>
                   /\ c.base.revision < Revision'
                   /\ history'[c.base.revision + 2] = [content |-> c.frozen.content, by |-> s]
    BY DEF AttemptSound
  <2>1. /\ c.frozen.key[1] = s
        /\ c.frozen.rejected => c.base.revision < Revision /\ ~Done(c.frozen.key)
        /\ Done(c.frozen.key) =>
              /\ c.base.revision < Revision
              /\ history[c.base.revision + 2] = [content |-> c.frozen.content, by |-> s]
    BY DEF CopySound, AttemptSound
  <2>2. /\ Revision' = Revision + 1 /\ Revision \in Nat /\ Len(history) = Revision + 1
        /\ \A i \in 1 .. Len(history) : history'[i] = history[i]
        /\ history'[Len(history) + 1] = e
    BY Appended
  <2>3. CASE Done(c.frozen.key)' => Done(c.frozen.key)
    <3>1. Done(c.frozen.key) => c.base.revision + 2 \in 1 .. Len(history)
      BY <1>0, <2>1, <2>2
    <3> QED
      BY <1>0, <2>1, <2>2, <2>3, <3>1
  <2>4. CASE c.base.revision = Revision /\ e = [content |-> c.frozen.content, by |-> s]
    <3>1. c.base.revision + 2 = Len(history) + 1
      BY <2>2, <2>4
    <3> QED
      BY <1>0, <2>1, <2>2, <2>4, <3>1
  <2> QED
    BY <1>0, <2>3, <2>4 DEF Flying
<1>3. OwnSaves(s, c)'
  <2>1. CASE e.by = s
    <3>1. OwnUpTo(s, Revision + 1)'
      BY Appended
    <3>2. PICK n : n = Revision
      OBVIOUS
    <3>3. OwnUpTo(s, n + 1)'
      BY Appended, <3>2 DEF OwnUpTo
    <3>4. c.frozen # None /\ Done(c.frozen.key)' /\ c.base.revision = n
      BY <2>1, <3>2 DEF Flying
    <3> QED
      BY <3>3, <3>4 DEF OwnSaves
  <2>2. CASE e.by # s
    BY <2>2, Appended DEF CopySound, OwnSaves
  <2> QED
    BY <2>1, <2>2
<1> QED
  BY <1>1, <1>2, <1>3 DEF CopySound

\* And what the tab knows stays true.
LEMMA Appending ==
    ASSUME Shaped, NEW e \in Entry, history' = Append(history, e), saved \subseteq saved',
           UNCHANGED closed, NEW s, NEW r \in Tab, TabSound(s, r),
           \A c \in {r.copy, r.stored} : Flying(c) =>
              \/ Done(c.frozen.key)' => Done(c.frozen.key)
              \/ c.base.revision = Revision /\ e = [content |-> c.frozen.content, by |-> s],
           r.attempt # None => (Done(r.attempt.key)' => Done(r.attempt.key)),
           e.by = s =>
              /\ Flying(r.stored)
              /\ \A c \in {r.copy, r.stored} : c # None =>
                    Flying(c) /\ Done(c.frozen.key)' /\ c.base.revision = Revision
    PROVE  TabSound(s, r)'
<1>1. /\ Revision' = Revision + 1 /\ Revision \in Nat /\ Len(history) = Revision + 1
      /\ \A i \in 1 .. Len(history) : history'[i] = history[i]
      /\ \A x : x.revision \in Nat /\ Had(x) => Had(x)'
      /\ \A key : Done(key) => Done(key)'
      /\ \A t, n : e.by # t /\ OwnUpTo(t, n) => OwnUpTo(t, n)'
  BY Appended
<1>2. r.copy \in WorkingCopy \cup {None} /\ r.stored \in WorkingCopy \cup {None}
      /\ r.attempt \in Request \cup {None} /\ r.trusted \in Snapshot \cup {None}
  BY DEF Tab
<1>3. ASSUME NEW c \in {r.copy, r.stored}, c # None PROVE CopySound(s, c)'
  <2>1. c \in WorkingCopy /\ CopySound(s, c)
    BY <1>2, <1>3 DEF TabSound
  <2> QED
    BY <1>3, <2>1, AppendingCopies
<1>4. r.trusted # None => Had(r.trusted)'
  BY <1>1, <1>2 DEF TabSound, Snapshot
<1>5. RepliesSound(r)'
  <2> SUFFICES ASSUME NEW c \in Calls
      PROVE  /\ Got(r, c, "ok") /\ c \in Reads =>
                   r.calls[c].reply.snapshot # None /\ Had(r.calls[c].reply.snapshot)'
             /\ Got(r, c, "refused") => closed'
    BY DEF RepliesSound, Got
  <2>1. RepliesSound(r)
    BY DEF TabSound
  <2>2. Got(r, c, "ok") /\ c \in Reads => r.calls[c].reply.snapshot \in Snapshot
    BY <2>1, Answers
  <2> QED
    BY <1>1, <2>1, <2>2 DEF RepliesSound, Snapshot
<1>6. \A c \in {r.copy, r.stored} : Flying(c) => c.base.revision \in Nat
  BY <1>2 DEF Flying, WorkingCopy, Snapshot
<1>7. PutSound(r)'
  <2>1. PutSound(r)
    BY DEF TabSound
  <2>2. ASSUME Flying(r.copy), ~Done(r.copy.frozen.key), r.copy.base.revision < Revision
        PROVE  ~Done(r.copy.frozen.key)' /\ r.copy.base.revision < Revision'
    BY <1>1, <1>6, <2>2
  <2> QED
    BY <1>1, <2>1, <2>2 DEF PutSound, Got
<1>8. GetSound(r)'
  BY <1>1 DEF TabSound, GetSound
<1>9. r.attempt # None => Dead(r.attempt)'
  <2> SUFFICES ASSUME r.attempt # None PROVE r.attempt.expected # Revision'
    BY DEF Dead
  <2>1. r.attempt.expected <= Revision /\ r.attempt.expected \in Nat
    BY <1>2 DEF TabSound, SubmissionSound, Request
  <2> QED
    BY <1>1, <2>1
<1>10. SubmitSound(r)'
  BY <1>9 DEF TabSound, SubmitSound, Got
<1>11. PageSound(r)'
  BY DEF TabSound, PageSound
<1>12. FirstReadSound(s, r)'
  <2> SUFFICES ASSUME r.open, ~r.over, r.copy = None, NEW c \in {"fetch", "query"},
                      Got(r, c, "ok")
      PROVE  LET read == r.calls[c].reply.snapshot
             IN  /\ OwnUpTo(s, read.revision)'
                 /\ r.stored # None => r.stored.base.revision <= read.revision
                 /\ r.attempt # None => r.attempt.expected <= read.revision
    BY DEF FirstReadSound, Got
  <2>1. FirstReadSound(s, r) /\ ~Flying(r.stored)
    BY DEF TabSound, PageSound
  <2> QED
    BY <1>1, <2>1 DEF FirstReadSound
<1>13. SubmissionSound(s, r)'
  <2> SUFFICES ASSUME r.attempt # None PROVE SubmissionSound(s, r)'
    BY DEF SubmissionSound
  <2>1. SubmissionSound(s, r) /\ r.attempt.expected \in Nat
    BY <1>2 DEF TabSound, Request
  <2>2. r.attempt.expected <= Revision'
        /\ history'[r.attempt.expected + 1].content = r.attempt.content
    BY <1>1, <2>1 DEF SubmissionSound
  <2>3. Done(r.attempt.key)' => closed'
    BY <2>1 DEF SubmissionSound
  <2> QED
    BY <2>1, <2>2, <2>3 DEF SubmissionSound
<1>14. ShowsSubmission(r)' /\ KeysDrawn(r)'
  BY <1>9 DEF TabSound, ShowsSubmission, KeysDrawn
<1> QED
  BY <1>3, <1>4, <1>5, <1>7, <1>8, <1>10, <1>11, <1>12, <1>13, <1>14 DEF TabSound

\* The requests that are left were made of an earlier revision.
LEMMA AppendingWire ==
    ASSUME Shaped, NEW e \in Entry, history' = Append(history, e), saved \subseteq saved',
           UNCHANGED closed, NEW n \in Request, NEW r, WireSound(n, r),
           n.final => (Done(n.key)' => Done(n.key))
    PROVE  WireSound(n, r)'
<1>1. /\ Revision' = Revision + 1 /\ Revision \in Nat /\ Len(history) = Revision + 1
      /\ \A i \in 1 .. Len(history) : history'[i] = history[i]
  BY Appended
<1>2. n.expected \in Nat /\ n.expected <= Revision
  BY DEF Request, WireSound
<1>3. n.expected <= Revision' /\ (n.final => history'[n.expected + 1].content = n.content)
  BY <1>1, <1>2 DEF WireSound
<1>4. Dead(n)'
  BY <1>1, <1>2 DEF Dead
<1> QED
  BY <1>3, <1>4 DEF WireSound

\* A new revision differs from an older one where some revision between them, or it, does.
LEMMA ChangesGrow ==
    ASSUME Shaped, Changes, NEW e \in Entry, history' = Append(history, e), saved \subseteq saved'
    PROVE  Changes'
<1> DEFINE n == Len(history)
           Changed(f, k) == history'[k].content[f] # history'[k - 1].content[f]
<1>1. n \in Nat /\ 1 .. Len(history') = 1 .. n + 1 /\ \A i \in 1 .. n : history'[i] = history[i]
  <2>1. Len(history') = Len(history) + 1 /\ \A i \in 1 .. Len(history) : history'[i] = history[i]
    BY Appended
  <2> QED
    BY <2>1 DEF Shaped
<1>2. \A i, j \in 1 .. n : \A f \in Fields :
         i < j /\ history[i].content[f] # history[j].content[f] =>
            \E k \in i + 1 .. j : history[k].content[f] # history[k - 1].content[f]
  BY DEF Changes
<1> HIDE DEF n
<1>3. ASSUME NEW i \in 1 .. n, NEW j \in 1 .. n, NEW f \in Fields, i < j,
             history[i].content[f] # history[j].content[f]
      PROVE  \E k \in i + 1 .. j : Changed(f, k)
  <2>1. PICK k \in i + 1 .. j : history[k].content[f] # history[k - 1].content[f]
    BY <1>2, <1>3
  <2>2. k \in 1 .. n /\ k - 1 \in 1 .. n
    BY <1>1
  <2> QED
    BY <1>1, <2>1, <2>2
<1>4. ASSUME NEW i \in 1 .. n + 1, NEW j \in 1 .. n + 1, NEW f \in Fields, i < j,
             history'[i].content[f] # history'[j].content[f]
      PROVE  \E k \in i + 1 .. j : Changed(f, k)
  <2>1. i \in 1 .. n
    BY <1>1, <1>4
  <2>2. CASE j \in 1 .. n
    <3>1. history[i].content[f] # history[j].content[f]
      BY <1>1, <1>4, <2>1, <2>2
    <3> QED
      BY <1>3, <1>4, <2>1, <2>2, <3>1
  <2>3. CASE j = n + 1
    <3>1. CASE Changed(f, j)
      BY <1>1, <1>4, <3>1
    <3>2. CASE ~Changed(f, j)
      <4>1. j - 1 = n /\ n \in 1 .. n
        BY <1>1, <2>1, <2>3
      <4>2. history'[i].content[f] # history'[n].content[f]
        BY <1>4, <3>2, <4>1
      <4>3. i < n
        BY <1>1, <2>1, <4>2
      <4>4. history[i].content[f] # history[n].content[f]
        BY <1>1, <2>1, <4>1, <4>2
      <4>5. PICK k \in i + 1 .. n : Changed(f, k)
        BY <1>3, <2>1, <4>1, <4>3, <4>4
      <4>6. k \in i + 1 .. j
        BY <1>1, <2>3
      <4> QED
        BY <4>5, <4>6
    <3> QED
      BY <3>1, <3>2
  <2> QED
    BY <1>1, <2>2, <2>3
<1>5. \A i, j \in 1 .. n + 1 : \A f \in Fields :
         i < j /\ history'[i].content[f] # history'[j].content[f] =>
            \E k \in i + 1 .. j : Changed(f, k)
  BY <1>4
<1> QED
  BY <1>1, <1>5 DEF Changes

\* A submission is accepted: the session is closed, and the draft stays.
LEMMA SubmissionAccepted ==
    ASSUME Sound, NEW m \in wire, wire' = wire \ {m}, UNCHANGED <<signals, typed, budget>>,
           Accepts(m), m.final
    PROVE  Sound'
<1> DEFINE t == m.key[1]
           next == [revision |-> Revision, content |-> m.content]
<1>1. /\ Shaped /\ m \in Request /\ t \in Tabs /\ m.key \in Keys
      /\ \A s \in Tabs : TabSound(s, tab[s]) /\ tab[s] \in Tab
      /\ \A n \in wire : WireSound(n, tab[n.key[1]]) /\ n \in Request
      /\ \A x \in saved : x.key[2] < tab[x.key[1]].keys
      /\ Changes
  BY DEF Sound, Shaped, Request, Keys
<1>2. /\ closed' /\ history' = history
      /\ saved' = saved \cup {[key |-> m.key, snapshot |-> next]}
      /\ Deliver(m, "ok", next)
  BY DEF Accepts
<1>3. next \in Snapshot
  BY <1>1 DEF Shaped, Revision, Snapshot, Request
<1> HIDE DEF next
<1>4. \A key : Done(key)' => Done(key) \/ key = m.key
  BY <1>2 DEF Done
<1>5. saved \subseteq saved' /\ UNCHANGED history /\ closed'
  BY <1>2
<1>6. ASSUME NEW s \in Tabs, NEW x, x = tab[s] PROVE TabSound(s, x)'
  <2>1. TabSound(s, x)
    BY <1>1, <1>6
  <2>2. ASSUME NEW c \in {x.copy, x.stored}, Flying(c), c.frozen.key = m.key PROVE FALSE
    <3>1. c.frozen.key[1] = s
      BY <2>1, <2>2 DEF TabSound, CopySound, AttemptSound, Flying
    <3>2. WireSound(m, x)
      BY <1>1, <1>6, <2>2, <3>1
    <3>3. Message(c) = m
      BY <2>2, <3>2 DEF WireSound
    <3> QED
      BY <3>3 DEF Message
  <2>3. \A c \in {x.copy, x.stored} :
           Flying(c) => (Done(c.frozen.key)' => Done(c.frozen.key))
    BY <1>4, <2>2
  <2> QED
    BY <1>5, <2>1, <2>3, Closing
<1>7. PICK r : r = tab[t]
  OBVIOUS
<1>8. TabSound(t, r)'
  BY <1>1, <1>6, <1>7
<1>9. PICK q \in Tab : tab' = [tab EXCEPT ![t] = q] /\ SameBut(q, r, {"calls"}) /\ TabSound(t, q)'
  BY <1>2, <1>3, <1>7, <1>8, Delivered
<1>10. ASSUME NEW n \in wire', NEW x, x = tab[n.key[1]] PROVE WireSound(n, x)'
  <2>1. WireSound(n, x)
    BY <1>1, <1>10
  <2> QED
    BY <1>5, <2>1, ClosingWire
<1>11. saved' \subseteq [key: Keys, snapshot: Snapshot]
  BY <1>1, <1>2, <1>3 DEF Shaped
<1>12. \A x \in saved' : x.key[2] < tab[x.key[1]].keys
  BY <1>1, <1>2 DEF WireSound
<1>13. Changes'
  BY <1>1, <1>2 DEF Changes
<1>14. closed' \in BOOLEAN
  BY DEF Accepts, Request, Sound, Shaped
<1>15. history' \in Seq(Entry) /\ history' # <<>>
       /\ budget' \in [edits: Nat, failures: Nat, reloads: Nat, device: Nat]
  BY <1>1, <1>2 DEF Shaped
<1>16. wire' \subseteq wire /\ UNCHANGED <<signals, typed>>
  OBVIOUS
<1>17. SameBut(q, tab[t], {"calls"})
  BY <1>7, <1>9
<1> QED
  BY <1>1, <1>6, <1>9, <1>10, <1>11, <1>12, <1>13, <1>14, <1>15, <1>16, <1>17, ServerStep

\* A save is accepted: it is the next revision, the tab's attempt is done, and the copies of
\* that attempt are the only ones that it was made of.
LEMMA SaveAccepted ==
    ASSUME Sound, NEW m \in wire, wire' = wire \ {m}, UNCHANGED <<signals, typed, budget>>,
           Accepts(m), ~m.final
    PROVE  Sound'
<1> DEFINE t == m.key[1]
           e == [content |-> m.content, by |-> t]
           next == [revision |-> Revision + 1, content |-> m.content]
<1>1. /\ Shaped /\ m \in Request /\ t \in Tabs /\ m.key \in Keys
      /\ \A s \in Tabs : TabSound(s, tab[s]) /\ tab[s] \in Tab
      /\ \A n \in wire : WireSound(n, tab[n.key[1]]) /\ n \in Request
      /\ \A x \in saved : x.key[2] < tab[x.key[1]].keys
      /\ Changes
  BY DEF Sound, Shaped, Request, Keys
<1>2. /\ ~closed /\ ~closed' /\ ~Done(m.key) /\ m.expected = Revision
      /\ history' = Append(history, e)
      /\ saved' = saved \cup {[key |-> m.key, snapshot |-> next]}
      /\ Deliver(m, "ok", next)
  BY DEF Accepts, Recorded, Done, Stale
<1>3. next \in Snapshot
  BY <1>1 DEF Shaped, Revision, Snapshot, Request
<1>4. e \in Entry /\ e.by = t /\ e.content = m.content
  BY <1>1 DEF Entry, Request
<1>5. /\ \A key : Done(key)' => Done(key) \/ key = m.key
      /\ Done(m.key)'
  <2>1. [key |-> m.key, snapshot |-> next] \in saved'
    BY <1>2
  <2>2. [key |-> m.key, snapshot |-> next].key = m.key
    OBVIOUS
  <2>3. Done(m.key)'
    BY <2>1, <2>2 DEF Done
  <2>4. \A x \in saved' : x \in saved \/ x.key = m.key
    BY <1>2
  <2> QED
    BY <2>3, <2>4 DEF Done
<1>6. saved \subseteq saved' /\ UNCHANGED closed
  <2>1. closed \in BOOLEAN /\ closed' \in BOOLEAN
    <3>1. closed \in BOOLEAN /\ m.final \in BOOLEAN
      BY <1>1 DEF Shaped, Request
    <3>2. closed' = m.final
      BY DEF Accepts
    <3> QED
      BY <3>1, <3>2
  <2>2. closed' = closed
    BY <1>2, <2>1
  <2> QED
    BY <1>2, <2>2
<1>7. PICK r : r = tab[t]
  OBVIOUS
<1>8. /\ Flying(r.stored) /\ Message(r.stored) = m
      /\ r.copy # None => Flying(r.copy) /\ Message(r.copy) = m
  <2>1. ~Dead(m) /\ WireSound(m, r)
    BY <1>1, <1>2, <1>7 DEF Dead
  <2> QED
    BY <2>1 DEF WireSound, Remembered
<1> HIDE DEF next, e
<1>9. \A c : Message(c) = m =>
         c.frozen.key = m.key /\ c.frozen.content = m.content /\ c.base.revision = Revision
  BY <1>2 DEF Message
<1>10. ASSUME NEW s \in Tabs, NEW x, x = tab[s] PROVE TabSound(s, x)'
  <2>1. TabSound(s, x) /\ x \in Tab
    BY <1>1, <1>10
  <2>2. ASSUME NEW c \in {x.copy, x.stored}, Flying(c), c.frozen.key = m.key
        PROVE  s = t /\ Message(c) = m
    <3>1. c.frozen.key[1] = s
      BY <2>1, <2>2 DEF TabSound, CopySound, AttemptSound, Flying
    <3>2. WireSound(m, x)
      BY <1>1, <1>10, <2>2, <3>1
    <3> QED
      BY <2>2, <3>1, <3>2 DEF WireSound
  <2>3. ASSUME NEW c \in {x.copy, x.stored}, Flying(c)
        PROVE  \/ Done(c.frozen.key)' => Done(c.frozen.key)
               \/ c.base.revision = Revision /\ e = [content |-> c.frozen.content, by |-> s]
    <3>1. CASE c.frozen.key = m.key
      BY <1>9, <2>2, <2>3, <3>1 DEF e
    <3>2. CASE c.frozen.key # m.key
      BY <1>5, <3>2
    <3> QED
      BY <3>1, <3>2
  <2>4. x.attempt # None => (Done(x.attempt.key)' => Done(x.attempt.key))
    <3> SUFFICES ASSUME x.attempt # None, x.attempt.key = m.key PROVE FALSE
      BY <1>5
    <3>1. x.attempt.final /\ x.attempt.key[1] = s
      BY <2>1 DEF TabSound, SubmissionSound
    <3>2. WireSound(m, x)
      BY <1>1, <1>10, <3>1
    <3> QED
      BY <3>1, <3>2 DEF WireSound
  <2>5. e.by = s =>
          /\ Flying(x.stored)
          /\ \A c \in {x.copy, x.stored} : c # None =>
                Flying(c) /\ Done(c.frozen.key)' /\ c.base.revision = Revision
    <3> SUFFICES ASSUME s = t
        PROVE  /\ Flying(x.stored)
               /\ \A c \in {x.copy, x.stored} : c # None =>
                     Flying(c) /\ Done(c.frozen.key)' /\ c.base.revision = Revision
      BY <1>4
    <3>1. x = r
      BY <1>7, <1>10
    <3> QED
      BY <1>5, <1>8, <1>9, <3>1
  <2> QED
    BY <1>1, <1>2, <1>4, <1>6, <2>1, <2>3, <2>4, <2>5, Appending
<1>11. TabSound(t, r)'
  BY <1>1, <1>7, <1>10
<1>12. PICK q \in Tab : tab' = [tab EXCEPT ![t] = q] /\ SameBut(q, r, {"calls"}) /\ TabSound(t, q)'
  BY <1>2, <1>3, <1>5, <1>7, <1>11, Delivered
<1>13. ASSUME NEW n \in wire', NEW x, x = tab[n.key[1]] PROVE WireSound(n, x)'
  <2>1. WireSound(n, x) /\ n \in Request
    BY <1>1, <1>13
  <2>2. n.final => (Done(n.key)' => Done(n.key))
    <3> SUFFICES ASSUME n.final, n.key = m.key PROVE FALSE
      BY <1>5
    <3>1. x = r
      BY <1>7, <1>13
    <3>2. Message(r.stored) = n
      BY <1>8, <1>9, <2>1, <3>1 DEF WireSound
    <3> QED
      BY <1>8, <3>2
  <2> QED
    BY <1>1, <1>2, <1>4, <1>6, <2>1, <2>2, AppendingWire
<1>14. saved' \subseteq [key: Keys, snapshot: Snapshot]
  BY <1>1, <1>2, <1>3 DEF Shaped
<1>15. \A x \in saved' : x.key[2] < tab[x.key[1]].keys
  BY <1>1, <1>2 DEF WireSound
<1>16. Changes'
  BY <1>1, <1>2, <1>4, <1>6, ChangesGrow
<1>17. history' \in Seq(Entry) /\ history' # <<>>
  BY <1>1, <1>2, <1>4, <1>6, Appended
<1>18. closed' \in BOOLEAN /\ budget' \in [edits: Nat, failures: Nat, reloads: Nat, device: Nat]
  BY <1>1, <1>6 DEF Shaped
<1>19. SameBut(q, tab[t], {"calls"}) /\ wire' \subseteq wire /\ UNCHANGED <<signals, typed>>
  BY <1>7, <1>12
<1> QED
  BY <1>1, <1>10, <1>12, <1>13, <1>14, <1>15, <1>16, <1>17, <1>18, <1>19, ServerStep

\* The server handles a request.
LEMMA ServePutSound ==
    ASSUME Sound, NEW m \in wire, ServePut(m)
    PROVE  Sound'
<1>1. wire' = wire \ {m} /\ UNCHANGED <<signals, typed, budget>>
      /\ (Replays(m) \/ Refuses(m) \/ Rejects(m) \/ Accepts(m))
  BY DEF ServePut
<1>2. CASE Accepts(m)
  BY <1>1, <1>2, SubmissionAccepted, SaveAccepted
<1>3. CASE Replays(m) \/ Refuses(m) \/ Rejects(m)
  BY <1>1, <1>3, UnchangingSound
<1> QED
  BY <1>1, <1>2, <1>3

\* What another device does: the tabs are as they were.
LEMMA DeviceStep ==
    ASSUME Sound, UNCHANGED <<wire, tab, signals, typed, saved>>,
           history' \in Seq(Entry), history' # <<>>, closed' \in BOOLEAN, Changes',
           budget' \in [edits: Nat, failures: Nat, reloads: Nat, device: Nat],
           \A s \in Tabs : \A r : r = tab[s] => TabSound(s, r)',
           \A n \in wire : \A r : r = tab[n.key[1]] => WireSound(n, r)'
    PROVE  Sound'
<1>1. Shaped'
  BY DEF Sound, Shaped
<1>2. ASSUME NEW s \in Tabs PROVE TabSound(s, tab[s])'
  <2>1. PICK r : r = tab[s]
    OBVIOUS
  <2> QED
    BY <2>1
<1>3. ASSUME NEW s \in Tabs PROVE TabTyped(typed[s], tab[s])'
  BY DEF Sound, TabTyped, CopyTyped, WasTyped
<1>4. ASSUME NEW n \in wire' PROVE WireSound(n, tab[n.key[1]])'
  <2>1. PICK r : r = tab[n.key[1]]
    OBVIOUS
  <2> QED
    BY <2>1
<1>5. \A x \in saved' : x.key[2] < tab'[x.key[1]].keys
  BY DEF Sound
<1> QED
  BY <1>1, <1>2, <1>3, <1>4, <1>5 DEF Sound

\* Another device saves.
LEMMA DeviceSavesSound ==
    ASSUME Sound, NEW f \in Fields, NEW v \in Values, DeviceSaves(f, v)
    PROVE  Sound'
<1> DEFINE e == [content |-> [Current.content EXCEPT ![f] = v], by |-> None]
<1>1. /\ Shaped /\ Changes
      /\ \A s \in Tabs : TabSound(s, tab[s]) /\ tab[s] \in Tab
      /\ \A n \in wire : WireSound(n, tab[n.key[1]]) /\ n \in Request
  BY DEF Sound, Shaped
<1>2. /\ history' = Append(history, e) /\ Spend("device")
      /\ UNCHANGED <<saved, closed, wire, tab, signals, typed>>
  BY DEF DeviceSaves
<1>3. e \in Entry /\ e.by = None
  <2>1. Current.content \in Content
    BY <1>1, CurrentHad DEF Snapshot
  <2>2. [Current.content EXCEPT ![f] = v] \in Content
    BY <2>1 DEF Content
  <2> QED
    BY <2>2 DEF Entry
<1> HIDE DEF e
<1>4. saved \subseteq saved' /\ \A key : Done(key)' = Done(key)
  BY <1>2 DEF Done
<1>5. ASSUME NEW s \in Tabs, NEW r, r = tab[s] PROVE TabSound(s, r)'
  <2>1. TabSound(s, r) /\ r \in Tab /\ e.by # s
    BY <1>1, <1>3, <1>5, TabsAssumption
  <2> QED
    BY <1>1, <1>2, <1>3, <1>4, <2>1, Appending
<1>6. ASSUME NEW n \in wire, NEW r, r = tab[n.key[1]] PROVE WireSound(n, r)'
  <2>1. WireSound(n, r) /\ n \in Request
    BY <1>1, <1>6
  <2> QED
    BY <1>1, <1>2, <1>3, <1>4, <2>1, AppendingWire
<1>7. Changes' /\ history' \in Seq(Entry) /\ history' # <<>>
  BY <1>1, <1>2, <1>3, <1>4, ChangesGrow, Appended
<1>8. budget' \in [edits: Nat, failures: Nat, reloads: Nat, device: Nat]
  BY <1>1, <1>2, Spends DEF Shaped
<1>9. closed' \in BOOLEAN
  BY <1>1, <1>2 DEF Shaped
<1> QED
  BY <1>2, <1>5, <1>6, <1>7, <1>8, <1>9, DeviceStep

\* Another device submits.
LEMMA DeviceClosesSound ==
    ASSUME Sound, DeviceCloses
    PROVE  Sound'
<1>1. /\ Shaped /\ Changes
      /\ \A s \in Tabs : TabSound(s, tab[s])
      /\ \A n \in wire : WireSound(n, tab[n.key[1]])
  BY DEF Sound, Shaped
<1>2. closed' = TRUE /\ Spend("device") /\ UNCHANGED <<history, saved, wire, tab, signals, typed>>
  BY DEF DeviceCloses
<1>3. saved \subseteq saved' /\ \A key : Done(key)' = Done(key)
  BY <1>2 DEF Done
<1>4. ASSUME NEW s \in Tabs, NEW r, r = tab[s] PROVE TabSound(s, r)'
  <2>1. TabSound(s, r)
    BY <1>1, <1>4
  <2> QED
    BY <1>2, <1>3, <2>1, Closing
<1>5. ASSUME NEW n \in wire, NEW r, r = tab[n.key[1]] PROVE WireSound(n, r)'
  <2>1. WireSound(n, r)
    BY <1>1, <1>5
  <2> QED
    BY <1>2, <2>1, ClosingWire
<1>6. Changes' /\ history' \in Seq(Entry) /\ history' # <<>>
  BY <1>1, <1>2 DEF Changes, Shaped
<1>7. budget' \in [edits: Nat, failures: Nat, reloads: Nat, device: Nat]
  BY <1>1, <1>2, Spends DEF Shaped
<1> QED
  BY <1>2, <1>4, <1>5, <1>6, <1>7, DeviceStep

(***************************************************************************)
(* The invariant, and what follows from it.                                *)
(***************************************************************************)

\* A tab that was never opened.
LEMMA NewTabSound ==
    ASSUME NEW t
    PROVE  NewTab \in Tab /\ TabSound(t, NewTab) /\ \A typing : TabTyped(typing, NewTab)
<1>1. NewTab \in Tab
  BY DEF NewTab, Tab, NoCalls
<1>2. /\ NewTab.copy = None /\ NewTab.stored = None /\ NewTab.trusted = None
      /\ NewTab.attempt = None /\ NewTab.calls = NoCalls /\ ~NewTab.open /\ ~NewTab.over
  BY DEF NewTab
<1>3. \A c \in Calls : NewTab.calls[c] = None
  BY <1>2 DEF NoCalls
<1>4. RepliesSound(NewTab) /\ PutSound(NewTab) /\ GetSound(NewTab) /\ SubmitSound(NewTab)
  BY <1>3 DEF RepliesSound, PutSound, GetSound, SubmitSound, Got, Calls
<1>5. PageSound(NewTab) /\ FirstReadSound(t, NewTab) /\ SubmissionSound(t, NewTab)
      /\ ShowsSubmission(NewTab) /\ KeysDrawn(NewTab)
  BY <1>2 DEF PageSound, FirstReadSound, SubmissionSound, ShowsSubmission, KeysDrawn, Flying
<1> QED
  BY <1>1, <1>2, <1>4, <1>5 DEF TabSound, TabTyped

\* The invariant holds at first: nothing is known, nothing is on the wire.
LEMMA InitSound == Init => Sound
<1> SUFFICES ASSUME Init PROVE Sound
  OBVIOUS
<1> DEFINE e == [content |-> [f \in Fields |-> Blank], by |-> None]
<1>1. e \in Entry
  BY FieldsAssumption DEF Entry, Content
<1>2. history = <<e>> /\ saved = {} /\ wire = {} /\ tab = [t \in Tabs |-> NewTab]
  BY DEF Init
<1> HIDE DEF e
<1>3. history \in Seq(Entry) /\ history # <<>> /\ Len(history) = 1
  BY <1>1, <1>2
<1>4. \A t \in Tabs : tab[t] = NewTab /\ TabSound(t, tab[t]) /\ TabTyped(typed[t], tab[t])
  BY <1>2, NewTabSound
<1>5. budget \in [edits: Nat, failures: Nat, reloads: Nat, device: Nat]
  BY BudgetAssumption DEF Init
<1>6. Shaped
  BY <1>2, <1>3, <1>5, NewTabSound DEF Shaped, Init
<1>7. Changes
  BY <1>3 DEF Changes
<1> QED
  BY <1>2, <1>4, <1>6, <1>7 DEF Sound

\* A step that changes nothing keeps it.
LEMMA StutterSound ==
    ASSUME Sound, UNCHANGED vars
    PROVE  Sound'
<1>1. \A s, x : TabSound(s, x)' = TabSound(s, x)
  BY SameServer DEF vars
<1>2. \A n, x : WireSound(n, x)' = WireSound(n, x)
  BY SameServer DEF vars
<1>3. /\ history' \in Seq(Entry) /\ history' # <<>> /\ closed' \in BOOLEAN /\ Changes'
      /\ budget' \in [edits: Nat, failures: Nat, reloads: Nat, device: Nat]
  BY DEF vars, Sound, Shaped, Changes
<1>4. \A s \in Tabs : \A r : r = tab[s] => TabSound(s, r)'
  BY <1>1 DEF Sound
<1>5. \A n \in wire : \A r : r = tab[n.key[1]] => WireSound(n, r)'
  BY <1>2 DEF Sound
<1> QED
  BY <1>3, <1>4, <1>5, DeviceStep DEF vars

\* And every step of the tabs, the server and the other device does.
LEMMA NextSound ==
    ASSUME Sound, [Next]_vars
    PROVE  Sound'
<1>1. ASSUME NEW t \in Tabs, Open(t) \/ Reload(t) PROVE Sound'
  BY <1>1, OpenSound, ReloadSound
<1>2. ASSUME NEW t \in Tabs, NEW f \in Fields, NEW v \in Values, NEW ok \in BOOLEAN,
             Edit(t, f, v, ok)
      PROVE  Sound'
  BY <1>2, EditSound
<1>3. ASSUME NEW t \in Tabs, NEW ok \in BOOLEAN, SaveStarts(t, ok) PROVE Sound'
  BY <1>3, SaveStartsSound
<1>4. ASSUME NEW t \in Tabs, NEW ok \in BOOLEAN, PutRejected(t, ok) PROVE Sound'
  BY <1>4, PutRejectedSound
<1>5. ASSUME NEW t \in Tabs, NEW ok \in BOOLEAN, SaveCompletes(t, ok) PROVE Sound'
  BY <1>5, SaveCompletesSound
<1>6. ASSUME NEW t \in Tabs, NEW ok \in BOOLEAN, FetchDone(t, ok) PROVE Sound'
  BY <1>6, FetchDoneSound
<1>7. ASSUME NEW t \in Tabs, NEW ok \in BOOLEAN, QueryDone(t, ok) PROVE Sound'
  BY <1>7, QueryDoneSound
<1>8. ASSUME NEW t \in Tabs, PutAcknowledged(t) PROVE Sound'
  BY <1>8, PutAcknowledgedSound
<1>9. ASSUME NEW t \in Tabs, NEW revision \in signals[t], Signal(t, revision) PROVE Sound'
  BY <1>9, SignalSound
<1>10. ASSUME NEW t \in Tabs, Drain(t) \/ Online(t) \/ RetryReads(t) PROVE Sound'
  BY <1>10, DrainSound, OnlineSound, RetryReadsSound
<1>11. ASSUME NEW t \in Tabs, NEW c \in Calls,
              CallFails(t, c) \/ SessionOver(t, c) \/ ServeRead(t, c)
       PROVE  Sound'
  BY <1>11, CallFailsSound, SessionOverSound, ServeReadSound
<1>12. ASSUME NEW t \in Tabs,
              SubmitStarts(t) \/ SubmitAgain(t) \/ SubmitDone(t) \/ SubmitRejected(t)
       PROVE  Sound'
  BY <1>12, SubmitStartsSound, SubmitAgainSound, SubmitDoneSound, SubmitRejectedSound
<1>13. ASSUME NEW m \in wire, ServePut(m) PROVE Sound'
  BY <1>13, ServePutSound
<1>14. ASSUME NEW f \in Fields, NEW v \in Values, DeviceSaves(f, v) PROVE Sound'
  BY <1>14, DeviceSavesSound
<1>15. CASE DeviceCloses
  BY <1>15, DeviceClosesSound
<1>16. CASE UNCHANGED vars
  BY <1>16, StutterSound
<1> QED
  BY <1>1, <1>2, <1>3, <1>4, <1>5, <1>6, <1>7, <1>8, <1>9, <1>10, <1>11, <1>12, <1>13, <1>14,
     <1>15, <1>16 DEF Next

\* What the tabs know of the server, and what the requests on the wire can do, is always
\* so: the invariant of this specification (usePracticeDraftController,
\* submitStudySessionV2Command).
THEOREM DraftInvariant == Spec => []Sound
<1>1. Sound /\ [Next]_vars => Sound'
  BY NextSound
<1> QED
  BY InitSound, <1>1, PTL DEF Spec

\* The records of the tabs, of the requests and of the server have their shapes.
THEOREM DraftTypeCorrect == Spec => []TypeOK
<1>1. Sound => TypeOK
  <2> SUFFICES ASSUME Sound PROVE TypeOK
    OBVIOUS
  <2>1. Shaped
    BY DEF Sound
  <2>2. ASSUME NEW t \in Tabs
        PROVE  /\ \A x \in DOMAIN tab[t].calls : tab[t].calls[x] \in Call \cup {None}
               /\ tab[t].copy \in WorkingCopy \cup {None}
               /\ tab[t].stored \in WorkingCopy \cup {None}
               /\ tab[t].attempt \in Request \cup {None}
    BY <2>1 DEF Shaped, Tab
  <2> QED
    BY <2>1, <2>2 DEF Shaped, TypeOK, Entry
<1> QED
  BY <1>1, DraftInvariant, PTL

\* A tab builds on nothing but drafts the server had, in memory and in the storage, and
\* checks answers against nothing else (fetchCanonicalDraft, reconcileFromServer).
THEOREM BasesAlwaysReal == Spec => []BasesReal
<1>1. Sound => BasesReal
  BY DEF Sound, BasesReal, TabSound, CopySound
<1> QED
  BY <1>1, DraftInvariant, PTL

\* A request that can still change the draft, or close the session, is the attempt that
\* its tab keeps in the storage (performSave, submitStudySessionV2Command).
THEOREM AttemptsNeverForgotten == Spec => []AttemptsRemembered
<1>1. Sound => AttemptsRemembered
  <2> SUFFICES ASSUME Sound, NEW m \in wire, ~closed, ~Recorded(m), ~Stale(m)
      PROVE  LET r == tab[m.key[1]]
             IN  IF m.final THEN r.attempt = m
                 ELSE r.stored # None /\ r.stored.frozen # None /\ r.stored.frozen.key = m.key
    BY DEF AttemptsRemembered
  <2>1. WireSound(m, tab[m.key[1]])
    BY DEF Sound
  <2>2. ~Dead(m)
    BY DEF Dead, Done, Recorded, Stale
  <2> QED
    BY <2>1, <2>2 DEF WireSound, Remembered, Flying, Message
<1> QED
  BY <1>1, DraftInvariant, PTL

\* Only the server's own steps change what the server keeps.
LEMMA TabsLeaveServer ==
    ASSUME [Next]_vars
    PROVE  \/ ServerUnchanged
           \/ \E m \in wire : ServePut(m) /\ Accepts(m)
           \/ (\E f \in Fields, v \in Values : DeviceSaves(f, v)) \/ DeviceCloses
<1> DEFINE Own(t) ==
              \/ Open(t) \/ Reload(t)
              \/ \E f \in Fields, v \in Values, ok \in BOOLEAN : Edit(t, f, v, ok)
              \/ \E ok \in BOOLEAN :
                    SaveStarts(t, ok) \/ PutRejected(t, ok) \/ SaveCompletes(t, ok)
                    \/ FetchDone(t, ok) \/ QueryDone(t, ok)
              \/ PutAcknowledged(t)
              \/ \E revision \in signals[t] : Signal(t, revision)
              \/ Drain(t) \/ Online(t) \/ RetryReads(t)
              \/ \E c \in Calls : CallFails(t, c) \/ SessionOver(t, c) \/ ServeRead(t, c)
              \/ SubmitStarts(t) \/ SubmitAgain(t) \/ SubmitDone(t) \/ SubmitRejected(t)
<1>1. ASSUME NEW t \in Tabs, Own(t) PROVE ServerUnchanged
  <2>1. Open(t) \/ Reload(t) => ServerUnchanged
    BY DEF Open, Reload
  <2>2. (\E f \in Fields, v \in Values, ok \in BOOLEAN : Edit(t, f, v, ok)) => ServerUnchanged
    BY DEF Edit
  <2>3. (\E ok \in BOOLEAN : SaveStarts(t, ok) \/ PutRejected(t, ok)) => ServerUnchanged
    BY DEF SaveStarts, PutRejected
  <2>4. (\E ok \in BOOLEAN : SaveCompletes(t, ok) \/ FetchDone(t, ok) \/ QueryDone(t, ok))
           => ServerUnchanged
    BY DEF SaveCompletes, FetchDone, QueryDone
  <2>5. PutAcknowledged(t) \/ Drain(t) \/ Online(t) \/ RetryReads(t) => ServerUnchanged
    BY DEF PutAcknowledged, Drain, Online, RetryReads
  <2>6. (\E revision \in signals[t] : Signal(t, revision)) => ServerUnchanged
    BY DEF Signal
  <2>7. (\E c \in Calls : CallFails(t, c) \/ SessionOver(t, c) \/ ServeRead(t, c))
           => ServerUnchanged
    BY DEF CallFails, SessionOver, ServeRead, ServerUnchanged
  <2>8. SubmitStarts(t) \/ SubmitAgain(t) \/ SubmitDone(t) \/ SubmitRejected(t)
           => ServerUnchanged
    BY DEF SubmitStarts, SubmitAgain, SubmitDone, SubmitRejected
  <2> HIDE DEF ServerUnchanged
  <2> QED
    BY <1>1, <2>1, <2>2, <2>3, <2>4, <2>5, <2>6, <2>7, <2>8
<1>2. ASSUME NEW m \in wire, ServePut(m) PROVE ServerUnchanged \/ Accepts(m)
  BY <1>2 DEF ServePut, Replays, Refuses, Rejects, ServerUnchanged
<1>3. CASE UNCHANGED vars
  BY <1>3 DEF vars, ServerUnchanged
<1>4. CASE \E t \in Tabs : Own(t)
  BY <1>1, <1>4
<1>5. CASE \E m \in wire : ServePut(m)
  BY <1>2, <1>5
<1>6. \/ UNCHANGED vars \/ (\E t \in Tabs : Own(t)) \/ (\E m \in wire : ServePut(m))
      \/ (\E f \in Fields, v \in Values : DeviceSaves(f, v)) \/ DeviceCloses
  BY DEF Next
<1> QED
  BY <1>3, <1>4, <1>5, <1>6

\* What a request that is accepted finds in the storage of its tab.
LEMMA AcceptedRemembered ==
    ASSUME Sound, NEW m \in wire, Accepts(m)
    PROVE  /\ Remembered(m, tab[m.key[1]]) /\ ~Dead(m) /\ m.expected = Revision
           /\ m.key[1] \in Tabs
<1>1. WireSound(m, tab[m.key[1]]) /\ m.key[1] \in Tabs
  BY DEF Sound, Shaped, Request, Keys
<1>2. ~Dead(m) /\ m.expected = Revision
  BY DEF Accepts, Stale, Recorded, Dead, Done
<1> QED
  BY <1>1, <1>2 DEF WireSound

\* The content of a draft that the server had at its last revision.
LEMMA HadNow ==
    ASSUME Shaped, NEW s, Had(s), s.revision = Revision
    PROVE  s.content = Current.content
<1>1. Len(history) \in Nat
  BY DEF Shaped
<1>2. Revision + 1 = Len(history)
  BY <1>1 DEF Revision
<1> QED
  BY <1>2 DEF Had, Current

\* A step that saves a draft for a tab changes only what was typed in the tab.
LEMMA SavedWasTyped ==
    ASSUME Sound, [Next]_vars, NEW t \in Tabs, NEW f \in Fields,
           Len(history') > Len(history), history'[Len(history')].by = t,
           history'[Len(history')].content[f] # Current.content[f]
    PROVE  \E x \in typed[t] : /\ x.field = f /\ x.value = history'[Len(history')].content[f]
                               /\ x.over \in {None, Current.content[f]}
<1>1. Len(history) \in Nat /\ history \in Seq(Entry)
  BY DEF Sound, Shaped
<1>2. ASSUME NEW e, history' = Append(history, e) PROVE history'[Len(history')] = e
  BY <1>1, <1>2
<1>3. CASE ServerUnchanged
  BY <1>1, <1>3 DEF ServerUnchanged
<1>4. CASE DeviceCloses
  BY <1>1, <1>4 DEF DeviceCloses
<1>5. CASE \E g \in Fields, v \in Values : DeviceSaves(g, v)
  <2>1. PICK g \in Fields, v \in Values : DeviceSaves(g, v)
    BY <1>5
  <2> DEFINE e == [content |-> [Current.content EXCEPT ![g] = v], by |-> None]
  <2>2. history'[Len(history')] = e
    BY <1>2, <2>1 DEF DeviceSaves
  <2>3. t = None
    BY <2>2
  <2> QED
    BY <2>3, TabsAssumption
<1>6. ASSUME NEW m \in wire, Accepts(m)
      PROVE  \E x \in typed[t] : /\ x.field = f /\ x.value = history'[Len(history')].content[f]
                                 /\ x.over \in {None, Current.content[f]}
  <2>1. ~m.final
    BY <1>1, <1>6 DEF Accepts
  <2> DEFINE e == [content |-> m.content, by |-> m.key[1]]
  <2>2. history'[Len(history')] = e
    BY <1>2, <1>6, <2>1 DEF Accepts
  <2>3. m.key[1] = t /\ m.content[f] # Current.content[f]
        /\ history'[Len(history')].content = m.content
    BY <2>2
  <2>4. PICK c : c = tab[t].stored
    OBVIOUS
  <2>5. Flying(c) /\ Message(c) = m /\ m.expected = Revision
    BY <1>6, <2>1, <2>3, <2>4, AcceptedRemembered DEF Remembered
  <2>6. CopySound(t, c) /\ CopyTyped(typed[t], c)
    BY <2>4, <2>5 DEF Sound, TabSound, TabTyped, Flying
  <2>7. c.frozen.content = m.content /\ c.base.revision = Revision
    BY <2>5 DEF Message
  <2>8. c.base.content = Current.content
    BY <2>6, <2>7, HadNow DEF CopySound, Sound
  <2>9. WasTyped(typed[t], f, m.content[f], c.base)
    BY <2>3, <2>5, <2>6, <2>7, <2>8 DEF CopyTyped, Flying
  <2> QED
    BY <2>3, <2>8, <2>9 DEF WasTyped
<1> QED
  BY <1>3, <1>4, <1>5, <1>6, TabsLeaveServer

\* A field of the draft gets from a tab only what was typed there, over the value it
\* replaces or while an attempt was on its way: no rejected save, retry, reload or late
\* request brings back another value (performSave, reconcilePostFlight).
THEOREM SavesAreTyped == Spec => SavesOnlyWhatWasTyped
<1> DEFINE Saves ==
              \A t \in Tabs, f \in Fields :
                 LET old == Current.content
                     new == history'[Len(history')]
                 IN  (Len(history') > Len(history) /\ new.by = t /\ new.content[f] # old[f])
                     => \E x \in typed[t] : /\ x.field = f /\ x.value = new.content[f]
                                            /\ x.over \in {None, old[f]}
<1>1. Sound /\ [Next]_vars => [Saves]_vars
  BY SavedWasTyped
<1> QED
  BY <1>1, DraftInvariant, PTL DEF Spec, SavesOnlyWhatWasTyped

\* A submission that is accepted grades what its tab shows.
LEMMA GradedWasShown ==
    ASSUME Sound, [Next]_vars, NEW m \in wire,
           m.final, ~closed, closed', m \notin wire',
           Ready(m.key[1]), ~Work(tab[m.key[1]].stored)
    PROVE  Visible(tab[m.key[1]].copy) = Current.content
<1>1. CASE Accepts(m)
  <2> DEFINE t == m.key[1]
  <2>1. PICK r : r = tab[t]
    OBVIOUS
  <2>2. r.attempt = m /\ ~Dead(m) /\ m.expected = Revision /\ t \in Tabs
    BY <1>1, <2>1, AcceptedRemembered DEF Remembered
  <2>3. TabSound(t, r) /\ r \in Tab /\ m \in Request
    BY <2>1, <2>2 DEF Sound, Shaped
  <2>4. m # None
    BY <2>3, Records
  <2>5. r.copy # None /\ ~Work(r.stored)
    BY <2>1 DEF Ready
  <2>6. Revision <= r.copy.base.revision /\ ~Work(r.copy)
    BY <2>2, <2>3, <2>4, <2>5 DEF TabSound, ShowsSubmission
  <2>7. Had(r.copy.base) /\ r.copy \in WorkingCopy
    BY <2>3, <2>5 DEF TabSound, CopySound, Tab
  <2>8. r.copy.base.revision = Revision
    <3>1. r.copy.base.revision \in Nat /\ Revision \in Nat
      BY <2>7, CurrentHad DEF WorkingCopy, Snapshot, Sound
    <3> QED
      BY <2>6, <2>7, <3>1 DEF Had
  <2>9. r.copy.base.content = Current.content
    BY <2>7, <2>8, HadNow DEF Sound
  <2>10. Visible(r.copy) = r.copy.base.content
    BY <2>5, <2>6, <2>7, Applied DEF Visible, Work, WorkingCopy, Snapshot
  <2> QED
    BY <2>1, <2>9, <2>10
<1>2. CASE ServerUnchanged
  BY <1>2 DEF ServerUnchanged
<1>3. CASE DeviceCloses
  BY <1>3 DEF DeviceCloses
<1>4. CASE \E g \in Fields, v \in Values : DeviceSaves(g, v)
  BY <1>4 DEF DeviceSaves
<1>5. ASSUME NEW n \in wire, ServePut(n), Accepts(n) PROVE m = n
  BY <1>5 DEF ServePut
<1> QED
  BY <1>1, <1>2, <1>3, <1>4, <1>5, TabsLeaveServer

\* What is graded is what the tab that asked for it shows, even when the request was sent
\* long before and the tab was reloaded or has read the draft again since
\* (submitStudySessionV2Command).
THEOREM GradesAreShown == Spec => GradedAsShown
<1> DEFINE Grades ==
              \A m \in wire :
                 LET r == tab[m.key[1]]
                 IN  (/\ m.final /\ ~closed /\ closed' /\ m \notin wire'
                      /\ Ready(m.key[1]) /\ ~Work(r.stored))
                     => Visible(r.copy) = Current.content
<1>1. Sound /\ [Next]_vars => [Grades]_vars
  BY GradedWasShown
<1> QED
  BY <1>1, DraftInvariant, PTL DEF Spec, GradedAsShown

(***************************************************************************)
(* What a tab shows.                                                       *)
(***************************************************************************)

\* What tab t shows, where the copy old gives way to new, changes only in fields that
\* somebody else has changed, and then to what the server has.
Keeps(t, old, new) ==
    (/\ old # None /\ new # None
     /\ old.frozen # None => ~old.frozen.rejected)
    => \A f \in Fields :
          \/ Visible(new)[f] = Visible(old)[f]
          \/ /\ ChangedByOthers(t, f, old.base.revision, new.base.revision)
             /\ Visible(new)[f] = new.base.content[f]

\* A step keeps what every tab shows.
AllKeep == \A t \in Tabs : Keeps(t, tab[t].copy, tab'[t].copy)

\* A turn that leaves the copy, drops it, or gives one that shows what it should.
LEMMA TurnKeeps ==
    ASSUME NEW t \in Tabs, tab \in [Tabs -> Tab], NEW q, tab' = [tab EXCEPT ![t] = q],
           Keeps(t, tab[t].copy, q.copy)
    PROVE  AllKeep
<1>1. tab'[t] = q /\ \A s \in Tabs \ {t} : tab'[s] = tab[s]
  OBVIOUS
<1>2. \A s, c : Keeps(s, c, c)
  BY DEF Keeps
<1> QED
  BY <1>1, <1>2 DEF AllKeep

\* So does a turn that leaves the copy or drops it.
LEMMA LeavingKeeps ==
    ASSUME NEW t \in Tabs, tab \in [Tabs -> Tab], NEW q, tab' = [tab EXCEPT ![t] = q],
           q.copy \in {tab[t].copy, None}
    PROVE  AllKeep
<1>1. Keeps(t, tab[t].copy, q.copy)
  BY DEF Keeps
<1> QED
  BY <1>1, TurnKeeps

\* A field that differs between two revisions, the first of which no save of the tab
\* follows, was changed between them by somebody else.
LEMMA OthersChanged ==
    ASSUME Sound, NEW t \in Tabs, NEW f \in Fields, NEW from \in Nat, NEW a \in Nat, NEW b \in Nat,
           from <= a, a <= b, b <= Revision, OwnUpTo(t, a),
           history[a + 1].content[f] # history[b + 1].content[f]
    PROVE  ChangedByOthers(t, f, from, b)
<1>1. Len(history) \in Nat /\ Revision = Len(history) - 1
  BY DEF Sound, Shaped, Revision
<1>2. a + 1 \in 1 .. Len(history) /\ b + 1 \in 1 .. Len(history) /\ a + 1 < b + 1
  <2>1. a # b
    OBVIOUS
  <2> QED
    BY <1>1, <2>1
<1>3. PICK k \in (a + 1) + 1 .. b + 1 : history[k].content[f] # history[k - 1].content[f]
  BY <1>2 DEF Sound, Changes
<1>4. k \in 1 .. Len(history) /\ k \in from + 2 .. b + 1 /\ ~(k <= a + 1)
  BY <1>1
<1>5. history[k].by # t
  BY <1>4 DEF OwnUpTo
<1> QED
  BY <1>3, <1>4, <1>5 DEF ChangedByOthers

\* A copy without an attempt, laid over a base to show a draft, shows that draft.
LEMMA LaidShows ==
    ASSUME NEW base \in Snapshot, NEW to \in Content, NEW c,
           c = [CleanCopy(base) EXCEPT !.local = DiffOf(base.content, to)]
    PROVE  c.base = base /\ Visible(c) = to
<1>1. base.content \in Content
  BY DEF Snapshot
<1> DEFINE local == DiffOf(base.content, to)
<1>2. local \in Diff /\ Apply(base.content, local) = to
  BY <1>1, Differed
<1> HIDE DEF local
<1>3. c.base = base /\ c.local = local /\ c.frozen = None
  <2>1. c = [CleanCopy(base) EXCEPT !.local = local]
    BY DEF local
  <2>2. /\ [CleanCopy(base) EXCEPT !.local = local].base = base
        /\ [CleanCopy(base) EXCEPT !.local = local].local = local
        /\ [CleanCopy(base) EXCEPT !.local = local].frozen = None
    BY <1>2, CleanCopies
  <2> QED
    BY <2>1, <2>2
<1> QED
  BY <1>2, <1>3 DEF Visible

\* A merge keeps what is shown, but for fields of the new base that differ from the old one.
LEMMA MergeKeeps ==
    ASSUME Sound, NEW t \in Tabs, NEW r \in Tab, NEW c \in WorkingCopy, c.frozen = None,
           CopySound(t, c), NEW remote \in Snapshot, Had(remote),
           c.base.revision <= remote.revision, NEW ok \in BOOLEAN
    PROVE  Keeps(t, c, Reconciled(r, c, remote, ok).copy)
<1> DEFINE merged == Merge(c.base.content, Visible(c), remote.content)
           local == DiffOf(remote.content, merged)
           new == Reconciled(r, c, remote, ok).copy
<1>1. /\ c.base.content \in Content /\ remote.content \in Content /\ Visible(c) \in Content
      /\ c.base.revision \in Nat /\ remote.revision \in Nat
  BY Visibles DEF WorkingCopy, Snapshot
<1>2. merged \in Content
  BY <1>1, Merged
<1>3. local \in Diff
  BY <1>1, <1>2, Differed
<1>4. new = [CleanCopy(remote) EXCEPT !.local = local]
  <2>1. Reconciled(r, c, remote, ok) = Adopted(r, remote, local, ok)
    BY DEF Reconciled
  <2> HIDE DEF local
  <2> QED
    BY <1>3, <2>1, AdoptedTab
<1> HIDE DEF new
<1>5. new.base = remote /\ Visible(new) = merged
  <2> HIDE DEF merged
  <2> QED
    BY <1>2, <1>4, LaidShows
<1>6. Had(c.base) /\ OwnUpTo(t, c.base.revision)
  BY DEF CopySound, OwnSaves
<1>7. ASSUME NEW f \in Fields, merged[f] # Visible(c)[f]
      PROVE  /\ ChangedByOthers(t, f, c.base.revision, remote.revision)
             /\ merged[f] = remote.content[f]
  <2>1. merged[f] = remote.content[f] /\ remote.content[f] # c.base.content[f]
    BY <1>7 DEF Merge
  <2>2. history[c.base.revision + 1].content[f] # history[remote.revision + 1].content[f]
        /\ remote.revision <= Revision
    BY <1>6, <2>1 DEF Had
  <2>3. c.base.revision <= c.base.revision
    BY <1>1
  <2> QED
    BY <1>1, <1>6, <2>1, <2>2, <2>3, OthersChanged
<1> HIDE DEF merged
<1>8. Keeps(t, c, new)
  BY <1>5, <1>7 DEF Keeps
<1> QED
  BY <1>8 DEF new

\* An attempt shows what the work it was made of showed.
LEMMA SaveStartsKeeps ==
    ASSUME Sound, NEW t \in Tabs, NEW ok \in BOOLEAN, SaveStarts(t, ok)
    PROVE  AllKeep
<1> DEFINE s == tab[t]
           fresh == s.copy.frozen = None
           made == [s.copy EXCEPT !.local = NoDiff,
                                  !.frozen = [key |-> <<t, s.keys>>, rejected |-> FALSE,
                                              content |-> Visible(s.copy)]]
           copy == IF ~fresh THEN s.copy ELSE made
           stored == Kept(s, copy, "saving", ok)
           kept == [stored EXCEPT !.keys = IF fresh THEN @ + 1 ELSE @]
           q == IF ok THEN Dispatched(kept, copy) ELSE kept
<1>1. s \in Tab /\ TabSound(t, s) /\ tab \in [Tabs -> Tab]
  BY DEF Sound, Shaped
<1>2. s.copy # None /\ tab' = [tab EXCEPT ![t] = q]
  BY DEF SaveStarts, Ready, Become
<1>3. s.copy \in WorkingCopy /\ CopySound(t, s.copy) /\ <<t, s.keys>> \in Keys /\ s.keys \in Nat
  BY <1>1, <1>2 DEF Tab, TabSound, Keys
<1> HIDE DEF s
<1>4. fresh => /\ made \in WorkingCopy /\ made.frozen # None
               /\ made.frozen.content = Visible(s.copy) /\ made.post = s.copy.post
  BY <1>3, Attempts
<1> HIDE DEF made
<1>5. copy \in WorkingCopy /\ (ok => copy.frozen # None)
  BY <1>3, <1>4
<1>6. Visible(copy) = Visible(s.copy)
  <2>1. CASE ~fresh
    BY <2>1
  <2>2. CASE fresh
    <3>1. s.copy.post = NoDiff /\ Visible(s.copy) \in Content
      BY <1>3, <2>2, Visibles DEF CopySound
    <3>2. Visible(made) = Apply(Visible(s.copy), NoDiff)
      BY <1>4, <2>2, <3>1 DEF Visible
    <3>3. NoDiff \in Diff
      BY DEF NoDiff, Diff
    <3> QED
      BY <2>2, <3>1, <3>2, <3>3, Applied
  <2> QED
    BY <2>1, <2>2
<1> HIDE DEF copy, fresh
<1>7. stored \in Tab /\ stored.copy = copy
  BY <1>1, <1>5, KeptTab DEF Statuses
<1> HIDE DEF stored
<1>8. kept \in Tab /\ kept.copy = copy
  BY <1>7 DEF Tab
<1> HIDE DEF kept
<1>9. q.copy = copy
  BY <1>5, <1>8, DispatchedTab DEF SameBut, Parts
<1> HIDE DEF q
<1>10. Keeps(t, s.copy, q.copy)
  BY <1>6, <1>9 DEF Keeps
<1> QED
  BY <1>1, <1>2, <1>10, TurnKeeps DEF s

\* A rejected attempt shows what it showed.
LEMMA PutRejectedKeeps ==
    ASSUME Sound, NEW t \in Tabs, NEW ok \in BOOLEAN, PutRejected(t, ok)
    PROVE  AllKeep
<1> DEFINE s == tab[t]
           r == [s EXCEPT !.calls["put"] = None]
           copy == [r.copy EXCEPT !.frozen.rejected = TRUE]
           kept == Kept(r, copy, "saving", ok)
           q == IF ok THEN Dispatched(kept, copy) ELSE kept
<1>0. "put" \in Calls
  BY DEF Calls
<1>1. s \in Tab /\ TabSound(t, s) /\ tab \in [Tabs -> Tab]
  BY DEF Sound, Shaped
<1>2. r \in Tab /\ SameBut(r, s, {"calls"})
  BY <1>0, <1>1, OverTab
<1>3. s.calls["put"] # None /\ tab' = [tab EXCEPT ![t] = q]
  BY DEF PutRejected, Answered, Become
<1>4. Flying(s.copy)
  BY <1>1, <1>3 DEF TabSound, PutSound
<1>5. s.copy \in WorkingCopy /\ s.copy.frozen # None /\ r.copy = s.copy
  BY <1>1, <1>2, <1>4 DEF Tab, Flying, SameBut, Parts
<1> HIDE DEF s, r
<1>6. /\ copy \in WorkingCopy /\ copy.frozen # None /\ copy.post = s.copy.post
      /\ copy.frozen.content = s.copy.frozen.content
  BY <1>5, Marked
<1>7. Visible(copy) = Visible(s.copy)
  BY <1>5, <1>6 DEF Visible
<1> HIDE DEF copy
<1>8. kept \in Tab /\ kept.copy = copy
  BY <1>2, <1>6, KeptTab DEF Statuses
<1> HIDE DEF kept
<1>9. q.copy = copy
  BY <1>6, <1>8, DispatchedTab DEF SameBut, Parts
<1> HIDE DEF q
<1>10. Keeps(t, s.copy, q.copy)
  BY <1>7, <1>9 DEF Keeps
<1> QED
  BY <1>1, <1>3, <1>10, TurnKeeps DEF s

\* After a save a tab shows what it was asked to save and what was typed since; where the
\* draft read back differs from it, somebody else has changed it in between.
LEMMA SaveCompletesKeeps ==
    ASSUME Sound, NEW t \in Tabs, NEW ok \in BOOLEAN, SaveCompletes(t, ok)
    PROVE  AllKeep
<1> DEFINE s == tab[t]
           call == s.calls["get"]
           read == call.reply.snapshot
           remote == Latest(s, read)
           good == /\ Canonical(s, call)
                   /\ s.copy.frozen.rejected => remote.revision > s.copy.base.revision
           merged == Apply(remote.content, s.copy.post)
           local == DiffOf(remote.content, merged)
           r == Trusting(s, "get", remote)
           q == Adopted(r, remote, local, ok)
           a == Alarmed(s)
           b == [a EXCEPT !.calls["get"] = None]
<1>0. "get" \in Calls
  BY DEF Calls
<1>1. TabSound(t, s) /\ Shaped /\ tab \in [Tabs -> Tab]
  BY DEF Sound, Shaped
<1>2. Got(s, "get", "ok")
  BY DEF SaveCompletes, Answered, Got
<1>3. /\ s \in Tab /\ Flying(s.copy) /\ s.copy \in WorkingCopy /\ CopySound(t, s.copy)
      /\ read \in Snapshot /\ Had(read) /\ call.boundary \in Snapshot
  BY <1>2, ReadBack
<1>4. tab' = [tab EXCEPT ![t] = IF good THEN q ELSE b]
  BY DEF SaveCompletes, Become
<1>5. CASE ~good
  <2>1. tab' = [tab EXCEPT ![t] = b]
    BY <1>4, <1>5
  <2>2. a \in Tab /\ a.copy = s.copy
    BY <1>3, AlarmedTab DEF SameBut, Parts
  <2> HIDE DEF a
  <2>3. b.copy = s.copy
    BY <1>0, <2>2, OverTab DEF SameBut, Parts
  <2> HIDE DEF b
  <2> QED
    BY <1>1, <2>1, <2>3, LeavingKeeps
<1>6. CASE good
  <2>0. tab' = [tab EXCEPT ![t] = q]
    BY <1>4, <1>6
  <2>1. remote \in Snapshot /\ Had(remote)
    BY <1>1, <1>3, LatestHad DEF TabSound
  <2>2. call.boundary.revision <= remote.revision
    <3>1. call.boundary # None
      BY <1>3, Records
    <3> QED
      BY <1>6, <3>1 DEF Canonical, Progresses
  <2>3. r \in Tab
    BY <1>0, <1>3, <2>1, TrustingTab
  <2>4. GetSound(s)
    BY <1>1 DEF TabSound
  <2>5. s.calls["get"] # None
    BY <1>2 DEF Got
  <2> HIDE DEF remote, read, good, r, s, call
  <2>6. /\ remote.content \in Content /\ s.copy.post \in Diff /\ s.copy.base.revision \in Nat
        /\ remote.revision \in Nat /\ s.copy.frozen \in Frozen
    BY <1>3, <2>1 DEF WorkingCopy, Snapshot, Flying
  <2>7. merged \in Content
    BY <2>6, Applied
  <2>8. local \in Diff
    BY <2>6, <2>7, Differed
  <2>9. q.copy = [CleanCopy(remote) EXCEPT !.local = local]
    <3> HIDE DEF local
    <3> QED
      BY <2>1, <2>3, <2>8, AdoptedTab
  <2>10. q.copy.base = remote /\ Visible(q.copy) = merged
    <3> HIDE DEF merged, q
    <3> QED
      BY <2>1, <2>7, <2>9, LaidShows
  <2> HIDE DEF q, local
  <2>11. Visible(s.copy) = Apply(s.copy.frozen.content, s.copy.post)
    BY <1>3 DEF Visible, Flying
  <2>12. ASSUME ~s.copy.frozen.rejected, NEW f \in Fields, merged[f] # Visible(s.copy)[f]
         PROVE  /\ ChangedByOthers(t, f, s.copy.base.revision, remote.revision)
                /\ merged[f] = remote.content[f]
    <3>1. s.copy.post[f] = None /\ merged[f] = remote.content[f]
          /\ remote.content[f] # s.copy.frozen.content[f]
      BY <2>11, <2>12 DEF Apply
    <3>2. /\ Done(s.copy.frozen.key)
          /\ call.boundary.revision = s.copy.base.revision + 1
      BY <2>4, <2>5, <2>12 DEF GetSound, call
    <3>3. /\ history[s.copy.base.revision + 2].content = s.copy.frozen.content
          /\ OwnSaves(t, s.copy)
      BY <1>3, <3>2 DEF CopySound, AttemptSound, Flying
    <3>4. s.copy.base.revision <= s.copy.base.revision + 1 /\ s.copy.base.revision + 1 \in Nat
          /\ (s.copy.base.revision + 1) + 1 = s.copy.base.revision + 2
      BY <2>6
    <3>5. OwnUpTo(t, s.copy.base.revision + 1)
      BY <1>1, <2>6, <3>3, <3>4, OwnLater DEF OwnSaves
    <3>6. remote.revision <= Revision /\ history[remote.revision + 1].content = remote.content
      BY <2>1 DEF Had
    <3>7. s.copy.base.revision + 1 <= remote.revision
      BY <2>2, <3>2
    <3>8. history[(s.copy.base.revision + 1) + 1].content[f] # history[remote.revision + 1].content[f]
      BY <3>1, <3>3, <3>4, <3>6
    <3> QED
      BY <2>6, <3>1, <3>4, <3>5, <3>6, <3>7, <3>8, OthersChanged
  <2>13. Keeps(t, s.copy, q.copy)
    <3> HIDE DEF merged
    <3> QED
      BY <1>3, <2>10, <2>12 DEF Keeps, Flying
  <2> QED
    BY <1>1, <2>0, <2>13, TurnKeeps DEF s
<1> QED
  BY <1>5, <1>6

\* A refresh merges the draft it has read with what is shown, or leaves it.
LEMMA FetchDoneKeeps ==
    ASSUME Sound, NEW t \in Tabs, NEW ok \in BOOLEAN, FetchDone(t, ok)
    PROVE  AllKeep
<1> DEFINE s == tab[t]
           call == s.calls["fetch"]
           read == [s EXCEPT !.calls["fetch"] = None]
           remote == Latest(read, call.reply.snapshot)
           r == IF Canonical(read, call) THEN Trusting(read, "fetch", remote) ELSE read
           first == CaughtUp([r EXCEPT !.copy = CleanCopy(remote), !.status = "clean",
                                       !.blocked = FALSE])
           later == [r EXCEPT !.pending = IF remote.revision > @ THEN remote.revision ELSE @,
                              !.deferred = TRUE]
           frozen == r.copy # None /\ r.copy.frozen # None
           next == IF ~Canonical(read, call)
                      \/ (r.copy # None /\ ~Progresses(r.copy.base, remote))
                   THEN IF r.copy = None THEN r ELSE Alarmed(r)
                   ELSE IF r.copy = None THEN first
                   ELSE IF frozen THEN later
                   ELSE Reconciled(r, r.copy, remote, ok)
<1>0. "fetch" \in Calls /\ "fetch" \in Reads
  BY DEF Calls, Reads
<1>1. s \in Tab /\ TabSound(t, s) /\ Shaped /\ tab \in [Tabs -> Tab]
  BY DEF Sound, Shaped
<1>2. Got(s, "fetch", "ok")
  BY DEF FetchDone, Answered, Got
<1>3. tab' = [tab EXCEPT ![t] = next]
  BY DEF FetchDone, Become
<1>4. call.reply.snapshot \in Snapshot /\ Had(call.reply.snapshot)
  BY <1>0, <1>1, <1>2, Answers DEF TabSound
<1>5. read \in Tab /\ SameBut(read, s, {"calls"})
  BY <1>0, <1>1, OverTab
<1>6. read.trusted = s.trusted /\ read.copy = s.copy /\ (s.trusted # None => Had(s.trusted))
  BY <1>1, <1>5 DEF SameBut, Parts, TabSound
<1> HIDE DEF s, call, read
<1>7. remote \in Snapshot /\ Had(remote)
  BY <1>4, <1>5, <1>6, LatestHad
<1> HIDE DEF remote
<1>8. r \in Tab /\ r.copy = s.copy
  <2>1. Trusting(read, "fetch", remote) \in Tab /\ Trusting(read, "fetch", remote).copy = read.copy
    BY <1>0, <1>5, <1>7, TrustingTab DEF SameBut, Parts
  <2> QED
    BY <1>5, <1>6, <2>1
<1> HIDE DEF r
<1>9. CASE r.copy = None
  <2>1. Keeps(t, s.copy, next.copy)
    BY <1>8, <1>9 DEF Keeps
  <2> HIDE DEF next
  <2> QED
    BY <1>1, <1>3, <2>1, TurnKeeps DEF s
<1>10. CASE next = Alarmed(r)
  <2>1. Alarmed(r).copy = s.copy
    BY <1>8, AlarmedTab DEF SameBut, Parts
  <2> HIDE DEF next
  <2> QED
    BY <1>1, <1>3, <1>10, <2>1, LeavingKeeps DEF s
<1>11. CASE next = later
  <2>1. later.copy = s.copy
    BY <1>8 DEF Tab
  <2> HIDE DEF next, later
  <2> QED
    BY <1>1, <1>3, <1>11, <2>1, LeavingKeeps DEF s
<1>12. CASE /\ r.copy # None /\ r.copy.frozen = None /\ Progresses(r.copy.base, remote)
            /\ next = Reconciled(r, r.copy, remote, ok)
  <2>1. /\ r.copy \in WorkingCopy /\ r.copy.base.revision <= remote.revision
        /\ CopySound(t, r.copy)
    BY <1>1, <1>7, <1>8, <1>12 DEF Tab, Progresses, WorkingCopy, Snapshot, TabSound
  <2>2. Keeps(t, r.copy, Reconciled(r, r.copy, remote, ok).copy)
    BY <1>7, <1>8, <1>12, <2>1, MergeKeeps
  <2> HIDE DEF next
  <2> QED
    BY <1>1, <1>3, <1>8, <1>12, <2>2, TurnKeeps DEF s
<1>13. \/ r.copy = None
       \/ next \in {Alarmed(r), later}
       \/ /\ r.copy # None /\ r.copy.frozen = None /\ Progresses(r.copy.base, remote)
          /\ next = Reconciled(r, r.copy, remote, ok)
  <2> HIDE DEF first, later
  <2> QED
    OBVIOUS
<1> QED
  BY <1>9, <1>10, <1>11, <1>12, <1>13

\* And so does the query of the draft.
LEMMA QueryDoneKeeps ==
    ASSUME Sound, NEW t \in Tabs, NEW ok \in BOOLEAN, QueryDone(t, ok)
    PROVE  AllKeep
<1> DEFINE s == tab[t]
           r == [s EXCEPT !.calls["query"] = None]
           remote == s.calls["query"].reply.snapshot
           mine == IF r.copy = None THEN r.stored ELSE r.copy
           first == CaughtUp([r EXCEPT !.copy = CleanCopy(remote), !.alarm = FALSE,
                                       !.blocked = FALSE])
           shown == [r EXCEPT !.copy = mine]
           calm == [r EXCEPT !.alarm = r.copy # None /\ @]
           next == IF mine = None THEN first
                   ELSE IF mine.frozen # None THEN r
                   ELSE IF ~Progresses(mine.base, remote) THEN Alarmed(shown)
                   ELSE IF r.copy = None \/ remote.revision > mine.base.revision
                   THEN Reconciled(calm, mine, remote, ok)
                   ELSE r
<1>0. "query" \in Calls /\ "query" \in Reads
  BY DEF Calls, Reads
<1>1. s \in Tab /\ TabSound(t, s) /\ Shaped /\ tab \in [Tabs -> Tab]
  BY DEF Sound, Shaped
<1>2. Got(s, "query", "ok")
  BY DEF QueryDone, Answered, Got
<1>3. tab' = [tab EXCEPT ![t] = next]
  BY DEF QueryDone, Become
<1>4. remote \in Snapshot /\ Had(remote)
  BY <1>0, <1>1, <1>2, Answers DEF TabSound
<1>5. r \in Tab /\ r.copy = s.copy
  BY <1>0, <1>1, OverTab DEF SameBut, Parts
<1> HIDE DEF s, r, remote
<1>6. CASE r.copy = None
  <2>1. Keeps(t, s.copy, next.copy)
    BY <1>5, <1>6 DEF Keeps
  <2> HIDE DEF next
  <2> QED
    BY <1>1, <1>3, <2>1, TurnKeeps DEF s
<1>7. CASE next = r
  <2> HIDE DEF next
  <2> QED
    BY <1>1, <1>3, <1>5, <1>7, LeavingKeeps DEF s
<1>8. CASE r.copy # None /\ next = Alarmed(shown)
  <2>1. shown \in Tab /\ shown.copy = r.copy
    BY <1>5, <1>8 DEF Tab
  <2> HIDE DEF next, shown
  <2>2. Alarmed(shown).copy = s.copy
    BY <1>5, <2>1, AlarmedTab DEF SameBut, Parts
  <2> QED
    BY <1>1, <1>3, <1>8, <2>2, LeavingKeeps DEF s
<1>9. CASE /\ r.copy # None /\ r.copy.frozen = None /\ Progresses(r.copy.base, remote)
           /\ next = Reconciled(calm, r.copy, remote, ok)
  <2>1. /\ r.copy \in WorkingCopy /\ r.copy.base.revision <= remote.revision
        /\ CopySound(t, r.copy)
    BY <1>1, <1>4, <1>5, <1>9 DEF Tab, Progresses, WorkingCopy, Snapshot, TabSound
  <2>2. calm \in Tab
    <3> DEFINE b == r.copy # None /\ r.alarm
    <3>1. b \in BOOLEAN /\ calm = [r EXCEPT !.alarm = b]
      BY <1>5
    <3> HIDE DEF b, calm
    <3> QED
      BY <1>5, <3>1 DEF Tab
  <2> HIDE DEF next, calm
  <2>3. Keeps(t, r.copy, Reconciled(calm, r.copy, remote, ok).copy)
    BY <1>4, <1>9, <2>1, <2>2, MergeKeeps
  <2> QED
    BY <1>1, <1>3, <1>5, <1>9, <2>3, TurnKeeps DEF s
<1>10. \/ r.copy = None
       \/ next = r
       \/ r.copy # None /\ next = Alarmed(shown)
       \/ /\ r.copy # None /\ r.copy.frozen = None /\ Progresses(r.copy.base, remote)
          /\ next = Reconciled(calm, r.copy, remote, ok)
  <2> HIDE DEF shown, calm, first
  <2> QED
    OBVIOUS
<1> QED
  BY <1>6, <1>7, <1>8, <1>9, <1>10

\* A signal of another tab changes nothing that is shown.
LEMMA SignalKeeps ==
    ASSUME Sound, NEW t \in Tabs, NEW revision \in signals[t], Signal(t, revision)
    PROVE  AllKeep
<1> DEFINE r == [tab[t] EXCEPT !.pending = IF revision > @ THEN revision ELSE @]
<1>1. tab[t] \in Tab /\ tab \in [Tabs -> Tab] /\ revision \in Nat
  BY DEF Sound, Shaped
<1>2. r \in Tab /\ r.copy = tab[t].copy
  BY <1>1 DEF Tab
<1>3. PICK q \in {tab[t], r, CaughtUp(r), [r EXCEPT !.deferred = TRUE], Refreshing(r), Checking(r)} :
         tab' = [tab EXCEPT ![t] = q]
  BY DEF Signal, Become
<1> HIDE DEF r
<1>4. [r EXCEPT !.deferred = TRUE].copy = r.copy
  BY <1>2 DEF Tab
<1>5. CaughtUp(r).copy = r.copy /\ Refreshing(r).copy = r.copy /\ Checking(r).copy = r.copy
  BY <1>2, CaughtUpTab, RefreshingTab, CheckingTab DEF SameBut, Parts
<1>6. q.copy = tab[t].copy
  BY <1>2, <1>3, <1>4, <1>5
<1> QED
  BY <1>1, <1>3, <1>6, LeavingKeeps

\* The page is opened without a copy, and leaves, or ends, without one.
LEMMA PagesKeep ==
    ASSUME Sound, NEW t \in Tabs,
           \/ Open(t) \/ Reload(t) \/ SubmitDone(t)
           \/ \E c \in Calls : SessionOver(t, c)
    PROVE  AllKeep
<1>1. tab[t] \in Tab /\ tab \in [Tabs -> Tab] /\ TabSound(t, tab[t])
  BY DEF Sound, Shaped
<1>2. CASE Open(t)
  <2>1. tab[t].copy = None
    BY <1>1, <1>2 DEF Open, TabSound, PageSound
  <2>2. PICK q : tab' = [tab EXCEPT ![t] = q]
    BY <1>2 DEF Open, Become
  <2>3. Keeps(t, tab[t].copy, q.copy)
    BY <2>1 DEF Keeps
  <2> QED
    BY <1>1, <2>2, <2>3, TurnKeeps
<1>3. CASE Reload(t)
  <2> DEFINE q == [NewTab EXCEPT !.stored = tab[t].stored, !.attempt = tab[t].attempt,
                                 !.keys = tab[t].keys]
  <2>1. tab' = [tab EXCEPT ![t] = q] /\ q.copy = None
    BY <1>3 DEF Reload, Become, NewTab
  <2> HIDE DEF q
  <2> QED
    BY <1>1, <2>1, LeavingKeeps
<1>4. Ended(tab[t]).copy = None
  BY DEF Ended, NewTab
<1>5. CASE SubmitDone(t) \/ \E c \in Calls : SessionOver(t, c)
  <2>1. tab' = [tab EXCEPT ![t] = Ended(tab[t])]
    BY <1>5 DEF SubmitDone, SessionOver, Become
  <2> QED
    BY <1>1, <1>4, <2>1, LeavingKeeps
<1> QED
  BY <1>2, <1>3, <1>5

\* Calls are begun, answered, given up and done with over the same copy.
LEMMA CallsKeep ==
    ASSUME Sound, NEW t \in Tabs,
           \/ PutAcknowledged(t) \/ Drain(t) \/ Online(t) \/ RetryReads(t)
           \/ SubmitStarts(t) \/ SubmitAgain(t) \/ SubmitRejected(t)
           \/ \E c \in Calls : CallFails(t, c) \/ ServeRead(t, c)
    PROVE  AllKeep
<1> DEFINE s == tab[t]
<1>1. s \in Tab /\ tab \in [Tabs -> Tab] /\ TabSound(t, s)
  BY DEF Sound, Shaped
<1>2. ASSUME NEW q, tab' = [tab EXCEPT ![t] = q], q.copy = s.copy PROVE AllKeep
  BY <1>1, <1>2, LeavingKeeps
<1>3. Refreshing(s).copy = s.copy /\ Checking(s).copy = s.copy
  BY <1>1, RefreshingTab, CheckingTab DEF SameBut, Parts
<1>4. CASE Drain(t) \/ Online(t) \/ RetryReads(t)
  <2>1. PICK q \in {Refreshing(s), Checking(s)} : tab' = [tab EXCEPT ![t] = q]
    BY <1>4 DEF Drain, Online, RetryReads, Become
  <2> HIDE DEF s
  <2> QED
    BY <1>2, <1>3, <2>1
<1>5. CASE PutAcknowledged(t)
  <2> DEFINE r == [s EXCEPT !.calls["put"] = None]
             ack == s.calls["put"].reply.snapshot
             asked == [revision |-> r.copy.base.revision + 1, content |-> r.copy.frozen.content]
  <2>0. "put" \in Calls /\ "get" \in Calls
    BY DEF Calls
  <2>1. r \in Tab /\ r.copy = s.copy
    BY <1>1, <2>0, OverTab DEF SameBut, Parts
  <2>2. tab' = [tab EXCEPT ![t] = IF ack = asked THEN Fetching(r, "get", ack) ELSE Alarmed(r)]
    BY <1>5 DEF PutAcknowledged, Become
  <2>3. Fetching(r, "get", ack).copy = r.copy
    <3> HIDE DEF r, ack
    <3> QED
      BY <2>1 DEF Fetching, Tab
  <2>4. Alarmed(r).copy = r.copy
    BY <2>1, AlarmedTab DEF SameBut, Parts
  <2> HIDE DEF r, ack, asked, s
  <2> QED
    BY <1>2, <2>1, <2>2, <2>3, <2>4
<1>6. CASE SubmitStarts(t)
  <2> DEFINE m == [key |-> <<t, s.keys>>, content |-> s.copy.base.content,
                   expected |-> s.copy.base.revision, final |-> TRUE]
             q == [SubmitSent(s, m) EXCEPT !.keys = @ + 1]
  <2>1. tab' = [tab EXCEPT ![t] = q]
    BY <1>6 DEF SubmitStarts, Become
  <2>2. q.copy = s.copy
    <3> HIDE DEF m, s
    <3> QED
      BY <1>1 DEF SubmitSent, Tab
  <2> HIDE DEF q, s
  <2> QED
    BY <1>2, <2>1, <2>2
<1>7. CASE SubmitAgain(t)
  <2>1. tab' = [tab EXCEPT ![t] = SubmitSent(s, s.attempt)]
    BY <1>7 DEF SubmitAgain, Become
  <2> HIDE DEF s
  <2>2. SubmitSent(s, s.attempt).copy = s.copy
    BY <1>1 DEF SubmitSent, Tab
  <2> QED
    BY <1>2, <2>1, <2>2
<1>8. CASE SubmitRejected(t)
  <2> DEFINE r == [s EXCEPT !.calls["submit"] = None, !.attempt = None]
  <2>1. PICK q \in {r, Checking(r)} : tab' = [tab EXCEPT ![t] = q]
    BY <1>8 DEF SubmitRejected, Become
  <2> HIDE DEF s
  <2>2. r \in Tab /\ r.copy = s.copy
    BY <1>1 DEF Tab
  <2> HIDE DEF r
  <2>3. Checking(r).copy = r.copy
    BY <2>2, CheckingTab DEF SameBut, Parts
  <2> QED
    BY <1>2, <2>1, <2>2, <2>3
<1>9. ASSUME NEW c \in Calls, CallFails(t, c) PROVE AllKeep
  <2> DEFINE r == [s EXCEPT !.calls[c] = None]
  <2>1. PICK q \in {r, [r EXCEPT !.status = "failed"],
                    [r EXCEPT !.status = "failed", !.blocked = r.alarm]} :
           tab' = [tab EXCEPT ![t] = q]
    BY <1>9 DEF CallFails, Become
  <2>2. r \in Tab /\ r.copy = s.copy
    BY <1>1, OverTab DEF SameBut, Parts
  <2> HIDE DEF r, s
  <2>3. q.copy = r.copy
    BY <2>1, <2>2 DEF Tab
  <2> QED
    BY <1>2, <2>1, <2>2, <2>3
<1>10. ASSUME NEW c \in Calls, ServeRead(t, c) PROVE AllKeep
  <2> DEFINE reply == IF closed THEN [kind |-> "refused", snapshot |-> None]
                      ELSE [kind |-> "ok", snapshot |-> Current]
             q == WithReply(s, c, reply)
  <2>1. tab' = [tab EXCEPT ![t] = q]
    BY <1>10 DEF ServeRead, WithReply
  <2> HIDE DEF s, reply
  <2>2. q.copy = s.copy
    BY <1>1 DEF WithReply, Tab
  <2> HIDE DEF q
  <2> QED
    BY <1>2, <2>1, <2>2
<1> QED
  BY <1>4, <1>5, <1>6, <1>7, <1>8, <1>9, <1>10

\* A request that is handled changes no copy, and neither does another device.
LEMMA ServerKeeps ==
    ASSUME Sound,
           \/ \E m \in wire : ServePut(m)
           \/ \E f \in Fields, v \in Values : DeviceSaves(f, v)
           \/ DeviceCloses
           \/ UNCHANGED vars
    PROVE  AllKeep
<1>1. tab \in [Tabs -> Tab]
  BY DEF Sound, Shaped
<1>2. CASE UNCHANGED tab
  BY <1>2 DEF AllKeep, Keeps
<1>3. CASE \E f \in Fields, v \in Values : DeviceSaves(f, v)
  BY <1>2, <1>3 DEF DeviceSaves
<1>4. CASE DeviceCloses \/ UNCHANGED vars
  BY <1>2, <1>4 DEF DeviceCloses, vars
<1>5. ASSUME NEW m \in wire, NEW kind, NEW snapshot, Deliver(m, kind, snapshot) PROVE AllKeep
  <2>0. m.key[1] \in Tabs
    BY DEF Sound, Shaped, Request, Keys
  <2> DEFINE t == m.key[1]
             c == IF m.final THEN "submit" ELSE "put"
             reply == [kind |-> kind, snapshot |-> snapshot]
             q == WithReply(tab[t], c, reply)
  <2>1. tab' = [tab EXCEPT ![t] = q] \/ UNCHANGED tab
    BY <1>5 DEF Deliver, WithReply
  <2>2. q.copy = tab[t].copy
    <3>1. tab[t] \in Tab
      BY <1>1, <2>0
    <3> HIDE DEF reply, c
    <3> QED
      BY <3>1 DEF WithReply, Tab
  <2> HIDE DEF q
  <2> QED
    BY <1>1, <1>2, <2>0, <2>1, <2>2, LeavingKeeps
<1>6. ASSUME NEW m \in wire, ServePut(m) PROVE AllKeep
  <2>1. Replays(m) \/ Refuses(m) \/ Rejects(m) \/ Accepts(m)
    BY <1>6 DEF ServePut
  <2>2. \E kind, snapshot : Deliver(m, kind, snapshot)
    BY <2>1 DEF Replays, Refuses, Rejects, Accepts
  <2> QED
    BY <1>5, <2>2
<1> QED
  BY <1>3, <1>4, <1>6

\* Every step but an edit keeps what is shown.
LEMMA StepKeeps ==
    ASSUME Sound, [Next]_vars, budget'.edits = budget.edits
    PROVE  AllKeep
<1>1. ASSUME NEW t \in Tabs, NEW f \in Fields, NEW v \in Values, NEW ok \in BOOLEAN,
             Edit(t, f, v, ok)
      PROVE  FALSE
  <2>1. budget \in [edits: Nat, failures: Nat, reloads: Nat, device: Nat]
    BY DEF Sound, Shaped
  <2>2. PICK n : budget' = [budget EXCEPT !.edits = @ - 1, !.failures = n]
    BY <1>1 DEF Edit
  <2> QED
    BY <2>1, <2>2
<1>2. ASSUME NEW t \in Tabs,
             \/ Open(t) \/ Reload(t) \/ SubmitDone(t)
             \/ \E c \in Calls : SessionOver(t, c)
      PROVE  AllKeep
  BY <1>2, PagesKeep
<1>3. ASSUME NEW t \in Tabs,
             \E ok \in BOOLEAN :
                SaveStarts(t, ok) \/ PutRejected(t, ok) \/ SaveCompletes(t, ok)
                \/ FetchDone(t, ok) \/ QueryDone(t, ok)
      PROVE  AllKeep
  BY <1>3, SaveStartsKeeps, PutRejectedKeeps, SaveCompletesKeeps, FetchDoneKeeps, QueryDoneKeeps
<1>4. ASSUME NEW t \in Tabs, NEW revision \in signals[t], Signal(t, revision) PROVE AllKeep
  BY <1>4, SignalKeeps
<1>5. ASSUME NEW t \in Tabs,
             \/ PutAcknowledged(t) \/ Drain(t) \/ Online(t) \/ RetryReads(t)
             \/ SubmitStarts(t) \/ SubmitAgain(t) \/ SubmitRejected(t)
             \/ \E c \in Calls : CallFails(t, c) \/ ServeRead(t, c)
      PROVE  AllKeep
  BY <1>5, CallsKeep
<1>6. ASSUME \/ \E m \in wire : ServePut(m)
             \/ \E f \in Fields, v \in Values : DeviceSaves(f, v)
             \/ DeviceCloses
             \/ UNCHANGED vars
      PROVE  AllKeep
  BY <1>6, ServerKeeps
<1> QED
  BY <1>1, <1>2, <1>3, <1>4, <1>5, <1>6 DEF Next

\* What a tab shows changes without the learner only in fields that somebody else has
\* changed, and then to what the server has, whatever was saved, answered or lost in
\* between; a save the server rejected is the one exception (mergeStudyDraftSnapshots,
\* reconcilePostFlight).
THEOREM MergesKeepShown == Spec => KeepsWhatIsShown
<1> DEFINE Shows ==
              \A t \in Tabs :
                 LET old == tab[t].copy
                     new == tab'[t].copy
                 IN  (/\ old # None /\ new # None /\ budget'.edits = budget.edits
                      /\ old.frozen # None => ~old.frozen.rejected)
                     => \A f \in Fields :
                           \/ Visible(new)[f] = Visible(old)[f]
                           \/ /\ ChangedByOthers(t, f, old.base.revision, new.base.revision)
                              /\ Visible(new)[f] = new.base.content[f]
<1>1. Sound /\ [Next]_vars => [Shows]_vars
  <2> SUFFICES ASSUME Sound, [Next]_vars, budget'.edits = budget.edits PROVE AllKeep
    BY DEF AllKeep, Keeps
  <2> QED
    BY StepKeeps
<1> QED
  BY <1>1, DraftInvariant, PTL DEF Spec, KeepsWhatIsShown
=============================================================================
