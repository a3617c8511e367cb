----------------------------- MODULE ReviewProofs -----------------------------
(***************************************************************************)
(* What holds of Reviews for every number of orders, submissions, services, *)
(* questions and moderators: its types, and that nothing shows under a      *)
(* service that was not vetted.                                             *)
(***************************************************************************)
EXTENDS Reviews, TLAPS

\* What the theorems assume of the constants: the fixtures are among the ids, ids and null
\* values are distinct, an order is for a service or the bundle, and times are numbers.
FixturesFit ==
    /\ Bundle \notin Services /\ LineOf \in [Orders -> Services \cup {Bundle}]
    /\ SeedServices \subseteq Services /\ SeedService \in Services
    /\ SeedOrder \in Orders /\ NoOrder \notin Orders /\ SeedReview \notin Submissions
    /\ SeedQuestion \in Questions /\ Nobody \notin Moderators
    /\ ReviewDays \in Nat /\ DayLength \in Nat \ {0} /\ Offset \in Int
    /\ MaxClock \in Nat /\ MaxEdits \in Nat

\* The review of the fixtures is there and takes its order; no order has two reviews.
OnePerOrder ==
    /\ review[SeedReview].pc = "stored" /\ review[SeedReview].order = SeedOrder
    /\ \A r, q \in Reviewing :
         /\ review[r].pc = "stored" /\ review[q].pc = "stored"
         /\ review[r].order = review[q].order
         => r = q

\* The checks of a request still hold when it stores its review, and later: only the
\* order of the fixtures is ever opened again.
CheckHolds(s) ==
    LET o == review[s].order
    IN  /\ o \in Orders
        /\ o # SeedOrder => /\ order[o].state = "completed"
                            /\ InWindow(order[o].completedAt, review[s].at)
        /\ review[s].pc # "checked" /\ LineOf[o] # Bundle => review[s].services = {LineOf[o]}

\* A text with a sensitive term is approved by nobody but a moderator.
Moderated(s) ==
    review[s].status = "approved" /\ review[s].flagged => review[s].decision = "approved"

Handed(s) == review[s].pc \in {"checked", "gathered", "stored"}

AnswersKnown ==
    \A q \in Questions :
        q = SeedQuestion \/ question[q].status = "published" => question[q].answeredBy \in Moderators

VettedInv ==
    /\ OnePerOrder
    /\ \A s \in Submissions : /\ Handed(s) => CheckHolds(s)
                              /\ review[s].pc = "stored" => Moderated(s)
    /\ AnswersKnown

-----------------------------------------------------------------------------
(* Types *)

LEMMA NoReviewType == ASSUME FixturesFit PROVE NoReview \in ReviewRecord
BY DEF NoReview, ReviewRecord, FixturesFit

LEMMA TypesInit == ASSUME FixturesFit, Init PROVE TypeOK
<1>1. review \in [Reviewing -> ReviewRecord]
  <2>1. /\ NoReview \in ReviewRecord /\ SeedOrder \in Orders
        /\ {SeedService} \in SUBSET Services
    BY NoReviewType DEF FixturesFit
  <2>2. [NoReview EXCEPT !.pc = "stored", !.order = SeedOrder,
                         !.services = {SeedService}, !.status = "approved"] \in ReviewRecord
    BY <2>1 DEF ReviewRecord
  <2> QED BY <2>1, <2>2 DEF Init
<1>2. question \in [Questions -> QuestionRecord]
  BY DEF Init, QuestionRecord, FixturesFit
<1> QED BY <1>1, <1>2 DEF Init, TypeOK, FixturesFit

\* The steps of a submission, and of a moderator at a review, write one record.
LEMMA WroteType ==
    ASSUME TypeOK, NEW s \in Reviewing, NEW new \in ReviewRecord,
           review' = [review EXCEPT ![s] = new]
    PROVE  /\ review' \in [Reviewing -> ReviewRecord] /\ review'[s] = new
           /\ \A r \in Reviewing \ {s} : review'[r] = review[r]
BY DEF TypeOK

LEMMA SubmitType ==
    ASSUME TypeOK, NEW s \in Submissions, NEW o \in Orders, NEW flagged \in BOOLEAN,
           Submit(s, o, flagged)
    PROVE  /\ review' \in [Reviewing -> ReviewRecord]
           /\ review'[s] = [review[s] EXCEPT !.pc = "checked", !.order = o,
                                             !.flagged = flagged, !.at = clock]
           /\ \A r \in Reviewing \ {s} : review'[r] = review[r]
<1> DEFINE new == [review[s] EXCEPT !.pc = "checked", !.order = o, !.flagged = flagged, !.at = clock]
<1>1. s \in Reviewing /\ review[s] \in ReviewRecord
  BY DEF TypeOK, Reviewing
<1>2. new \in ReviewRecord
  BY <1>1 DEF TypeOK, ReviewRecord
<1>3. review' = [review EXCEPT ![s] = new]
  BY <1>1 DEF Submit, TypeOK, ReviewRecord
<1> HIDE DEF new
<1>4. /\ review' \in [Reviewing -> ReviewRecord] /\ review'[s] = new
      /\ \A r \in Reviewing \ {s} : review'[r] = review[r]
  BY <1>1, <1>2, <1>3, WroteType
<1> QED BY <1>4 DEF new

LEMMA GatherType ==
    ASSUME FixturesFit, TypeOK, NEW s \in Submissions, GatherServices(s),
           review[s].order \in Orders
    PROVE  /\ review' \in [Reviewing -> ReviewRecord]
           /\ review'[s] = [review[s] EXCEPT
                !.pc = "gathered",
                !.services = IF LineOf[review[s].order] = Bundle
                             THEN bundled ELSE {LineOf[review[s].order]}]
           /\ \A r \in Reviewing \ {s} : review'[r] = review[r]
<1> DEFINE line == LineOf[review[s].order]
           ids == IF line = Bundle THEN bundled ELSE {line}
           new == [review[s] EXCEPT !.pc = "gathered", !.services = ids]
<1>1. s \in Reviewing /\ review[s] \in ReviewRecord
  BY DEF TypeOK, Reviewing
<1>2. ids \subseteq Services
  BY DEF FixturesFit, TypeOK
<1>3. review' = [review EXCEPT ![s] = new]
  BY <1>1 DEF GatherServices, TypeOK, ReviewRecord
<1> HIDE DEF ids
<1>4. new \in ReviewRecord
  BY <1>1, <1>2 DEF ReviewRecord
<1> HIDE DEF new
<1>5. /\ review' \in [Reviewing -> ReviewRecord] /\ review'[s] = new
      /\ \A r \in Reviewing \ {s} : review'[r] = review[r]
  BY <1>1, <1>3, <1>4, WroteType
<1> QED BY <1>5 DEF new, ids

LEMMA InsertType ==
    ASSUME TypeOK, NEW s \in Submissions, InsertReview(s)
    PROVE  /\ review' \in [Reviewing -> ReviewRecord]
           /\ review'[s] = [review[s] EXCEPT !.pc = "stored",
                                             !.status = StatusOf(review[s].flagged)]
           /\ \A r \in Reviewing \ {s} : review'[r] = review[r]
<1> DEFINE new == [review[s] EXCEPT !.pc = "stored", !.status = StatusOf(review[s].flagged)]
<1>1. s \in Reviewing /\ review[s] \in ReviewRecord
  BY DEF TypeOK, Reviewing
<1>2. new \in ReviewRecord
  BY <1>1 DEF TypeOK, ReviewRecord, StatusOf
<1>3. review' = [review EXCEPT ![s] = new]
  BY <1>1 DEF InsertReview, TypeOK, ReviewRecord
<1> HIDE DEF new
<1>4. /\ review' \in [Reviewing -> ReviewRecord] /\ review'[s] = new
      /\ \A r \in Reviewing \ {s} : review'[r] = review[r]
  BY <1>1, <1>2, <1>3, WroteType
<1> QED BY <1>4 DEF new

LEMMA RefuseType ==
    ASSUME TypeOK, NEW s \in Submissions, Refuse(s)
    PROVE  /\ review' \in [Reviewing -> ReviewRecord]
           /\ review'[s] = [review[s] EXCEPT !.pc = "refused"]
           /\ \A r \in Reviewing \ {s} : review'[r] = review[r]
<1> DEFINE new == [review[s] EXCEPT !.pc = "refused"]
<1>1. s \in Reviewing /\ review[s] \in ReviewRecord
  BY DEF TypeOK, Reviewing
<1>2. new \in ReviewRecord
  BY <1>1 DEF TypeOK, ReviewRecord
<1>3. review' = [review EXCEPT ![s] = new]
  BY <1>1 DEF Refuse, TypeOK, ReviewRecord
<1> HIDE DEF new
<1>4. /\ review' \in [Reviewing -> ReviewRecord] /\ review'[s] = new
      /\ \A r \in Reviewing \ {s} : review'[r] = review[r]
  BY <1>1, <1>2, <1>3, WroteType
<1> QED BY <1>4 DEF new

LEMMA ModerateType ==
    ASSUME TypeOK, NEW r \in Reviewing, NEW verdict \in {"approved", "rejected"},
           Moderate(r, verdict)
    PROVE  /\ review' \in [Reviewing -> ReviewRecord]
           /\ review'[r] = [review[r] EXCEPT !.status = verdict, !.decision = verdict]
           /\ \A q \in Reviewing \ {r} : review'[q] = review[q]
<1> DEFINE new == [review[r] EXCEPT !.status = verdict, !.decision = verdict]
<1>1. review[r] \in ReviewRecord
  BY DEF TypeOK
<1>2. new \in ReviewRecord
  BY <1>1 DEF TypeOK, ReviewRecord
<1>3. review' = [review EXCEPT ![r] = new]
  BY <1>1 DEF Moderate, TypeOK, ReviewRecord
<1> HIDE DEF new
<1>4. /\ review' \in [Reviewing -> ReviewRecord] /\ review'[r] = new
      /\ \A q \in Reviewing \ {r} : review'[q] = review[q]
  BY <1>1, <1>2, <1>3, WroteType
<1> QED BY <1>4 DEF new

LEMMA RestartType ==
    ASSUME FixturesFit, TypeOK, Restart
    PROVE  /\ review' \in [Reviewing -> ReviewRecord]
           /\ review'[SeedReview] = [review[SeedReview] EXCEPT !.status = "approved"]
           /\ \A s \in Submissions :
                \/ review'[s] = review[s] /\ review[s].pc \notin {"checked", "gathered"}
                \/ review'[s] = [review[s] EXCEPT !.pc = "refused"]
           /\ order' \in [Orders -> [state : {"open", "completed"}, completedAt : 0..MaxClock]]
           /\ \A o \in Orders \ {SeedOrder} : order'[o] = order[o]
<1>1. \A r \in Reviewing : review[r] \in ReviewRecord
  BY DEF TypeOK
<1>2. \A r \in Reviewing : /\ [review[r] EXCEPT !.status = "approved"] \in ReviewRecord
                           /\ [review[r] EXCEPT !.pc = "refused"] \in ReviewRecord
  BY <1>1 DEF ReviewRecord
<1>3. /\ review' \in [Reviewing -> ReviewRecord]
      /\ review'[SeedReview] = [review[SeedReview] EXCEPT !.status = "approved"]
      /\ \A s \in Submissions :
           \/ review'[s] = review[s] /\ review[s].pc \notin {"checked", "gathered"}
           \/ review'[s] = [review[s] EXCEPT !.pc = "refused"]
  BY <1>1, <1>2 DEF Restart, Reviewing, FixturesFit
<1>4. order[SeedOrder] \in [state : {"open", "completed"}, completedAt : 0..MaxClock]
  BY DEF TypeOK, FixturesFit
<1>5. order' = [order EXCEPT ![SeedOrder] = [order[SeedOrder] EXCEPT !.state = "open"]]
  BY <1>4 DEF Restart, Reopened, TypeOK
<1>6. [order[SeedOrder] EXCEPT !.state = "open"]
          \in [state : {"open", "completed"}, completedAt : 0..MaxClock]
  BY <1>4
<1> QED BY <1>3, <1>5, <1>6 DEF TypeOK

LEMMA CompleteType ==
    ASSUME TypeOK, NEW o \in Orders, Complete(o)
    PROVE  /\ order' \in [Orders -> [state : {"open", "completed"}, completedAt : 0..MaxClock]]
           /\ order[o].state = "open"
           /\ \A p \in Orders \ {o} : order'[p] = order[p]
<1>1. order[o] \in [state : {"open", "completed"}, completedAt : 0..MaxClock]
  BY DEF TypeOK
<1> DEFINE new == [order[o] EXCEPT !.state = "completed", !.completedAt = clock]
<1>2. order' = [order EXCEPT ![o] = new]
  BY <1>1 DEF Complete, TypeOK
<1>3. new \in [state : {"open", "completed"}, completedAt : 0..MaxClock]
  BY <1>1 DEF TypeOK
<1> QED BY <1>2, <1>3 DEF TypeOK, Complete

LEMMA QuestionType ==
    ASSUME FixturesFit, TypeOK, NEW q \in Questions,
           \/ \E v \in Services : Ask(q, v)
           \/ \E m \in Moderators : PublishQuestion(q, m)
           \/ RejectQuestion(q)
    PROVE  question' \in [Questions -> QuestionRecord]
<1>1. question[q] \in QuestionRecord
  BY DEF TypeOK
<1>2. \E new \in QuestionRecord : question' = [question EXCEPT ![q] = new]
  <2>1. ASSUME NEW v \in Services, Ask(q, v)
        PROVE  \E new \in QuestionRecord : question' = [question EXCEPT ![q] = new]
    <3> DEFINE asked == [question[q] EXCEPT !.status = "pending_moderation", !.service = v]
    <3>1. asked \in QuestionRecord
      BY <1>1 DEF QuestionRecord
    <3>2. question' = [question EXCEPT ![q] = asked]
      BY <1>1, <2>1 DEF Ask, QuestionRecord, TypeOK
    <3> QED BY <3>1, <3>2
  <2>2. ASSUME NEW m \in Moderators, PublishQuestion(q, m)
        PROVE  \E new \in QuestionRecord : question' = [question EXCEPT ![q] = new]
    <3> DEFINE told == [question[q] EXCEPT !.status = "published", !.answeredBy = m]
    <3>1. told \in QuestionRecord
      BY <1>1 DEF QuestionRecord
    <3>2. question' = [question EXCEPT ![q] = told]
      BY <1>1, <2>2 DEF PublishQuestion, QuestionRecord, TypeOK
    <3> QED BY <3>1, <3>2
  <2>3. ASSUME RejectQuestion(q)
        PROVE  \E new \in QuestionRecord : question' = [question EXCEPT ![q] = new]
    <3> DEFINE out == [question[q] EXCEPT !.status = "rejected"]
    <3>1. out \in QuestionRecord
      BY <1>1 DEF QuestionRecord
    <3>2. question' = [question EXCEPT ![q] = out]
      BY <1>1, <2>3 DEF RejectQuestion, QuestionRecord, TypeOK
    <3> QED BY <3>1, <3>2
  <2> QED BY <2>1, <2>2, <2>3
<1> QED BY <1>2 DEF TypeOK

-----------------------------------------------------------------------------
\* An edit is counted up to the bound.
LEMMA EditCounted ==
    ASSUME FixturesFit, TypeOK, edits < MaxEdits, edits' = edits + 1
    PROVE  edits' \in 0..MaxEdits
BY DEF FixturesFit, TypeOK

LEMMA TypesNext == FixturesFit /\ TypeOK /\ VettedInv /\ [Next]_vars => TypeOK'
<1> SUFFICES ASSUME FixturesFit, TypeOK, VettedInv, [Next]_vars PROVE TypeOK'
  OBVIOUS
<1>1. ASSUME NEW s \in Submissions, NEW o \in Orders, NEW flagged \in BOOLEAN,
             Submit(s, o, flagged)
      PROVE  TypeOK'
  BY <1>1, SubmitType DEF Submit, TypeOK
<1>2. ASSUME NEW s \in Submissions, GatherServices(s) PROVE TypeOK'
  <2>1. review[s].order \in Orders
    BY <1>2 DEF VettedInv, Handed, CheckHolds, GatherServices
  <2> QED BY <1>2, <2>1, GatherType DEF GatherServices, TypeOK
<1>3. ASSUME NEW s \in Submissions, InsertReview(s) PROVE TypeOK'
  BY <1>3, InsertType DEF InsertReview, TypeOK
<1>4. ASSUME NEW s \in Submissions, Refuse(s) PROVE TypeOK'
  BY <1>4, RefuseType DEF Refuse, TypeOK
<1>5. ASSUME NEW r \in Reviewing, NEW verdict \in {"approved", "rejected"}, Moderate(r, verdict)
      PROVE  TypeOK'
  BY <1>5, ModerateType, EditCounted DEF Moderate, TypeOK
<1>6. ASSUME NEW q \in Questions,
             \/ \E v \in Services : Ask(q, v)
             \/ \E m \in Moderators : PublishQuestion(q, m)
             \/ RejectQuestion(q)
      PROVE  TypeOK'
  <2>1. question' \in [Questions -> QuestionRecord]
    BY <1>6, QuestionType
  <2>2. UNCHANGED edits \/ (edits < MaxEdits /\ edits' = edits + 1)
    BY <1>6 DEF Ask, PublishQuestion, RejectQuestion
  <2>3. edits' \in 0..MaxEdits
    BY <2>2, EditCounted DEF TypeOK
  <2>4. UNCHANGED <<clock, order, bundled, published, review>>
    BY <1>6 DEF Ask, PublishQuestion, RejectQuestion
  <2> QED BY <2>1, <2>3, <2>4 DEF TypeOK
<1>7. ASSUME NEW o \in Orders, Complete(o) PROVE TypeOK'
  BY <1>7, CompleteType DEF Complete, TypeOK
<1>8. ASSUME NEW ids \in SUBSET Services, EditBundle(ids) PROVE TypeOK'
  BY <1>8 DEF EditBundle, TypeOK, FixturesFit
<1>9. ASSUME NEW v \in Services, Toggle(v) PROVE TypeOK'
  BY <1>9 DEF Toggle, TypeOK, FixturesFit
<1>10. ASSUME Restart PROVE TypeOK'
  <2>1. question' \in [Questions -> QuestionRecord]
    <3>1. \A q \in Questions : question[q] \in QuestionRecord
      BY DEF TypeOK
    <3>2. \A q \in Questions :
            [question[q] EXCEPT !.status = "published", !.service = SeedService] \in QuestionRecord
      BY <3>1 DEF QuestionRecord, FixturesFit
    <3> QED BY <1>10, <3>1, <3>2 DEF Restart
  <2>2. /\ bundled' \subseteq Services /\ published' \subseteq Services
        /\ edits' \in 0..MaxEdits /\ clock' \in 0..MaxClock
    <3>1. edits' \in 0..MaxEdits
      BY <1>10, EditCounted DEF Restart
    <3> QED BY <1>10, <3>1 DEF Restart, TypeOK, FixturesFit
  <2> QED BY <1>10, <2>1, <2>2, RestartType DEF TypeOK
<1>11. ASSUME Tick PROVE TypeOK'
  BY <1>11 DEF Tick, TypeOK, FixturesFit
<1>12. CASE UNCHANGED vars
  BY <1>12 DEF vars, TypeOK
<1> QED BY <1>1, <1>2, <1>3, <1>4, <1>5, <1>6, <1>7, <1>8, <1>9, <1>10, <1>11, <1>12 DEF Next

-----------------------------------------------------------------------------
(* What shows *)

LEMMA VettedInit == ASSUME FixturesFit, Init PROVE VettedInv
<1>1. /\ review[SeedReview] = [NoReview EXCEPT !.pc = "stored", !.order = SeedOrder,
                                 !.services = {SeedService}, !.status = "approved"]
      /\ \A s \in Submissions : review[s] = NoReview
  BY DEF Init, Reviewing, FixturesFit
<1>2. /\ review[SeedReview].pc = "stored" /\ review[SeedReview].order = SeedOrder
      /\ \A s \in Submissions : review[s].pc = "idle"
  BY <1>1 DEF NoReview
<1>3. OnePerOrder
  BY <1>2 DEF OnePerOrder, Reviewing
<1>4. AnswersKnown
  <2>1. PICK m \in Moderators : question = [q \in Questions |->
         IF q = SeedQuestion
         THEN [status |-> "published", service |-> SeedService, answeredBy |-> m]
         ELSE [status |-> "none", service |-> SeedService, answeredBy |-> Nobody]]
    BY DEF Init
  <2> QED BY <2>1 DEF AnswersKnown
<1> QED BY <1>2, <1>3, <1>4 DEF VettedInv, Handed

\* Only orders that are open, and the fixtures' one, change.
CompletedStay ==
    \A o \in Orders \ {SeedOrder} : order[o].state = "completed" => order'[o] = order[o]

\* What holds of a submission that a step leaves alone.
LEMMA Stays ==
    ASSUME NEW s \in Submissions, CompletedStay, review'[s] = review[s],
           Handed(s) => CheckHolds(s), review[s].pc = "stored" => Moderated(s)
    PROVE  /\ Handed(s)' => CheckHolds(s)'
           /\ review'[s].pc = "stored" => Moderated(s)'
BY DEF CompletedStay, Handed, CheckHolds, Moderated, InWindow, LocalDay

\* A step of one submission that leaves the orders alone.
LEMMA OneSubmission ==
    ASSUME FixturesFit, TypeOK, VettedInv, NEW s \in Submissions,
           UNCHANGED order, UNCHANGED question,
           \A r \in Reviewing \ {s} : review'[r] = review[r],
           Handed(s)' => CheckHolds(s)',
           review'[s].pc = "stored" =>
             /\ Moderated(s)'
             /\ \A r \in Reviewing \ {s} : review[r].pc = "stored" =>
                                           review[r].order # review'[s].order
    PROVE  VettedInv'
<1>1. CompletedStay
  BY DEF CompletedStay
<1>2. \A r \in Submissions : /\ Handed(r)' => CheckHolds(r)'
                             /\ review'[r].pc = "stored" => Moderated(r)'
  <2> SUFFICES ASSUME NEW r \in Submissions
               PROVE  /\ Handed(r)' => CheckHolds(r)'
                      /\ review'[r].pc = "stored" => Moderated(r)'
    OBVIOUS
  <2>1. CASE r = s
    BY <2>1
  <2>2. CASE r # s
    <3>1. review'[r] = review[r]
      BY <2>2 DEF Reviewing
    <3> QED BY <1>1, <3>1, Stays DEF VettedInv
  <2> QED BY <2>1, <2>2
<1>3. OnePerOrder'
  <2>1. s # SeedReview /\ SeedReview \in Reviewing /\ s \in Reviewing
    BY DEF Reviewing, FixturesFit
  <2>2. /\ review'[SeedReview] = review[SeedReview]
        /\ review'[SeedReview].pc = "stored" /\ review'[SeedReview].order = SeedOrder
    BY <2>1 DEF VettedInv, OnePerOrder
  <2>3. ASSUME NEW r \in Reviewing, NEW q \in Reviewing,
               review'[r].pc = "stored", review'[q].pc = "stored", review'[r].order = review'[q].order
        PROVE  r = q
    BY <2>1, <2>3 DEF VettedInv, OnePerOrder
  <2> QED BY <2>2, <2>3 DEF OnePerOrder
<1>4. AnswersKnown'
  BY DEF VettedInv, AnswersKnown
<1> QED BY <1>2, <1>3, <1>4 DEF VettedInv

LEMMA SubmitVets ==
    ASSUME FixturesFit, TypeOK, VettedInv, NEW s \in Submissions, NEW o \in Orders,
           NEW flagged \in BOOLEAN, Submit(s, o, flagged)
    PROVE  VettedInv'
<1>1. s \in Reviewing /\ review[s] \in ReviewRecord
  BY DEF Reviewing, TypeOK
<1>2. /\ review'[s].pc = "checked" /\ review'[s].order = o /\ review'[s].at = clock
      /\ \A r \in Reviewing \ {s} : review'[r] = review[r]
      /\ UNCHANGED <<order, question, clock>>
  BY <1>1, SubmitType DEF Submit, ReviewRecord
<1>3. order[o].state = "completed" /\ InWindow(order[o].completedAt, clock)
  BY DEF Submit
<1>4. CheckHolds(s)'
  BY <1>2, <1>3 DEF CheckHolds, InWindow, LocalDay
<1> QED BY <1>2, <1>4, OneSubmission

LEMMA GatherVets ==
    ASSUME FixturesFit, TypeOK, VettedInv, NEW s \in Submissions, GatherServices(s)
    PROVE  VettedInv'
<1>1. s \in Reviewing /\ review[s] \in ReviewRecord
  BY DEF Reviewing, TypeOK
<1>2. CheckHolds(s) /\ review[s].pc = "checked"
  BY DEF GatherServices, VettedInv, Handed
<1>3. review[s].order \in Orders
  BY <1>2 DEF CheckHolds
<1>4. /\ review'[s].pc = "gathered" /\ review'[s].order = review[s].order
      /\ review'[s].at = review[s].at
      /\ LineOf[review[s].order] # Bundle => review'[s].services = {LineOf[review[s].order]}
      /\ \A r \in Reviewing \ {s} : review'[r] = review[r]
      /\ UNCHANGED <<order, question>>
  BY <1>1, <1>3, GatherType DEF GatherServices, ReviewRecord
<1>5. CheckHolds(s)'
  BY <1>2, <1>4 DEF CheckHolds, InWindow, LocalDay
<1> QED BY <1>4, <1>5, OneSubmission

LEMMA InsertVets ==
    ASSUME FixturesFit, TypeOK, VettedInv, NEW s \in Submissions, InsertReview(s)
    PROVE  VettedInv'
<1>1. s \in Reviewing /\ review[s] \in ReviewRecord
  BY DEF Reviewing, TypeOK
<1>2. CheckHolds(s) /\ review[s].pc = "gathered"
  BY DEF InsertReview, VettedInv, Handed
<1>3. /\ review'[s].pc = "stored" /\ review'[s].order = review[s].order
      /\ review'[s].at = review[s].at /\ review'[s].services = review[s].services
      /\ review'[s].flagged = review[s].flagged
      /\ review'[s].status = StatusOf(review[s].flagged)
      /\ \A r \in Reviewing \ {s} : review'[r] = review[r]
      /\ UNCHANGED <<order, question>>
  BY <1>1, InsertType DEF InsertReview, ReviewRecord
<1>4. CheckHolds(s)'
  BY <1>2, <1>3 DEF CheckHolds, InWindow, LocalDay
<1>5. Moderated(s)'
  BY <1>3 DEF Moderated, StatusOf
<1>6. \A r \in Reviewing \ {s} : review[r].pc = "stored" => review[r].order # review'[s].order
  BY <1>3 DEF InsertReview, IndexAllows, StoredFor
<1> QED BY <1>3, <1>4, <1>5, <1>6, OneSubmission

LEMMA RefuseVets ==
    ASSUME FixturesFit, TypeOK, VettedInv, NEW s \in Submissions, Refuse(s)
    PROVE  VettedInv'
<1>1. s \in Reviewing /\ review[s] \in ReviewRecord
  BY DEF Reviewing, TypeOK
<1>2. /\ review'[s].pc = "refused" /\ \A r \in Reviewing \ {s} : review'[r] = review[r]
      /\ UNCHANGED <<order, question>>
  BY <1>1, RefuseType DEF Refuse, ReviewRecord
<1>3. ~Handed(s)'
  BY <1>2 DEF Handed
<1> QED BY <1>2, <1>3, OneSubmission

\* A moderator may change a review that is stored, of the fixtures or handed in.
LEMMA ModerateVets ==
    ASSUME FixturesFit, TypeOK, VettedInv, NEW r \in Reviewing,
           NEW verdict \in {"approved", "rejected"}, Moderate(r, verdict)
    PROVE  VettedInv'
<1>1. review[r] \in ReviewRecord /\ review[r].pc = "stored"
  BY DEF TypeOK, Moderate
<1>2. /\ review'[r].pc = "stored" /\ review'[r].order = review[r].order
      /\ review'[r].at = review[r].at /\ review'[r].services = review[r].services
      /\ review'[r].decision = verdict /\ review'[r].status = verdict
      /\ \A q \in Reviewing \ {r} : review'[q] = review[q]
      /\ UNCHANGED <<order, question>>
  BY <1>1, ModerateType DEF Moderate, ReviewRecord
<1>3. CompletedStay
  BY <1>2 DEF CompletedStay
<1>4. \A s \in Submissions : /\ Handed(s)' => CheckHolds(s)'
                             /\ review'[s].pc = "stored" => Moderated(s)'
  <2> SUFFICES ASSUME NEW s \in Submissions
               PROVE  /\ Handed(s)' => CheckHolds(s)'
                      /\ review'[s].pc = "stored" => Moderated(s)'
    OBVIOUS
  <2>1. CASE s = r
    <3>1. CheckHolds(s)
      BY <1>1, <2>1 DEF VettedInv, Handed
    <3>2. CheckHolds(s)'
      BY <1>1, <1>2, <2>1, <3>1 DEF CheckHolds, InWindow, LocalDay
    <3>3. Moderated(s)'
      BY <1>2, <2>1 DEF Moderated
    <3> QED BY <3>2, <3>3
  <2>2. CASE s # r
    <3>1. review'[s] = review[s]
      BY <1>2, <2>2 DEF Reviewing
    <3> QED BY <1>3, <3>1, Stays DEF VettedInv
  <2> QED BY <2>1, <2>2
<1>5. OnePerOrder'
  <2>1. \A q \in Reviewing : /\ review'[q].pc = review[q].pc
                             /\ review'[q].order = review[q].order
    BY <1>1, <1>2
  <2>2. SeedReview \in Reviewing
    BY DEF Reviewing
  <2> QED BY <2>1, <2>2 DEF VettedInv, OnePerOrder
<1>6. AnswersKnown'
  BY <1>2 DEF VettedInv, AnswersKnown
<1> QED BY <1>4, <1>5, <1>6 DEF VettedInv

\* The steps that leave the reviews alone and keep what orders are completed.
LEMMA QuietVets ==
    ASSUME FixturesFit, TypeOK, VettedInv, CompletedStay, UNCHANGED review, AnswersKnown'
    PROVE  VettedInv'
<1>1. \A s \in Submissions : /\ Handed(s)' => CheckHolds(s)'
                             /\ review'[s].pc = "stored" => Moderated(s)'
  <2> SUFFICES ASSUME NEW s \in Submissions
               PROVE  /\ Handed(s)' => CheckHolds(s)'
                      /\ review'[s].pc = "stored" => Moderated(s)'
    OBVIOUS
  <2> QED BY Stays DEF VettedInv
<1>2. OnePerOrder'
  BY DEF VettedInv, OnePerOrder
<1> QED BY <1>1, <1>2 DEF VettedInv

LEMMA AnswersStay ==
    ASSUME FixturesFit, TypeOK, VettedInv, NEW q \in Questions,
           \/ \E v \in Services : Ask(q, v)
           \/ \E m \in Moderators : PublishQuestion(q, m)
           \/ RejectQuestion(q)
    PROVE  AnswersKnown' /\ UNCHANGED <<order, review>>
<1>1. /\ question[q] \in QuestionRecord /\ question \in [Questions -> QuestionRecord]
      /\ AnswersKnown
  BY DEF TypeOK, VettedInv
<1>2. ASSUME NEW v \in Services, Ask(q, v) PROVE AnswersKnown' /\ UNCHANGED <<order, review>>
  <2>1. question'[q].status = "pending_moderation" /\ question'[q].answeredBy = question[q].answeredBy
    BY <1>1, <1>2 DEF Ask, QuestionRecord
  <2>2. \A p \in Questions \ {q} : question'[p] = question[p]
    BY <1>1, <1>2 DEF Ask
  <2> QED BY <1>1, <1>2, <2>1, <2>2 DEF AnswersKnown, Ask
<1>3. ASSUME NEW m \in Moderators, PublishQuestion(q, m)
      PROVE  AnswersKnown' /\ UNCHANGED <<order, review>>
  <2>1. question'[q].answeredBy = m
    BY <1>1, <1>3 DEF PublishQuestion, QuestionRecord
  <2>2. \A p \in Questions \ {q} : question'[p] = question[p]
    BY <1>1, <1>3 DEF PublishQuestion
  <2> QED BY <1>1, <1>3, <2>1, <2>2 DEF AnswersKnown, PublishQuestion
<1>4. ASSUME RejectQuestion(q) PROVE AnswersKnown' /\ UNCHANGED <<order, review>>
  <2>1. question'[q].status = "rejected" /\ question'[q].answeredBy = question[q].answeredBy
    BY <1>1, <1>4 DEF RejectQuestion, QuestionRecord
  <2>2. \A p \in Questions \ {q} : question'[p] = question[p]
    BY <1>1, <1>4 DEF RejectQuestion
  <2> QED BY <1>1, <1>4, <2>1, <2>2 DEF AnswersKnown, RejectQuestion
<1> QED BY <1>2, <1>3, <1>4

\* The fixtures' order is pending again, and the requests are gone.
LEMMA RestartVets ==
    ASSUME FixturesFit, TypeOK, VettedInv, Restart
    PROVE  VettedInv'
<1>1. \A r \in Reviewing : review[r] \in ReviewRecord
  BY DEF TypeOK
<1>2. CompletedStay
  BY RestartType DEF CompletedStay
<1>3. \A s \in Submissions : /\ Handed(s)' => CheckHolds(s)'
                             /\ review'[s].pc = "stored" => Moderated(s)'
  <2> SUFFICES ASSUME NEW s \in Submissions
               PROVE  /\ Handed(s)' => CheckHolds(s)'
                      /\ review'[s].pc = "stored" => Moderated(s)'
    OBVIOUS
  <2>1. CASE review'[s] = review[s]
    BY <1>2, <2>1, Stays DEF VettedInv
  <2>2. CASE review'[s] = [review[s] EXCEPT !.pc = "refused"]
    <3>1. review'[s].pc = "refused"
      BY <1>1, <2>2 DEF ReviewRecord, Reviewing
    <3> QED BY <3>1 DEF Handed
  <2> QED BY <2>1, <2>2, RestartType
<1>4. /\ review'[SeedReview].pc = "stored" /\ review'[SeedReview].order = SeedOrder
      /\ SeedReview \in Reviewing
  BY <1>1, RestartType DEF ReviewRecord, Reviewing, VettedInv, OnePerOrder
<1>5. \A r \in Reviewing : review'[r].pc = "stored" =>
                            review[r].pc = "stored" /\ review'[r].order = review[r].order
  <2> SUFFICES ASSUME NEW r \in Reviewing, review'[r].pc = "stored"
               PROVE  review[r].pc = "stored" /\ review'[r].order = review[r].order
    OBVIOUS
  <2>1. CASE r = SeedReview
    BY <1>4, <2>1 DEF VettedInv, OnePerOrder
  <2>2. CASE r \in Submissions
    <3>1. review[r] \in ReviewRecord
      BY <1>1
    <3>2. review'[r] # [review[r] EXCEPT !.pc = "refused"]
      BY <3>1 DEF ReviewRecord
    <3> QED BY <2>2, <3>2, RestartType
  <2> QED BY <2>1, <2>2 DEF Reviewing
<1>6. OnePerOrder'
  BY <1>4, <1>5 DEF VettedInv, OnePerOrder
<1>7. AnswersKnown'
  <2>1. \A q \in Questions : question[q] \in QuestionRecord
    BY DEF TypeOK
  <2>2. \A q \in Questions : /\ question'[q].answeredBy = question[q].answeredBy
                             /\ q # SeedQuestion => question'[q] = question[q]
    BY <2>1 DEF Restart, QuestionRecord
  <2> QED BY <2>2 DEF VettedInv, AnswersKnown
<1> QED BY <1>3, <1>6, <1>7 DEF VettedInv

LEMMA VettedNext == FixturesFit /\ TypeOK /\ VettedInv /\ [Next]_vars => VettedInv'
<1> SUFFICES ASSUME FixturesFit, TypeOK, VettedInv, [Next]_vars PROVE VettedInv'
  OBVIOUS
<1> DEFINE Quiet == UNCHANGED <<order, review, question>>
<1>1. ASSUME NEW s \in Submissions, NEW o \in Orders, NEW flagged \in BOOLEAN,
             Submit(s, o, flagged)
      PROVE  VettedInv'
  BY <1>1, SubmitVets
<1>2. ASSUME NEW s \in Submissions, GatherServices(s) PROVE VettedInv'
  BY <1>2, GatherVets
<1>3. ASSUME NEW s \in Submissions, InsertReview(s) PROVE VettedInv'
  BY <1>3, InsertVets
<1>4. ASSUME NEW s \in Submissions, Refuse(s) PROVE VettedInv'
  BY <1>4, RefuseVets
<1>5. ASSUME NEW r \in Reviewing, NEW verdict \in {"approved", "rejected"}, Moderate(r, verdict)
      PROVE  VettedInv'
  BY <1>5, ModerateVets
<1>6. ASSUME NEW q \in Questions,
             \/ \E v \in Services : Ask(q, v)
             \/ \E m \in Moderators : PublishQuestion(q, m)
             \/ RejectQuestion(q)
      PROVE  VettedInv'
  <2>1. AnswersKnown' /\ UNCHANGED <<order, review>>
    BY <1>6, AnswersStay
  <2>2. CompletedStay
    BY <2>1 DEF CompletedStay
  <2> QED BY <2>1, <2>2, QuietVets
<1>7. ASSUME NEW o \in Orders, Complete(o) PROVE VettedInv'
  <2>1. CompletedStay
    BY <1>7, CompleteType DEF CompletedStay
  <2>2. UNCHANGED review /\ AnswersKnown'
    BY <1>7 DEF Complete, VettedInv, AnswersKnown
  <2> QED BY <2>1, <2>2, QuietVets
<1>8. ASSUME Quiet PROVE VettedInv'
  <2>1. CompletedStay /\ AnswersKnown' /\ UNCHANGED review
    BY <1>8 DEF CompletedStay, VettedInv, AnswersKnown
  <2> QED BY <2>1, QuietVets
<1>9. ASSUME NEW ids \in SUBSET Services, EditBundle(ids) PROVE Quiet
  BY <1>9 DEF EditBundle
<1>10. ASSUME NEW v \in Services, Toggle(v) PROVE Quiet
  BY <1>10 DEF Toggle
<1>11. ASSUME Restart PROVE VettedInv'
  BY <1>11, RestartVets
<1>12. ASSUME Tick PROVE Quiet
  BY <1>12 DEF Tick
<1>13. ASSUME UNCHANGED vars PROVE Quiet
  BY <1>13 DEF vars
<1> HIDE DEF Quiet
<1> QED BY <1>1, <1>2, <1>3, <1>4, <1>5, <1>6, <1>7, <1>8, <1>9, <1>10, <1>11, <1>12, <1>13
        DEF Next

-----------------------------------------------------------------------------
LEMMA VettedAlways == ASSUME FixturesFit PROVE Spec => [](TypeOK /\ VettedInv)
<1>1. Init => TypeOK /\ VettedInv
  BY TypesInit, VettedInit
<1>2. TypeOK /\ VettedInv /\ [Next]_vars => (TypeOK /\ VettedInv)'
  BY TypesNext, VettedNext
<1> QED BY <1>1, <1>2, PTL DEF Spec

\* Orders, reviews and questions keep their types, whoever reviews, moderates, edits the
\* catalogue or restarts the process (reviewsService.js, catalogService.js).
THEOREM ReviewTypes == ASSUME FixturesFit PROVE Spec => []TypeOK
<1> QED BY VettedAlways, PTL

\* Whoever hands in by the end of the last local day does so less than ReviewDays + 1 full
\* days after the completion, wherever midnight is (reviewsService.js 58).
LEMMA WindowIsShort ==
    ASSUME FixturesFit, NEW c \in Nat, NEW t \in Nat, InWindow(c, t)
    PROVE  t - c < (ReviewDays + 1) * DayLength
<1> DEFINE d == (t + Offset) \div DayLength
           e == (c + Offset) \div DayLength
<1>1. /\ DayLength \in Nat \ {0} /\ ReviewDays \in Nat /\ Offset \in Int
      /\ d \in Int /\ e \in Int /\ d <= e + ReviewDays
  BY DEF FixturesFit, InWindow, LocalDay
<1>2. DayLength * e <= c + Offset /\ t + Offset < DayLength * d + DayLength
  BY <1>1
<1> HIDE DEF d, e
<1>3. DayLength * d <= DayLength * (e + ReviewDays)
  BY <1>1
<1>4. /\ DayLength * (e + ReviewDays) = DayLength * e + DayLength * ReviewDays
      /\ (ReviewDays + 1) * DayLength = DayLength * ReviewDays + DayLength
  BY <1>1
<1>5. /\ DayLength * d \in Int /\ DayLength * e \in Int /\ DayLength * (e + ReviewDays) \in Int
      /\ DayLength * ReviewDays \in Int /\ (ReviewDays + 1) * DayLength \in Int
  BY <1>1
<1> QED BY <1>1, <1>2, <1>3, <1>4, <1>5

\* Of any number of requests for an order one is stored; what shows of it was handed in in
\* time for an order that is completed still, stands under what was ordered, and was let
\* through by a moderator if it contains a sensitive term; questions that show have an
\* answer (reviewsService.js 18 to 171, catalogService.js 117 to 227).
THEOREM OnlyTheVettedShow == ASSUME FixturesFit PROVE Spec => []OnlyVettedShows
<1>1. ASSUME TypeOK, VettedInv PROVE OnlyVettedShows
  <2>1. ASSUME NEW v \in Services, NEW r \in Shown(v) \ {SeedReview}
        PROVE  Verified(r) /\ (review[r].flagged => review[r].decision = "approved")
    <3>1. /\ r \in Submissions /\ r \in Reviewing /\ SeedReview \in Reviewing
          /\ review[r].pc = "stored" /\ review[r].status = "approved"
      BY <2>1 DEF Shown, Reviewing
    <3>2. CheckHolds(r) /\ Moderated(r)
      BY <1>1, <3>1 DEF VettedInv, Handed
    <3>3. \A q \in Reviewing : review[q].pc = "stored" /\ review[q].order = review[r].order => q = r
      BY <1>1, <3>1 DEF VettedInv, OnePerOrder
    <3>4. review[r].order \in Orders /\ review[r].order # SeedOrder
      BY <1>1, <2>1, <3>1, <3>2, <3>3 DEF VettedInv, OnePerOrder, CheckHolds
    <3>5. StoredFor(review[r].order) = {r}
      BY <3>1, <3>3 DEF StoredFor
    <3>6. review[r].at \in Nat /\ order[review[r].order].completedAt \in Nat
      BY <1>1, <3>1, <3>4 DEF TypeOK, ReviewRecord
    <3>7. review[r].at - order[review[r].order].completedAt < (ReviewDays + 1) * DayLength
      BY <3>2, <3>4, <3>6, WindowIsShort DEF CheckHolds
    <3> QED BY <3>1, <3>2, <3>4, <3>5, <3>7 DEF Verified, CheckHolds, Moderated
  <2>2. \A v \in Services : \A q \in Answered(v) : question[q].answeredBy \in Moderators
    BY <1>1 DEF VettedInv, AnswersKnown, Answered
  <2> QED BY <2>1, <2>2 DEF OnlyVettedShows
<1> QED BY <1>1, VettedAlways, PTL
=============================================================================
