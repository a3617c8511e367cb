---------------------------- MODULE SearchProofs ----------------------------
(***************************************************************************)
(* What holds of SearchIndex for every number of items, edits that overlap,  *)
(* clean-ups, failures and restarts; that it implements Search, and what     *)
(* the search therefore shows.                                               *)
(***************************************************************************)
EXTENDS SearchIndex, TLAPS

LEMMA IdleTypes ==
    /\ IdleEditor \in EditorRecord /\ IdleCleaner \in CleanerRecord
    /\ NoService \in ServiceRecord /\ NoContent \in ContentRecord /\ NoEntry \in EntryRecord
BY NumbersAssumption DEF IdleEditor, IdleCleaner, NoService, NoContent, NoEntry, EditorRecord,
   CleanerRecord, ServiceRecord, ContentRecord, EntryRecord

\* The ranges that the records are built from.
LEMMA Ranges ==
    /\ 0 \in 0..MaxVersions /\ 1 \in 0..MaxVersions /\ 2 \in 0..MaxVersions
    /\ 0..MaxVersions \subseteq Nat
BY NumbersAssumption

LEMMA SteadiedType ==
    ASSUME cleaner \in [Cleaners -> CleanerRecord], NEW visible
    PROVE  Steadied(visible) \in [Cleaners -> CleanerRecord]
<1> SUFFICES ASSUME NEW x \in Cleaners
             PROVE  [cleaner[x] EXCEPT !.steady = {i \in @ : visible[i]}] \in CleanerRecord
  BY DEF Steadied
<1>1. cleaner[x] \in CleanerRecord
  OBVIOUS
<1> QED BY <1>1 DEF CleanerRecord

LEMMA SyncingType ==
    ASSUME editor \in [Editors -> EditorRecord], NEW e \in Editors, NEW i \in Items
    PROVE  Syncing(e, i) \in [Editors -> EditorRecord]
<1>1. [IdleEditor EXCEPT !.pc = "syncing", !.item = i] \in EditorRecord
  BY IdleTypes DEF EditorRecord
<1> QED BY <1>1 DEF Syncing

LEMMA WriteServiceTypes ==
    ASSUME TypeOK, NEW e \in Editors, NEW s \in Services, NEW doc \in ServiceRecord,
           WriteService(e, s, doc)
    PROVE  TypeOK'
<1>1. edits + 1 \in 0..MaxEdits
  BY NumbersAssumption DEF WriteService, TypeOK
<1>2. s \in Items
  BY DEF Items
<1>3. editor' \in [Editors -> EditorRecord] /\ cleaner' \in [Cleaners -> CleanerRecord]
  BY <1>2, SyncingType, SteadiedType DEF WriteService, TypeOK
<1>4. doubtful' \subseteq Items
  BY <1>2 DEF WriteService, Doubts, TypeOK
<1> QED BY <1>1, <1>3, <1>4 DEF WriteService, TypeOK

LEMMA WriteContentTypes ==
    ASSUME TypeOK, NEW e \in Editors, NEW c \in Contents, NEW doc \in ContentRecord,
           WriteContent(e, c, doc), edits' \in 0..MaxEdits
    PROVE  TypeOK'
<1>1. c \in Items
  BY DEF Items
<1>2. editor' \in [Editors -> EditorRecord] /\ cleaner' \in [Cleaners -> CleanerRecord]
  BY <1>1, SyncingType, SteadiedType DEF WriteContent, TypeOK
<1>3. doubtful' \subseteq Items
  BY <1>1 DEF WriteContent, Doubts, TypeOK
<1> QED BY <1>2, <1>3 DEF WriteContent, TypeOK

\* A request has an item, a content if it has chosen a version.
ChosenItem ==
    \A e \in Editors : /\ editor[e].pc # "idle" => editor[e].item \in Items
                       /\ editor[e].pc = "checked" => editor[e].item \in Contents

LEMMA EditTypes ==
    ASSUME TypeOK, ChosenItem, NEW e \in Editors, Edit(e)
    PROVE  TypeOK' /\ ChosenItem'
<1>0. edits + 1 \in Nat /\ (edits < MaxEdits => edits + 1 \in 0..MaxEdits)
  BY NumbersAssumption DEF TypeOK
<1>s. ASSUME NEW s \in Services, NEW doc \in ServiceRecord, WriteService(e, s, doc)
      PROVE  ChosenItem'
  BY <1>s DEF WriteService, Syncing, ChosenItem, TypeOK, Items
<1>c. ASSUME NEW c \in Contents, NEW doc, WriteContent(e, c, doc)
      PROVE  ChosenItem'
  BY <1>c DEF WriteContent, Syncing, ChosenItem, TypeOK, Items
<1>1. CASE \E s \in Services, published \in BOOLEAN : CreateService(e, s, published)
  <2> PICK s \in Services, published \in BOOLEAN : CreateService(e, s, published)
    BY <1>1
  <2>1. [exists |-> TRUE, published |-> published, title |-> edits + 1] \in ServiceRecord
    BY <1>0 DEF ServiceRecord
  <2> QED BY <1>s, <2>1, WriteServiceTypes DEF CreateService
<1>2. CASE \E s \in Services, published \in BOOLEAN : UpdateService(e, s, published)
  <2> PICK s \in Services, published \in BOOLEAN : UpdateService(e, s, published)
    BY <1>2
  <2>1. [exists |-> TRUE, published |-> published, title |-> edits + 1] \in ServiceRecord
    BY <1>0 DEF ServiceRecord
  <2> QED BY <1>s, <2>1, WriteServiceTypes DEF UpdateService
<1>3. CASE \E s \in Services : PublishService(e, s) \/ UnpublishService(e, s)
  <2> PICK s \in Services : PublishService(e, s) \/ UnpublishService(e, s)
    BY <1>3
  <2>1. /\ [service[s] EXCEPT !.published = TRUE] \in ServiceRecord
        /\ [service[s] EXCEPT !.published = FALSE] \in ServiceRecord
    BY DEF TypeOK, ServiceRecord
  <2> QED BY <1>s, <2>1, WriteServiceTypes DEF PublishService, UnpublishService
<1>4. CASE \E c \in Contents : CreateContent(e, c)
  <2> PICK c \in Contents : CreateContent(e, c)
    BY <1>4
  <2>1. [NoContent EXCEPT !.status = "draft", !.versions = 1, !.current = 1] \in ContentRecord
    BY IdleTypes, Ranges DEF ContentRecord
  <2>2. edits' \in 0..MaxEdits
    BY <1>0 DEF CreateContent, StartEdit
  <2> QED BY <1>c, <2>1, <2>2, WriteContentTypes DEF CreateContent
<1>5. CASE \E c \in Contents : PushDraft(e, c)
  <2> PICK c \in Contents : PushDraft(e, c)
    BY <1>5
  <2> DEFINE n == content[c].versions + 1
  <2>1. content[c] \in ContentRecord /\ n \in 0..MaxVersions
    <3>1. content[c] \in ContentRecord /\ content[c].versions \in 0..MaxVersions
      BY DEF TypeOK, ContentRecord
    <3>2. n <= MaxVersions
      BY DEF PushDraft
    <3> QED BY <3>1, <3>2, NumbersAssumption
  <2>2. [content[c] EXCEPT !.status = "draft", !.versions = n, !.current = n] \in ContentRecord
    BY <2>1 DEF ContentRecord
  <2>3. edits' \in 0..MaxEdits
    BY <1>0 DEF PushDraft, StartEdit
  <2> QED BY <1>c, <2>2, <2>3, WriteContentTypes DEF PushDraft
<1>6. CASE \E c \in Contents, op \in {"schedule", "publish", "rollback"}, version \in 1..MaxVersions :
             FindContent(e, c, op, version)
  <2> PICK c \in Contents, op \in {"schedule", "publish", "rollback"}, version \in 1..MaxVersions :
             FindContent(e, c, op, version)
    BY <1>6
  <2>1. version \in 0..MaxVersions /\ c \in Items
    BY NumbersAssumption DEF Items
  <2>2. [IdleEditor EXCEPT !.pc = "checked", !.item = c, !.op = op, !.version = version]
            \in EditorRecord
    BY <2>1, IdleTypes DEF EditorRecord
  <2>3. editor' \in [Editors -> EditorRecord]
    BY <2>2 DEF FindContent, TypeOK
  <2>4. ChosenItem'
    BY <2>1 DEF FindContent, ChosenItem, TypeOK, IdleEditor
  <2> QED BY <1>0, <2>3, <2>4 DEF FindContent, StartEdit, TypeOK
<1> QED BY <1>1, <1>2, <1>3, <1>4, <1>5, <1>6 DEF Edit

LEMMA GoOnTypes ==
    ASSUME TypeOK, ChosenItem, NEW e \in Editors, GoOn(e) \/ EditFails(e)
    PROVE  TypeOK' /\ ChosenItem'
<1>0. editor[e].pc # "idle" => editor[e].item \in Items
  BY DEF ChosenItem
<1>1. CASE ChangeContent(e)
  <2> DEFINE c == editor[e].item
             doc == Changed(content[c], editor[e].op, editor[e].version)
  <2>1. c \in Contents
    BY <1>1 DEF ChangeContent, ChosenItem
  <2>2. doc \in ContentRecord
    <3>1. content[c] \in ContentRecord /\ editor[e].version \in 0..MaxVersions
      BY <2>1 DEF TypeOK, EditorRecord
    <3> QED BY <3>1, Ranges DEF Changed, ContentRecord
  <2>3. WriteContent(e, c, doc) /\ edits' \in 0..MaxEdits
    BY <1>1 DEF ChangeContent, TypeOK
  <2>4. ChosenItem'
    BY <2>1, <2>3 DEF WriteContent, Syncing, ChosenItem, TypeOK, Items
  <2> HIDE DEF c, doc
  <2> QED BY <2>1, <2>2, <2>3, <2>4, WriteContentTypes
<1>2. CASE SyncRead(e)
  <2> DEFINE i == editor[e].item
             r == [editor[e] EXCEPT !.pc = "storing", !.visible = Visible(i), !.shows = Shown(i)]
  <2>1. i \in Items /\ editor[e] \in EditorRecord
    BY <1>0, <1>2 DEF SyncRead, TypeOK
  <2>2. Visible(i) \in BOOLEAN
    BY <2>1 DEF TypeOK, Items, Visible, ServiceRecord
  <2>3. Shown(i) \in Nat
    BY <2>1, Ranges DEF TypeOK, Items, Shown, ServiceRecord, ContentRecord
  <2>4. r \in EditorRecord
    <3> HIDE DEF i
    <3> QED BY <2>1, <2>2, <2>3 DEF EditorRecord
  <2>5. editor' = [editor EXCEPT ![e] = r]
    BY <1>2, <2>1 DEF SyncRead, TypeOK, EditorRecord
  <2>6. editor' \in [Editors -> EditorRecord]
    BY <2>4, <2>5 DEF TypeOK
  <2>7. ChosenItem'
    BY <2>1, <2>5 DEF ChosenItem, TypeOK, EditorRecord
  <2> QED BY <1>2, <2>6, <2>7 DEF SyncRead, TypeOK, counts
<1>3. CASE SyncWrite(e)
  <2>1. editor[e].item \in Items /\ editor[e].shows \in Nat /\ nextId + 1 \in Nat \ {0}
    BY <1>0, <1>3 DEF SyncWrite, TypeOK, EditorRecord
  <2>2. index' \in [Items -> EntryRecord]
    BY <1>3, <2>1, IdleTypes DEF SyncWrite, TypeOK, EntryRecord
  <2>3. nextId' \in Nat \ {0}
    BY <1>3, <2>1 DEF SyncWrite, TypeOK
  <2>4. editor' \in [Editors -> EditorRecord] /\ ChosenItem'
    BY <1>3, IdleTypes DEF SyncWrite, TypeOK, ChosenItem, IdleEditor
  <2> QED BY <1>3, <2>2, <2>3, <2>4 DEF SyncWrite, TypeOK, counts
<1>4. CASE EditFails(e)
  <2>1. faults' \in 0..MaxFaults
    BY <1>4, NumbersAssumption DEF EditFails, TypeOK
  <2>2. editor' \in [Editors -> EditorRecord] /\ ChosenItem'
    BY <1>4, IdleTypes DEF EditFails, TypeOK, ChosenItem, IdleEditor
  <2>3. doubtful' \subseteq Items
    BY <1>4 DEF EditFails, TypeOK
  <2> QED BY <1>4, <2>1, <2>2, <2>3 DEF EditFails, TypeOK
<1> QED BY <1>1, <1>2, <1>3, <1>4 DEF GoOn

LEMMA CleanTypes ==
    ASSUME TypeOK, NEW x \in Cleaners, Clean(x)
    PROVE  TypeOK'
<1>1. CASE CleanStart(x)
  <2> DEFINE r == [pc |-> "cleaning", item |-> NoItem, left |-> {i \in Items : Listed(i)},
                   ids |-> [i \in Items |-> index[i].id], steady |-> {i \in Items : Visible(i)}]
  <2>1. r \in CleanerRecord
    BY DEF CleanerRecord, TypeOK, EntryRecord
  <2> HIDE DEF r
  <2>2. cleaner' = [cleaner EXCEPT ![x] = r]
    BY <1>1 DEF CleanStart, r
  <2> QED BY <1>1, <2>1, <2>2 DEF CleanStart, TypeOK, counts
<1>2. CASE \E i \in Items : CleanCheck(x, i)
  <2> PICK i \in Items : CleanCheck(x, i)
    BY <1>2
  <2> DEFINE r == [cleaner[x] EXCEPT !.pc = "deleting", !.item = i]
             s == [cleaner[x] EXCEPT !.left = @ \ {i}]
  <2>1. cleaner[x] \in CleanerRecord
    BY DEF TypeOK
  <2>2. r \in CleanerRecord /\ s \in CleanerRecord
    BY <2>1 DEF CleanerRecord
  <2>3. cleaner' = [cleaner EXCEPT ![x] = r] \/ cleaner' = [cleaner EXCEPT ![x] = s]
    BY <2>1 DEF CleanCheck, TypeOK, CleanerRecord
  <2> HIDE DEF r, s
  <2>4. cleaner' \in [Cleaners -> CleanerRecord]
    BY <2>2, <2>3 DEF TypeOK
  <2> QED BY <2>4 DEF CleanCheck, TypeOK, counts
<1>3. CASE CleanDelete(x)
  <2> DEFINE r == [cleaner[x] EXCEPT !.pc = "cleaning", !.item = NoItem,
                                     !.left = @ \ {cleaner[x].item}]
  <2>3. cleaner[x] \in CleanerRecord
    BY DEF TypeOK
  <2>4. r \in CleanerRecord
    BY <2>3 DEF CleanerRecord
  <2>5. cleaner' = [cleaner EXCEPT ![x] = r]
    BY <1>3, <2>3 DEF CleanDelete, TypeOK, CleanerRecord
  <2> HIDE DEF r
  <2>1. cleaner' \in [Cleaners -> CleanerRecord]
    BY <2>4, <2>5 DEF TypeOK
  <2>2. index' \in [Items -> EntryRecord]
    BY <1>3, IdleTypes DEF CleanDelete, TypeOK
  <2> QED BY <1>3, <2>1, <2>2 DEF CleanDelete, TypeOK, counts
<1>4. CASE CleanEnd(x)
  <2>1. faults' \in 0..MaxFaults
    BY <1>4, NumbersAssumption DEF CleanEnd, TypeOK
  <2> QED BY <1>4, <2>1, IdleTypes DEF CleanEnd, TypeOK
<1> QED BY <1>1, <1>2, <1>3, <1>4 DEF Clean

LEMMA StartTypes ==
    ASSUME TypeOK, ChosenItem, Crash \/ Start
    PROVE  TypeOK' /\ ChosenItem'
<1>1. CASE Crash
  <2>1. restarts' \in 0..MaxRestarts
    BY <1>1, NumbersAssumption DEF Crash, TypeOK
  <2>2. editor' \in [Editors -> EditorRecord] /\ ChosenItem'
    BY <1>1, IdleTypes DEF Crash, ChosenItem, IdleEditor
  <2>3. cleaner' \in [Cleaners -> CleanerRecord]
    BY <1>1, IdleTypes DEF Crash, TypeOK
  <2> QED BY <1>1, <2>1, <2>2, <2>3 DEF Crash, TypeOK
<1>2. CASE Seed
  <2>1. [exists |-> TRUE, published |-> TRUE, title |-> 0] \in ServiceRecord
    BY DEF ServiceRecord
  <2>2. [NoContent EXCEPT !.status = "published", !.versions = 2, !.current = 2, !.live = 2]
            \in ContentRecord
    BY IdleTypes, Ranges DEF ContentRecord
  <2>3. service' \in [Services -> ServiceRecord] /\ content' \in [Contents -> ContentRecord]
    BY <1>2, <2>1, <2>2 DEF Seed, TypeOK
  <2> QED BY <1>2, <2>3 DEF Seed, TypeOK, ChosenItem, counts
<1>3. CASE Clear
  BY <1>3, IdleTypes DEF Clear, TypeOK, ChosenItem, counts
<1>4. CASE InsertAll
  <2>1. \A i \in Items : [id |-> nextId, shows |-> Shown(i)] \in EntryRecord
    <3> TAKE i \in Items
    <3>1. Shown(i) \in Nat
      BY Ranges DEF TypeOK, Items, Shown, ServiceRecord, ContentRecord
    <3> QED BY <3>1 DEF EntryRecord, TypeOK
  <2>2. index' \in [Items -> EntryRecord]
    BY <1>4, <2>1, IdleTypes DEF InsertAll
  <2>3. nextId' \in Nat \ {0}
    BY <1>4 DEF InsertAll, TypeOK
  <2> QED BY <1>4, <2>2, <2>3 DEF InsertAll, TypeOK, ChosenItem, counts
<1> QED BY <1>1, <1>2, <1>3, <1>4 DEF Start

LEMMA TypesInit == Init => TypeOK /\ ChosenItem
<1>1. 0 \in 0..MaxEdits /\ 0 \in 0..MaxRestarts /\ 0 \in 0..MaxFaults
  BY NumbersAssumption
<1> QED BY <1>1, IdleTypes DEF Init, TypeOK, ChosenItem, IdleEditor

LEMMA TypesNext == TypeOK /\ ChosenItem /\ [Next]_vars => TypeOK' /\ ChosenItem'
<1> SUFFICES ASSUME TypeOK, ChosenItem, [Next]_vars PROVE TypeOK' /\ ChosenItem'
  OBVIOUS
<1>1. CASE \E x \in Cleaners : Clean(x)
  <2>1. ChosenItem'
    BY <1>1 DEF Clean, CleanStart, CleanCheck, CleanDelete, CleanEnd, ChosenItem
  <2> QED BY <1>1, <2>1, CleanTypes
<1>2. CASE UNCHANGED vars
  BY <1>2 DEF vars, counts, TypeOK, ChosenItem
<1> QED BY <1>1, <1>2, EditTypes, GoOnTypes, StartTypes DEF Next

\* Items, copies, requests and clean-ups have the types that the actions presume.
THEOREM SearchTypes == Spec => []TypeOK
<1> QED BY TypesInit, TypesNext, PTL DEF Spec

-----------------------------------------------------------------------------
\* What a clean-up remembers as published all along is published, and is not what it
\* is about to delete the copy of.
SteadyInv ==
    \A x \in Cleaners :
        /\ \A i \in cleaner[x].steady : Visible(i)
        /\ cleaner[x].pc = "deleting" => cleaner[x].item \notin cleaner[x].steady

\* An edit takes out of every clean-up's memory what is not visible after it.
LEMMA SteadiedKeeps ==
    ASSUME TypeOK, SteadyInv, NEW visible, cleaner' = Steadied(visible),
           \A i \in Items : visible[i] => Visible(i)'
    PROVE  SteadyInv'
<1> SUFFICES ASSUME NEW x \in Cleaners
             PROVE  /\ \A i \in cleaner'[x].steady : Visible(i)'
                    /\ cleaner'[x].pc = "deleting" => cleaner'[x].item \notin cleaner'[x].steady
  BY DEF SteadyInv
<1>1. /\ cleaner'[x].steady = {i \in cleaner[x].steady : visible[i]}
      /\ cleaner'[x].pc = cleaner[x].pc /\ cleaner'[x].item = cleaner[x].item
      /\ cleaner[x].steady \subseteq Items
  BY DEF Steadied, TypeOK, CleanerRecord
<1> QED BY <1>1 DEF SteadyInv

LEMMA SteadyService ==
    ASSUME TypeOK, SteadyInv, NEW e \in Editors, NEW s \in Services, NEW doc \in ServiceRecord,
           doc.exists, WriteService(e, s, doc)
    PROVE  SteadyInv'
<1> DEFINE visible == [i \in Items |-> IF i = s THEN doc.published ELSE Visible(i)]
<1>1. \A i \in Items : visible[i] => Visible(i)'
  BY DEF WriteService, Visible, TypeOK
<1>2. cleaner' = Steadied(visible)
  BY DEF WriteService
<1> HIDE DEF visible
<1> QED BY <1>1, <1>2, SteadiedKeeps

LEMMA SteadyContent ==
    ASSUME TypeOK, SteadyInv, NEW e \in Editors, NEW c \in Contents, NEW doc,
           WriteContent(e, c, doc)
    PROVE  SteadyInv'
<1> DEFINE visible == [i \in Items |-> IF i = c THEN doc.status = "published" /\ doc.live # 0
                                       ELSE Visible(i)]
<1>1. \A i \in Items : visible[i] => Visible(i)'
  <2> TAKE i \in Items
  <2>1. CASE i = c
    <3>1. i \notin Services /\ content'[i] = doc
      BY <2>1, SetsAssumption DEF WriteContent, TypeOK
    <3> QED BY <2>1, <3>1 DEF Visible
  <2>2. CASE i # c
    <3>1. service'[i] = service[i] /\ (i \in Contents => content'[i] = content[i])
      BY <2>2 DEF WriteContent, TypeOK
    <3>2. visible[i] = Visible(i)
      BY <2>2
    <3> QED BY <3>1, <3>2 DEF Visible, Items
  <2> QED BY <2>1, <2>2
<1>2. cleaner' = Steadied(visible)
  BY DEF WriteContent
<1> HIDE DEF visible
<1> QED BY <1>1, <1>2, SteadiedKeeps

LEMMA SteadyEdit ==
    ASSUME TypeOK, SteadyInv, NEW e \in Editors, Edit(e)
    PROVE  SteadyInv'
<1>0. edits + 1 \in Nat
  BY DEF TypeOK
<1>1. CASE \E s \in Services, published \in BOOLEAN :
             CreateService(e, s, published) \/ UpdateService(e, s, published)
  <2> PICK s \in Services, published \in BOOLEAN :
             CreateService(e, s, published) \/ UpdateService(e, s, published)
    BY <1>1
  <2> DEFINE doc == [exists |-> TRUE, published |-> published, title |-> edits + 1]
  <2>1. doc \in ServiceRecord /\ doc.exists /\ WriteService(e, s, doc)
    BY <1>0 DEF ServiceRecord, CreateService, UpdateService
  <2> HIDE DEF doc
  <2> QED BY <2>1, SteadyService
<1>2. CASE \E s \in Services : PublishService(e, s) \/ UnpublishService(e, s)
  <2> PICK s \in Services : PublishService(e, s) \/ UnpublishService(e, s)
    BY <1>2
  <2>1. \A p \in BOOLEAN : /\ [service[s] EXCEPT !.published = p] \in ServiceRecord
                           /\ [service[s] EXCEPT !.published = p].exists = service[s].exists
    BY DEF TypeOK, ServiceRecord
  <2> QED BY <2>1, SteadyService DEF PublishService, UnpublishService
<1>3. CASE \E c \in Contents : CreateContent(e, c) \/ PushDraft(e, c)
  BY <1>3, SteadyContent DEF CreateContent, PushDraft
<1>4. CASE \E c \in Contents, op \in {"schedule", "publish", "rollback"}, version \in 1..MaxVersions :
             FindContent(e, c, op, version)
  BY <1>4 DEF FindContent, SteadyInv, Visible
<1> QED BY <1>1, <1>2, <1>3, <1>4 DEF Edit

LEMMA SteadyNext == TypeOK /\ ChosenItem /\ SteadyInv /\ [Next]_vars => SteadyInv'
<1> SUFFICES ASSUME TypeOK, ChosenItem, SteadyInv, [Next]_vars PROVE SteadyInv'
  OBVIOUS
<1>1. CASE \E e \in Editors : Edit(e)
  BY <1>1, SteadyEdit
<1>2. CASE \E e \in Editors : ChangeContent(e)
  BY <1>2, SteadyContent DEF ChangeContent, ChosenItem
<1>3. CASE \E e \in Editors : SyncRead(e) \/ SyncWrite(e) \/ EditFails(e)
  BY <1>3 DEF SyncRead, SyncWrite, EditFails, SteadyInv, Visible
<1>4. CASE \E x \in Cleaners : CleanStart(x)
  BY <1>4 DEF CleanStart, SteadyInv, Visible, TypeOK
<1>5. CASE \E x \in Cleaners, i \in Items : CleanCheck(x, i)
  <2>1. \A i : Visible(i)' = Visible(i)
    BY <1>5 DEF CleanCheck, Visible
  <2> QED BY <1>5, <2>1 DEF CleanCheck, Orphan, SteadyInv, TypeOK, CleanerRecord
<1>6. CASE \E x \in Cleaners : CleanDelete(x)
  <2>1. \A i : Visible(i)' = Visible(i)
    BY <1>6 DEF CleanDelete, Visible
  <2> QED BY <1>6, <2>1 DEF CleanDelete, SteadyInv, TypeOK, CleanerRecord
<1>7. CASE \E x \in Cleaners : CleanEnd(x)
  BY <1>7 DEF CleanEnd, IdleCleaner, SteadyInv, Visible, TypeOK
<1>8. CASE Crash
  BY <1>8 DEF Crash, IdleCleaner, SteadyInv, Visible, TypeOK
<1>9. CASE Seed
  <2>1. \A i \in Items : Visible(i) => Visible(i)'
    BY <1>9, Ranges DEF Seed, Visible, Items, TypeOK, NoContent
  <2> QED BY <1>9, <2>1 DEF Seed, SteadyInv, TypeOK, CleanerRecord
<1>10. CASE Clear \/ InsertAll
  BY <1>10 DEF Clear, InsertAll, SteadyInv, Visible
<1>11. CASE UNCHANGED vars
  BY <1>11 DEF vars, SteadyInv, Visible
<1> QED BY <1>1, <1>2, <1>3, <1>4, <1>5, <1>6, <1>7, <1>8, <1>9, <1>10, <1>11
        DEF Next, GoOn, Clean, Start

\* A clean-up never deletes the copy of an item that was published all the time since it
\* loaded the copies.
THEOREM CleanupSpares == Spec => CleanupSparesPublished
<1>1. Init => SteadyInv
  BY DEF Init, SteadyInv, IdleCleaner
<1>2. SteadyInv => [\A x \in Cleaners : cleaner[x].pc = "deleting" /\ CleanDelete(x) =>
                        cleaner[x].item \notin cleaner[x].steady]_vars
  BY DEF SteadyInv
<1> QED BY <1>1, <1>2, TypesInit, TypesNext, SteadyNext, PTL DEF Spec, CleanupSparesPublished
-----------------------------------------------------------------------------
(* What the search shows of an item whose edits do not overlap *)

Matches(i) == (Listed(i) <=> Visible(i)) /\ (Listed(i) => index[i].shows = Shown(i))
\* A clean-up has the very copy of i in hand.
Doomed(x, i) ==
    /\ cleaner[x].pc = "deleting" /\ cleaner[x].item = i
    /\ Listed(i) /\ index[i].id = cleaner[x].ids[i]

\* Copies have ids that were given.
FreshIds ==
    /\ \A i \in Items : index[i].id < nextId /\ (Listed(i) => index[i].id # 0)
    /\ \A x \in Cleaners, i \in Items : cleaner[x].ids[i] < nextId

NobodyEditsAtStart == api # "up" => \A e \in Editors : editor[e].pc = "idle"

\* An item matches its copy but for the edits that are at it; those have read what is still
\* true; and a clean-up is about to delete its copy only if it is not published.
Settled(i) ==
    /\ Matches(i) \/ \E e \in Editors : Synchronising(e, i)
    /\ \A e \in Editors : editor[e].pc = "storing" /\ editor[e].item = i =>
         editor[e].visible = Visible(i) /\ editor[e].shows = Shown(i)
    /\ \A x \in Cleaners : Doomed(x, i) => ~Visible(i)

UpInv == api = "up" => \A i \in Items \ doubtful : Settled(i)

RestInv == FreshIds /\ NobodyEditsAtStart /\ UpInv

\* A step that neither touches an item, its copy nor its edits, and with which no clean-up
\* takes the copy of a published item in hand, leaves the item settled.
LEMMA Undisturbed ==
    ASSUME NEW i \in Items, Settled(i),
           Visible(i)' = Visible(i), Shown(i)' = Shown(i), index'[i] = index[i],
           \A e \in Editors : \/ editor'[e] = editor[e]
                              \/ ~Synchronising(e, i) /\ ~Synchronising(e, i)',
           \A x \in Cleaners : Doomed(x, i)' => Doomed(x, i) \/ ~Visible(i)
    PROVE  Settled(i)'
<1>1. Matches(i)' = Matches(i)
  BY DEF Matches, Listed
<1>2. \A e \in Editors : Synchronising(e, i)' = Synchronising(e, i)
  BY DEF Synchronising
<1>3. ASSUME NEW e \in Editors, editor'[e].pc = "storing", editor'[e].item = i
      PROVE  editor'[e].visible = Visible(i) /\ editor'[e].shows = Shown(i)
  <2>1. editor'[e] = editor[e]
    BY <1>3 DEF Synchronising
  <2> QED BY <1>3, <2>1 DEF Settled
<1>4. \A x \in Cleaners : Doomed(x, i)' => ~Visible(i)
  BY DEF Settled
<1>5. Matches(i)' \/ \E e \in Editors : Synchronising(e, i)'
  BY <1>1, <1>2 DEF Settled
<1> QED BY <1>3, <1>4, <1>5 DEF Settled

\* A request starts to synchronise the item that it has written.
LEMMA RestWrite ==
    ASSUME TypeOK, RestInv, NEW e \in Editors, NEW i \in Items, NEW visible,
           api' = api, editor[e].pc \in {"idle", "checked"}, api = "up",
           editor' = Syncing(e, i), cleaner' = Steadied(visible), Doubts(i),
           UNCHANGED <<index, nextId>>,
           \A k \in Items \ {i} : Visible(k)' = Visible(k) /\ Shown(k)' = Shown(k)
    PROVE  RestInv'
<1>1. /\ editor'[e].pc = "syncing" /\ editor'[e].item = i
      /\ \A f \in Editors \ {e} : editor'[f] = editor[f]
      /\ \A x \in Cleaners : /\ cleaner'[x].pc = cleaner[x].pc /\ cleaner'[x].item = cleaner[x].item
                             /\ cleaner'[x].ids = cleaner[x].ids
  BY DEF Syncing, Steadied, IdleEditor, TypeOK, CleanerRecord
<1>2. FreshIds' /\ NobodyEditsAtStart'
  BY <1>1 DEF RestInv, FreshIds, NobodyEditsAtStart, Listed
<1>3. \A x \in Cleaners, k \in Items : Doomed(x, k)' => Doomed(x, k)
  BY <1>1 DEF Doomed, Listed
<1>4. ASSUME NEW k \in Items \ doubtful' PROVE Settled(k)'
  <2>1. k \notin doubtful /\ Settled(k)
    BY DEF Doubts, RestInv, UpInv
  <2>2. CASE k # i
    <3>1. ~Synchronising(e, k) /\ ~Synchronising(e, k)'
      BY <1>1, <2>2 DEF Synchronising
    <3> QED BY <1>1, <1>3, <2>1, <2>2, <3>1, Undisturbed
  <2>3. CASE k = i
    <3>1. \A f \in Editors : ~Synchronising(f, k)
      BY <2>3 DEF Doubts
    <3>2. Matches(k)
      BY <2>1, <3>1 DEF Settled
    <3>3. Synchronising(e, k)'
      BY <1>1, <2>3 DEF Synchronising
    <3>4. \A f \in Editors : ~(editor'[f].pc = "storing" /\ editor'[f].item = k)
      BY <1>1, <3>1 DEF Synchronising
    <3>5. ASSUME NEW x \in Cleaners PROVE ~Doomed(x, k)
      BY <2>1, <3>2 DEF Settled, Matches, Doomed
    <3> QED BY <1>3, <3>3, <3>4, <3>5 DEF Settled
  <2> QED BY <2>2, <2>3
<1> QED BY <1>2, <1>4 DEF RestInv, UpInv

LEMMA RestService ==
    ASSUME TypeOK, RestInv, NEW e \in Editors, NEW s \in Services, NEW doc,
           WriteService(e, s, doc)
    PROVE  RestInv'
<1>1. \A k \in Items \ {s} : Visible(k)' = Visible(k) /\ Shown(k)' = Shown(k)
  BY DEF WriteService, Visible, Shown, TypeOK
<1> QED BY <1>1, RestWrite DEF WriteService, Items

LEMMA RestContent ==
    ASSUME TypeOK, RestInv, NEW e \in Editors, NEW c \in Contents, NEW doc,
           WriteContent(e, c, doc), api = "up", editor[e].pc \in {"idle", "checked"}
    PROVE  RestInv'
<1>1. \A k \in Items \ {c} : Visible(k)' = Visible(k) /\ Shown(k)' = Shown(k)
  BY DEF WriteContent, Visible, Shown, TypeOK, Items
<1> QED BY <1>1, RestWrite DEF WriteContent, Items

LEMMA RestEdit ==
    ASSUME TypeOK, RestInv, NEW e \in Editors, Edit(e)
    PROVE  RestInv'
<1>1. CASE \/ \E s \in Services, published \in BOOLEAN :
                CreateService(e, s, published) \/ UpdateService(e, s, published)
           \/ \E s \in Services : PublishService(e, s) \/ UnpublishService(e, s)
  BY <1>1, RestService DEF CreateService, UpdateService, PublishService, UnpublishService
<1>2. CASE \E c \in Contents : CreateContent(e, c) \/ PushDraft(e, c)
  BY <1>2, RestContent DEF CreateContent, PushDraft, StartEdit
<1>3. CASE \E c \in Contents, op \in {"schedule", "publish", "rollback"}, version \in 1..MaxVersions :
             FindContent(e, c, op, version)
  <2>1. /\ UNCHANGED <<service, content, index, nextId, cleaner, api, doubtful>>
        /\ editor[e].pc = "idle" /\ editor'[e].pc = "checked" /\ api = "up"
        /\ \A f \in Editors \ {e} : editor'[f] = editor[f]
    BY <1>3 DEF FindContent, StartEdit, IdleEditor, TypeOK
  <2>2. FreshIds' /\ NobodyEditsAtStart'
    BY <2>1 DEF RestInv, FreshIds, NobodyEditsAtStart, Listed
  <2>3. ASSUME NEW k \in Items \ doubtful PROVE Settled(k)'
    <3>1. /\ Visible(k)' = Visible(k) /\ Shown(k)' = Shown(k)
          /\ \A x \in Cleaners : Doomed(x, k)' => Doomed(x, k)
          /\ ~Synchronising(e, k) /\ ~Synchronising(e, k)'
      BY <2>1 DEF Visible, Shown, Listed, Doomed, Synchronising
    <3>2. Settled(k)
      BY <2>1 DEF RestInv, UpInv
    <3> QED BY <2>1, <3>1, <3>2, Undisturbed
  <2> QED BY <2>1, <2>2, <2>3 DEF RestInv, UpInv
<1> QED BY <1>1, <1>2, <1>3 DEF Edit

LEMMA RestSyncRead ==
    ASSUME TypeOK, RestInv, NEW e \in Editors, SyncRead(e)
    PROVE  RestInv'
<1>1. /\ UNCHANGED <<service, content, index, nextId, cleaner, api, doubtful>>
      /\ editor[e].pc = "syncing" /\ editor'[e].pc = "storing"
      /\ editor'[e].item = editor[e].item /\ editor'[e].visible = Visible(editor[e].item)
      /\ editor'[e].shows = Shown(editor[e].item)
      /\ \A f \in Editors \ {e} : editor'[f] = editor[f]
  BY DEF SyncRead, counts, TypeOK, EditorRecord
<1>2. api = "up"
  BY <1>1 DEF RestInv, NobodyEditsAtStart
<1>3. FreshIds' /\ NobodyEditsAtStart'
  BY <1>1, <1>2 DEF RestInv, FreshIds, NobodyEditsAtStart, Listed
<1>4. ASSUME NEW k \in Items \ doubtful PROVE Settled(k)'
  <2>1. /\ Visible(k)' = Visible(k) /\ Shown(k)' = Shown(k) /\ Matches(k)' = Matches(k)
        /\ \A x \in Cleaners : Doomed(x, k)' = Doomed(x, k)
        /\ \A f \in Editors : Synchronising(f, k)' = Synchronising(f, k)
    BY <1>1 DEF Visible, Shown, Listed, Matches, Doomed, Synchronising
  <2>2. Settled(k)
    BY <1>2 DEF RestInv, UpInv
  <2>3. ASSUME NEW f \in Editors, editor'[f].pc = "storing", editor'[f].item = k
        PROVE  editor'[f].visible = Visible(k) /\ editor'[f].shows = Shown(k)
    <3>1. CASE f = e
      BY <1>1, <2>3, <3>1
    <3>2. CASE f # e
      BY <1>1, <2>2, <2>3, <3>2 DEF Settled
    <3> QED BY <3>1, <3>2
  <2>4. Matches(k)' \/ \E f \in Editors : Synchronising(f, k)'
    BY <2>1, <2>2 DEF Settled
  <2>5. \A x \in Cleaners : Doomed(x, k)' => ~Visible(k)'
    BY <2>1, <2>2 DEF Settled
  <2> QED BY <2>1, <2>3, <2>4, <2>5 DEF Settled
<1> QED BY <1>1, <1>3, <1>4 DEF RestInv, UpInv

\* The copy is as the request has read the item: it matches, and is a new one if it was made.
LEMMA RestSyncWrite ==
    ASSUME TypeOK, ChosenItem, RestInv, NEW e \in Editors, SyncWrite(e)
    PROVE  RestInv'
<1> PICK i : i = editor[e].item
  OBVIOUS
<1>1. /\ UNCHANGED <<service, content, cleaner, api, doubtful>> /\ editor'[e].pc = "idle"
      /\ editor[e].pc = "storing" /\ i \in Items
      /\ \A k \in Items \ {i} : index'[k] = index[k]
      /\ \A f \in Editors \ {e} : editor'[f] = editor[f]
  BY DEF SyncWrite, counts, IdleEditor, ChosenItem, TypeOK
<1>2. \A k : Visible(k)' = Visible(k) /\ Shown(k)' = Shown(k)
  BY <1>1 DEF Visible, Shown
<1>3. /\ nextId \in Nat \ {0} /\ index[i].id \in Nat
      /\ \A x \in Cleaners, k \in Items : cleaner[x].ids[k] \in Nat
  BY <1>1 DEF TypeOK, EntryRecord, CleanerRecord
<1>4. \/ /\ editor[e].visible /\ Listed(i) /\ index'[i].id = index[i].id
         /\ index'[i].shows = editor[e].shows /\ nextId' = nextId
      \/ /\ editor[e].visible /\ index'[i].id = nextId
         /\ index'[i].shows = editor[e].shows /\ nextId' = nextId + 1
      \/ ~editor[e].visible /\ index'[i] = NoEntry /\ nextId' = nextId
  BY <1>1 DEF SyncWrite, TypeOK, EntryRecord
<1>5. FreshIds'
  <2>1. \A k \in Items : index[k].id \in Nat
    BY DEF TypeOK, EntryRecord
  <2> QED BY <1>1, <1>3, <1>4, <2>1 DEF RestInv, FreshIds, Listed, NoEntry
<1>6. api = "up"
  BY <1>1 DEF RestInv, NobodyEditsAtStart
<1>7. ASSUME NEW k \in Items \ doubtful, k # i PROVE Settled(k)'
  <2>1. /\ Settled(k) /\ ~Synchronising(e, k) /\ ~Synchronising(e, k)'
        /\ \A x \in Cleaners : Doomed(x, k)' => Doomed(x, k)
    BY <1>1, <1>6, <1>7 DEF RestInv, UpInv, Synchronising, Doomed, Listed
  <2> QED BY <1>1, <1>2, <1>7, <2>1, Undisturbed
<1>8. ASSUME i \notin doubtful PROVE Settled(i)'
  <2>1. /\ Settled(i) /\ editor[e].visible = Visible(i) /\ editor[e].shows = Shown(i)
    BY <1>1, <1>6, <1>8 DEF RestInv, UpInv, Settled
  <2>2. Listed(i)' <=> Visible(i)
    <3>1. NoEntry.id = 0 /\ (Listed(i) => index[i].id # 0)
      BY <1>1 DEF NoEntry, RestInv, FreshIds
    <3>2. index'[i].id # 0 => Listed(i)'
      BY <3>1 DEF Listed
    <3> QED BY <1>3, <1>4, <2>1, <3>1, <3>2 DEF Listed
  <2>3. Matches(i)'
    BY <1>2, <1>4, <2>1, <2>2 DEF Matches
  <2>4. ASSUME NEW x \in Cleaners, Doomed(x, i)' PROVE ~Visible(i)
    <3>1. Listed(i)' /\ cleaner[x].ids[i] = index'[i].id
      BY <1>1, <2>4 DEF Doomed
    <3>2. index'[i].id # nextId
      BY <1>1, <1>3, <3>1 DEF RestInv, FreshIds
    <3>3. Doomed(x, i) \/ ~editor[e].visible
      BY <1>1, <1>4, <2>4, <3>2 DEF Doomed
    <3> QED BY <2>1, <3>3 DEF Settled
  <2>5. ASSUME NEW f \in Editors, editor'[f].pc = "storing", editor'[f].item = i
        PROVE  editor'[f].visible = Visible(i) /\ editor'[f].shows = Shown(i)
    BY <1>1, <2>1, <2>5 DEF Settled
  <2> QED BY <1>2, <2>3, <2>4, <2>5 DEF Settled
<1> QED BY <1>1, <1>5, <1>6, <1>7, <1>8 DEF RestInv, UpInv, NobodyEditsAtStart

LEMMA RestGoOn ==
    ASSUME TypeOK, ChosenItem, RestInv, NEW e \in Editors, GoOn(e)
    PROVE  RestInv'
<1>1. CASE ChangeContent(e)
  <2>1. api = "up" /\ editor[e].pc = "checked" /\ editor[e].item \in Contents
    BY <1>1 DEF ChangeContent, ChosenItem, RestInv, NobodyEditsAtStart
  <2> QED BY <1>1, <2>1, RestContent DEF ChangeContent
<1> QED BY <1>1, RestSyncRead, RestSyncWrite DEF GoOn

\* A request that fails leaves its item in doubt if it was to be synchronised.
LEMMA RestFails ==
    ASSUME TypeOK, RestInv, NEW e \in Editors, EditFails(e)
    PROVE  RestInv'
<1>1. /\ UNCHANGED <<service, content, index, nextId, cleaner, api>> /\ editor'[e].pc = "idle"
      /\ \A f \in Editors \ {e} : editor'[f] = editor[f]
      /\ doubtful' = doubtful \cup {i \in Items : Synchronising(e, i)}
  BY DEF EditFails, IdleEditor, TypeOK
<1>2. FreshIds' /\ NobodyEditsAtStart'
  BY <1>1 DEF RestInv, FreshIds, NobodyEditsAtStart, Listed
<1>3. ASSUME api = "up", NEW k \in Items \ doubtful' PROVE Settled(k)'
  <2>1. /\ Visible(k)' = Visible(k) /\ Shown(k)' = Shown(k)
        /\ \A x \in Cleaners : Doomed(x, k)' => Doomed(x, k)
        /\ ~Synchronising(e, k) /\ ~Synchronising(e, k)'
    BY <1>1 DEF Visible, Shown, Listed, Doomed, Synchronising
  <2>2. Settled(k)
    BY <1>1, <1>3 DEF RestInv, UpInv
  <2> QED BY <1>1, <2>1, <2>2, Undisturbed
<1> QED BY <1>1, <1>2, <1>3 DEF RestInv, UpInv

LEMMA RestClean ==
    ASSUME TypeOK, RestInv, NEW x \in Cleaners, Clean(x)
    PROVE  RestInv'
<1>1. \A k : Visible(k)' = Visible(k) /\ Shown(k)' = Shown(k)
  BY DEF Clean, CleanStart, CleanCheck, CleanDelete, CleanEnd, Visible, Shown
<1>2. UNCHANGED <<editor, nextId, api, doubtful>>
  BY DEF Clean, CleanStart, CleanCheck, CleanDelete, CleanEnd
<1>3. \A y \in Cleaners \ {x} : cleaner'[y] = cleaner[y]
  BY DEF Clean, CleanStart, CleanCheck, CleanDelete, CleanEnd, TypeOK
<1>4. \A i \in Items : \/ index'[i] = index[i]
                       \/ index'[i] = NoEntry /\ Doomed(x, i)
  <2>1. CASE CleanDelete(x)
    BY <2>1 DEF CleanDelete, SameCopy, Doomed, Listed, TypeOK
  <2>2. CASE CleanStart(x) \/ (\E i \in Items : CleanCheck(x, i)) \/ CleanEnd(x)
    BY <2>2 DEF CleanStart, CleanCheck, CleanEnd
  <2> QED BY <2>1, <2>2 DEF Clean
<1>5. nextId \in Nat \ {0} /\ \A i \in Items : index[i].id < nextId
  BY DEF TypeOK, RestInv, FreshIds
<1>6. /\ \A i \in Items : cleaner'[x].ids[i] < nextId
      /\ \A i \in Items : Doomed(x, i)' => ~Visible(i)
  <2>1. CASE CleanStart(x)
    <3>1. cleaner'[x].pc = "cleaning" /\ \A i \in Items : cleaner'[x].ids[i] = index[i].id
      BY <2>1 DEF CleanStart, TypeOK
    <3> QED BY <1>5, <3>1 DEF Doomed
  <2>2. CASE \E i \in Items : CleanCheck(x, i)
    <3> PICK i \in Items : CleanCheck(x, i)
      BY <2>2
    <3>1. /\ cleaner'[x].ids = cleaner[x].ids
          /\ cleaner'[x].pc = "cleaning" \/ (cleaner'[x].item = i /\ ~Visible(i))
      BY DEF CleanCheck, Orphan, TypeOK, CleanerRecord
    <3> QED BY <3>1 DEF Doomed, RestInv, FreshIds
  <2>3. CASE CleanDelete(x)
    <3>1. cleaner'[x].ids = cleaner[x].ids /\ cleaner'[x].pc = "cleaning"
      BY <2>3 DEF CleanDelete, TypeOK, CleanerRecord
    <3> QED BY <3>1 DEF Doomed, RestInv, FreshIds
  <2>4. CASE CleanEnd(x)
    <3>1. cleaner'[x] = IdleCleaner
      BY <2>4 DEF CleanEnd, TypeOK
    <3> QED BY <1>5, <3>1 DEF Doomed, IdleCleaner
  <2> QED BY <2>1, <2>2, <2>3, <2>4 DEF Clean
<1>7. FreshIds'
  BY <1>2, <1>3, <1>4, <1>5, <1>6 DEF RestInv, FreshIds, Listed, NoEntry
<1>8. ASSUME api = "up", NEW i \in Items \ doubtful PROVE Settled(i)'
  <2>0. Settled(i)
    BY <1>8 DEF RestInv, UpInv
  <2>1. \A y \in Cleaners : Doomed(y, i)' => Doomed(y, i) \/ ~Visible(i)
    BY <1>3, <1>4, <1>6 DEF Doomed, Listed
  <2>2. CASE index'[i] = index[i]
    BY <1>1, <1>2, <2>0, <2>1, <2>2, Undisturbed
  <2>3. CASE index'[i] = NoEntry /\ Doomed(x, i)
    <3>1. ~Visible(i) /\ ~Listed(i)'
      BY <2>0, <2>3 DEF Settled, Listed
    <3>2. Matches(i)' /\ \A y \in Cleaners : ~Doomed(y, i)'
      BY <1>1, <3>1 DEF Matches, Doomed
    <3>3. \A e \in Editors : editor'[e].pc = "storing" /\ editor'[e].item = i =>
            editor'[e].visible = Visible(i)' /\ editor'[e].shows = Shown(i)'
      BY <1>1, <1>2, <2>0 DEF Settled
    <3> QED BY <3>2, <3>3 DEF Settled
  <2> QED BY <1>4, <2>2, <2>3
<1> QED BY <1>2, <1>7, <1>8 DEF RestInv, NobodyEditsAtStart, UpInv

LEMMA RestStart ==
    ASSUME TypeOK, RestInv, Crash \/ Start
    PROVE  RestInv'
<1>1. nextId \in Nat \ {0}
  BY DEF TypeOK
<1>2. CASE Crash
  <2>1. /\ index' = index /\ nextId' = nextId /\ api' = "seeding"
        /\ \A e \in Editors : editor'[e].pc = "idle"
    BY <1>2 DEF Crash, IdleEditor
  <2>2. \A x \in Cleaners, i \in Items :
          cleaner'[x].ids[i] = cleaner[x].ids[i] \/ cleaner'[x].ids[i] = 0
    BY <1>2 DEF Crash, IdleCleaner
  <2>3. FreshIds'
    BY <1>1, <2>1, <2>2 DEF RestInv, FreshIds, Listed
  <2> QED BY <2>1, <2>3 DEF RestInv, NobodyEditsAtStart, UpInv
<1>3. CASE Seed
  BY <1>3 DEF Seed, RestInv, FreshIds, NobodyEditsAtStart, UpInv, Listed
<1>4. CASE Clear
  <2>1. FreshIds'
    BY <1>1, <1>4 DEF Clear, RestInv, FreshIds, Listed, NoEntry
  <2> QED BY <1>4, <2>1 DEF Clear, RestInv, NobodyEditsAtStart, UpInv
<1>5. CASE InsertAll
  <2>1. /\ UNCHANGED <<service, content, editor, cleaner, doubtful>> /\ api' = "up"
        /\ nextId' = nextId + 1 /\ \A e \in Editors : editor[e].pc = "idle"
    BY <1>5 DEF InsertAll, RestInv, NobodyEditsAtStart
  <2>2. \A i : Visible(i)' = Visible(i) /\ Shown(i)' = Shown(i)
    BY <2>1 DEF Visible, Shown
  <2>3. \A i \in Items :
          \/ Visible(i) /\ index'[i].id = nextId /\ index'[i].shows = Shown(i)
          \/ ~Visible(i) /\ index'[i] = NoEntry
    BY <1>5 DEF InsertAll
  <2>4. \A x \in Cleaners, i \in Items : cleaner[x].ids[i] < nextId /\ cleaner[x].ids[i] \in Nat
    BY DEF RestInv, FreshIds, TypeOK, CleanerRecord
  <2>5. FreshIds'
    BY <1>1, <2>1, <2>3, <2>4 DEF FreshIds, Listed, NoEntry
  <2>6. \A i \in Items : Matches(i)'
    BY <1>1, <2>2, <2>3 DEF Matches, Listed, NoEntry
  <2>7. \A x \in Cleaners, i \in Items : Doomed(x, i)' => ~Visible(i)'
    BY <1>1, <2>1, <2>2, <2>3, <2>4 DEF Doomed
  <2>8. \A e \in Editors : editor'[e].pc # "storing"
    BY <2>1
  <2> QED BY <2>1, <2>5, <2>6, <2>7, <2>8 DEF RestInv, NobodyEditsAtStart, UpInv, Settled
<1> QED BY <1>2, <1>3, <1>4, <1>5 DEF Start

LEMMA RestNext == TypeOK /\ ChosenItem /\ RestInv /\ [Next]_vars => RestInv'
<1> SUFFICES ASSUME TypeOK, ChosenItem, RestInv, [Next]_vars PROVE RestInv'
  OBVIOUS
<1>1. CASE \E e \in Editors : Edit(e) \/ GoOn(e) \/ EditFails(e)
  BY <1>1, RestEdit, RestGoOn, RestFails
<1>2. CASE UNCHANGED vars
  BY <1>2 DEF vars, counts, RestInv, FreshIds, NobodyEditsAtStart, UpInv, Listed, Settled, Matches,
              Visible, Shown, Synchronising, Doomed
<1> QED BY <1>1, <1>2, RestClean, RestStart DEF Next

-----------------------------------------------------------------------------
(* SearchIndex implements Search: under the mapping of SearchIndex, the initial     *)
(* states map to initial states, and every step to a step of the promise or to none. *)

\* Nothing is in doubt until the API is up, and of an item that is not in doubt one request at
\* most has yet to write the copy.
OneAtATime ==
    /\ api # "up" => doubtful = {}
    /\ \A i \in Items \ doubtful : \A e, f \in Editors :
         Synchronising(e, i) /\ Synchronising(f, i) => e = f

LEMMA ViewTypes ==
    ASSUME TypeOK
    PROVE  /\ Published \in [Items -> SUBSET Nat] /\ Found \in [Items -> SUBSET Nat]
           /\ Due \subseteq Items
<1>1. \A i \in Items : Shown(i) \in Nat
  BY Ranges DEF TypeOK, ServiceRecord, ContentRecord, Shown, Items
<1>2. \A i \in Items : index[i].shows \in Nat
  BY DEF TypeOK, EntryRecord
<1> QED BY <1>1, <1>2 DEF Published, Found, Due

LEMMA ViewTypesNext ==
    ASSUME TypeOK'
    PROVE  /\ Published' \in [Items -> SUBSET Nat] /\ Found' \in [Items -> SUBSET Nat]
           /\ Due' \subseteq Items
<1>1. \A i \in Items : Shown(i)' \in Nat
  BY Ranges DEF TypeOK, ServiceRecord, ContentRecord, Shown, Items
<1>2. \A i \in Items : index'[i].shows \in Nat
  BY DEF TypeOK, EntryRecord
<1> QED BY <1>1, <1>2 DEF Published, Found, Due

\* What the promise sees of an item, which nothing else has a say in.
LEMMA Alike ==
    ASSUME NEW i \in Items
    PROVE  /\ Visible(i)' = Visible(i) /\ Shown(i)' = Shown(i) => Published'[i] = Published[i]
           /\ (api' = "up") = (api = "up") /\ (i \in doubtful') = (i \in doubtful)
                /\ index'[i] = index[i] => Found'[i] = Found[i]
           /\ i \in doubtful' \/ api' # "up" => Found'[i] = {}
           /\ i \in doubtful \/ api # "up" => Found[i] = {}
BY DEF Published, Found, Listed

\* A step that leaves the items, their copies and the edits of each alone is not seen.
LEMMA Unseen ==
    ASSUME UNCHANGED <<service, content, index, api, doubtful>>,
           \A e \in Editors, i \in Items : Synchronising(e, i)' <=> Synchronising(e, i)
    PROVE  UNCHANGED Promise!vars /\ (OneAtATime => OneAtATime')
<1>1. Published' = Published
  BY DEF Published, Visible, Shown
<1>2. Found' = Found
  BY DEF Found, Listed
<1>3. Due' = Due
  BY DEF Due
<1> QED BY <1>1, <1>2, <1>3 DEF Promise!vars, OneAtATime

\* An item is written: its edit is due, or it is lost.
LEMMA WriteKept ==
    ASSUME TypeOK, TypeOK', OneAtATime, NEW e \in Editors, NEW i \in Items, api = "up", api' = api,
           editor[e].pc \in {"idle", "checked"}, editor' = Syncing(e, i), Doubts(i), index' = index,
           \A k \in Items \ {i} : Visible(k)' = Visible(k) /\ Shown(k)' = Shown(k)
    PROVE  OneAtATime' /\ (Promise!Edit(i) \/ Promise!Lose(i))
<1>1. /\ editor'[e].pc = "syncing" /\ editor'[e].item = i
      /\ \A f \in Editors \ {e} : editor'[f] = editor[f]
  BY DEF Syncing, IdleEditor, TypeOK
<1>2. /\ \A f \in Editors, k \in Items : k # i \/ f # e =>
           (Synchronising(f, k)' <=> Synchronising(f, k))
      /\ Synchronising(e, i)' /\ \A k \in Items : ~Synchronising(e, k)
  BY <1>1 DEF Synchronising
<1>3. \A k \in Items \ {i} : (k \in doubtful') = (k \in doubtful)
  BY DEF Doubts
<1>4. Promise!Change({i})
  BY ViewTypes, ViewTypesNext, Alike DEF Promise!Change
<1>5. \A k \in Items \ {i} : Found'[k] = Found[k] /\ (k \in Due' <=> k \in Due)
  BY <1>2, <1>3, Alike DEF Due
<1>6. Found \in [Items -> SUBSET Nat] /\ Found' \in [Items -> SUBSET Nat] /\ Due' \subseteq Items
  BY ViewTypes, ViewTypesNext
<1>7. CASE i \in doubtful'
  <2>1. i \in Due \cup doubtful
    BY <1>7 DEF Doubts, Due
  <2>2. Due' = Due \ {i} /\ doubtful' = doubtful \cup {i}
    BY <1>5, <1>6, <1>7 DEF Doubts, Due
  <2>3. Found' = [Found EXCEPT ![i] = Promise!Nothing]
    BY <1>5, <1>6, <1>7, Alike DEF Promise!Nothing
  <2>4. Promise!Lose(i)
    BY <1>4, <2>1, <2>2, <2>3 DEF Promise!Lose
  <2>5. OneAtATime'
    BY <1>2, <1>3, <1>7 DEF OneAtATime
  <2> QED BY <2>4, <2>5
<1>8. CASE i \notin doubtful'
  <2>1. /\ doubtful' = doubtful /\ i \notin doubtful
        /\ \A f \in Editors : ~Synchronising(f, i)
    BY <1>8 DEF Doubts
  <2>2. i \notin Due /\ Due' = Due \cup {i}
    BY <1>2, <1>5, <2>1 DEF Due
  <2>3. Found' = Found
    BY <2>1 DEF Found, Listed
  <2>4. Promise!Edit(i)
    BY <1>4, <2>1, <2>2, <2>3 DEF Promise!Edit
  <2>5. OneAtATime'
    BY <1>2, <2>1 DEF OneAtATime
  <2> QED BY <2>4, <2>5
<1> QED BY <1>7, <1>8

LEMMA ServiceKept ==
    ASSUME TypeOK, TypeOK', OneAtATime, NEW e \in Editors, NEW s \in Services, NEW doc,
           WriteService(e, s, doc)
    PROVE  OneAtATime' /\ Promise!Next
<1>1. \A k \in Items \ {s} : Visible(k)' = Visible(k) /\ Shown(k)' = Shown(k)
  BY DEF WriteService, Visible, Shown, TypeOK
<1>2. s \in Items
  BY DEF Items
<1>3. OneAtATime' /\ (Promise!Edit(s) \/ Promise!Lose(s))
  BY <1>1, <1>2, WriteKept DEF WriteService
<1> QED BY <1>2, <1>3 DEF Promise!Next

LEMMA ContentKept ==
    ASSUME TypeOK, TypeOK', OneAtATime, NEW e \in Editors, NEW c \in Contents, NEW doc,
           WriteContent(e, c, doc), api = "up", editor[e].pc \in {"idle", "checked"}
    PROVE  OneAtATime' /\ Promise!Next
<1>1. \A k \in Items \ {c} : Visible(k)' = Visible(k) /\ Shown(k)' = Shown(k)
  BY DEF WriteContent, Visible, Shown, TypeOK, Items
<1>2. c \in Items
  BY DEF Items
<1>3. OneAtATime' /\ (Promise!Edit(c) \/ Promise!Lose(c))
  BY <1>1, <1>2, WriteKept DEF WriteContent
<1> QED BY <1>2, <1>3 DEF Promise!Next

LEMMA EditKept ==
    ASSUME TypeOK, TypeOK', OneAtATime, NEW e \in Editors, Edit(e)
    PROVE  OneAtATime' /\ [Promise!Next]_(Promise!vars)
<1>1. CASE \/ \E s \in Services, published \in BOOLEAN :
                CreateService(e, s, published) \/ UpdateService(e, s, published)
           \/ \E s \in Services : PublishService(e, s) \/ UnpublishService(e, s)
  BY <1>1, ServiceKept DEF CreateService, UpdateService, PublishService, UnpublishService
<1>2. CASE \E c \in Contents : CreateContent(e, c) \/ PushDraft(e, c)
  BY <1>2, ContentKept DEF CreateContent, PushDraft, StartEdit
<1>3. CASE \E c \in Contents, op \in {"schedule", "publish", "rollback"}, version \in 1..MaxVersions :
             FindContent(e, c, op, version)
  <2>1. /\ UNCHANGED <<service, content, index, api, doubtful>>
        /\ editor[e].pc = "idle" /\ editor'[e].pc = "checked"
        /\ \A f \in Editors \ {e} : editor'[f] = editor[f]
    BY <1>3 DEF FindContent, StartEdit, IdleEditor, TypeOK
  <2>2. \A f \in Editors, i \in Items : Synchronising(f, i)' <=> Synchronising(f, i)
    BY <2>1 DEF Synchronising
  <2> QED BY <2>1, <2>2, Unseen
<1> QED BY <1>1, <1>2, <1>3 DEF Edit

\* A copy is written: the edit has arrived, unless the item was lost.
LEMMA SyncWriteKept ==
    ASSUME TypeOK, TypeOK', ChosenItem, RestInv, OneAtATime, RestInv', NEW e \in Editors,
           SyncWrite(e)
    PROVE  OneAtATime' /\ [Promise!Next]_(Promise!vars)
<1> PICK i : i = editor[e].item
  OBVIOUS
<1>1. /\ UNCHANGED <<service, content, api, doubtful>> /\ editor'[e].pc = "idle"
      /\ editor[e].pc = "storing" /\ i \in Items
      /\ \A k \in Items \ {i} : index'[k] = index[k]
      /\ \A f \in Editors \ {e} : editor'[f] = editor[f]
  BY DEF SyncWrite, counts, IdleEditor, ChosenItem, TypeOK
<1>2. Published' = Published
  BY <1>1 DEF Published, Visible, Shown
<1>3. /\ \A f \in Editors, k \in Items : f # e => (Synchronising(f, k)' <=> Synchronising(f, k))
      /\ \A k \in Items : ~Synchronising(e, k)'
      /\ \A k \in Items \ {i} : ~Synchronising(e, k)
      /\ Synchronising(e, i)
  BY <1>1 DEF Synchronising
<1>4. OneAtATime'
  BY <1>1, <1>3 DEF OneAtATime
<1>5. /\ \A k \in Items \ {i} : (k \in Due' <=> k \in Due) /\ Found'[k] = Found[k]
      /\ Due \subseteq Items /\ Due' \subseteq Items
      /\ Found \in [Items -> SUBSET Nat] /\ Found' \in [Items -> SUBSET Nat]
  BY <1>1, <1>3, Alike, ViewTypes, ViewTypesNext DEF Due
<1>6. api = "up"
  BY <1>1 DEF RestInv, NobodyEditsAtStart
<1>7. CASE i \in doubtful
  <2>1. i \notin Due /\ i \notin Due' /\ Found[i] = {} /\ Found'[i] = {}
    BY <1>1, <1>7, Alike DEF Due
  <2>2. Due' = Due
    BY <1>5, <2>1
  <2>3. \A k \in Items : Found'[k] = Found[k]
    BY <1>5, <2>1
  <2>4. Found' = Found
    BY <1>5, <2>3
  <2> QED BY <1>1, <1>2, <1>4, <2>2, <2>4 DEF Promise!vars
<1>8. CASE i \notin doubtful
  <2>1. i \in Due /\ Due' = Due \ {i}
    BY <1>1, <1>3, <1>5, <1>8 DEF Due, OneAtATime
  <2>2. Matches(i)'
    <3>1. ~\E f \in Editors : Synchronising(f, i)'
      BY <1>1, <1>3, <1>8 DEF OneAtATime
    <3>2. Settled(i)'
      BY <1>1, <1>6, <1>8 DEF RestInv, UpInv
    <3> QED BY <3>1, <3>2 DEF Settled
  <2>3. Found'[i] = Published[i]
    BY <1>1, <1>2, <1>6, <1>8, <2>2 DEF Found, Published, Matches
  <2>4. Found' = [Found EXCEPT ![i] = Published[i]]
    BY <1>1, <1>5, <2>3
  <2>5. Promise!Arrive(i)
    BY <1>1, <1>2, <1>6, <2>1, <2>4 DEF Promise!Arrive
  <2> QED BY <1>1, <1>4, <2>5 DEF Promise!Next
<1> QED BY <1>7, <1>8

LEMMA GoOnKept ==
    ASSUME TypeOK, TypeOK', ChosenItem, RestInv, OneAtATime, RestInv', NEW e \in Editors, GoOn(e)
    PROVE  OneAtATime' /\ [Promise!Next]_(Promise!vars)
<1>1. CASE ChangeContent(e)
  <2>1. api = "up" /\ editor[e].pc = "checked" /\ editor[e].item \in Contents
    BY <1>1 DEF ChangeContent, ChosenItem, RestInv, NobodyEditsAtStart
  <2> QED BY <1>1, <2>1, ContentKept DEF ChangeContent
<1>2. CASE SyncRead(e)
  <2>1. /\ UNCHANGED <<service, content, index, api, doubtful>>
        /\ editor[e].pc = "syncing" /\ editor'[e].pc = "storing"
        /\ editor'[e].item = editor[e].item
        /\ \A f \in Editors \ {e} : editor'[f] = editor[f]
    BY <1>2 DEF SyncRead, counts, TypeOK, EditorRecord
  <2>2. \A f \in Editors, i \in Items : Synchronising(f, i)' <=> Synchronising(f, i)
    BY <2>1 DEF Synchronising
  <2> QED BY <2>1, <2>2, Unseen
<1> QED BY <1>1, <1>2, SyncWriteKept DEF GoOn

\* A request that fails loses its item, if it was to be synchronised.
LEMMA FailsKept ==
    ASSUME TypeOK, TypeOK', ChosenItem, RestInv, OneAtATime, NEW e \in Editors, EditFails(e)
    PROVE  OneAtATime' /\ [Promise!Next]_(Promise!vars)
<1>1. /\ UNCHANGED <<service, content, index, api>> /\ editor'[e].pc = "idle"
      /\ editor[e].pc # "idle" /\ \A f \in Editors \ {e} : editor'[f] = editor[f]
      /\ doubtful' = doubtful \cup {i \in Items : Synchronising(e, i)}
  BY DEF EditFails, IdleEditor, TypeOK
<1>2. /\ \A f \in Editors, k \in Items : f # e => (Synchronising(f, k)' <=> Synchronising(f, k))
      /\ \A k \in Items : ~Synchronising(e, k)'
  BY <1>1 DEF Synchronising
<1>3. api = "up"
  BY <1>1 DEF RestInv, NobodyEditsAtStart
<1>4. OneAtATime'
  BY <1>1, <1>2, <1>3 DEF OneAtATime
<1>5. CASE \A k \in Items : ~Synchronising(e, k)
  <2>1. doubtful' = doubtful
    BY <1>1, <1>5 DEF TypeOK
  <2>2. \A f \in Editors, k \in Items : Synchronising(f, k)' <=> Synchronising(f, k)
    BY <1>2, <1>5
  <2> QED BY <1>1, <1>4, <2>1, <2>2, Unseen
<1>6. ASSUME NEW i \in Items, Synchronising(e, i)
      PROVE  Promise!Lose(i)
  <2>1. \A k \in Items \ {i} : ~Synchronising(e, k)
    BY <1>6 DEF Synchronising
  <2>2. doubtful' = doubtful \cup {i}
    BY <1>1, <1>6, <2>1
  <2>3. \A k \in Items \ {i} : (k \in Due' <=> k \in Due) /\ Found'[k] = Found[k]
    BY <1>1, <1>2, <2>1, <2>2, Alike DEF Due
  <2>4. /\ Due \subseteq Items /\ Due' \subseteq Items
        /\ Found \in [Items -> SUBSET Nat] /\ Found' \in [Items -> SUBSET Nat]
    BY ViewTypes, ViewTypesNext
  <2>5. i \in Due \cup doubtful /\ Due' = Due \ {i}
    BY <1>6, <2>2, <2>3, <2>4 DEF Due
  <2>6. Found' = [Found EXCEPT ![i] = Promise!Nothing]
    BY <2>2, <2>3, <2>4, Alike DEF Promise!Nothing
  <2>7. Published' = Published /\ Published' \in [Items -> SUBSET Nat]
    BY <1>1, ViewTypes, ViewTypesNext DEF Published, Visible, Shown
  <2>8. Promise!Change({i})
    BY <2>7 DEF Promise!Change
  <2> QED BY <1>1, <1>3, <2>2, <2>5, <2>6, <2>8 DEF Promise!Lose
<1> QED BY <1>4, <1>5, <1>6 DEF Promise!Next

\* A clean-up takes out what was withdrawn, or what is lost, or nothing.
LEMMA CleanKept ==
    ASSUME TypeOK, TypeOK', RestInv, RestInv', OneAtATime, NEW x \in Cleaners, Clean(x)
    PROVE  OneAtATime' /\ [Promise!Next]_(Promise!vars)
<1>1. UNCHANGED <<service, content, editor, api, doubtful>>
  BY DEF Clean, CleanStart, CleanCheck, CleanDelete, CleanEnd
<1>2. \A e \in Editors, i \in Items : Synchronising(e, i)' <=> Synchronising(e, i)
  BY <1>1 DEF Synchronising
<1>3. CASE index' = index
  BY <1>1, <1>2, <1>3, Unseen
<1>4. CASE index' # index
  <2>1. PICK i \in Items : index' = [index EXCEPT ![i] = NoEntry] /\ Doomed(x, i)
    <3>1. CleanDelete(x) /\ SameCopy(x, cleaner[x].item)
      BY <1>4 DEF Clean, CleanStart, CleanCheck, CleanDelete, CleanEnd
    <3>2. cleaner[x].item \in Items /\ index[cleaner[x].item] # NoEntry
      BY <1>4, <3>1 DEF CleanDelete, TypeOK
    <3> QED BY <3>1, <3>2 DEF CleanDelete, SameCopy, Doomed, Listed
  <2>2. Published' = Published /\ Due' = Due
    BY <1>1, <1>2 DEF Published, Visible, Shown, Due
  <2>3. \A k \in Items \ {i} : Found'[k] = Found[k]
    BY <1>1, <2>1, Alike DEF TypeOK
  <2>4. Found \in [Items -> SUBSET Nat] /\ Found' \in [Items -> SUBSET Nat]
    BY ViewTypes, ViewTypesNext
  <2>5. Found'[i] = {}
    BY <2>1 DEF Found, Listed, TypeOK
  <2>6. OneAtATime'
    BY <1>1, <1>2 DEF OneAtATime
  <2>7. CASE i \in doubtful \/ api # "up"
    <3>1. Found' = Found
      BY <2>3, <2>4, <2>5, <2>7, Alike
    <3> QED BY <1>1, <2>2, <2>6, <3>1 DEF Promise!vars
  <2>8. CASE i \notin doubtful /\ api = "up"
    <3>1. Settled(i) /\ ~Visible(i) /\ Listed(i)
      BY <2>1, <2>8 DEF RestInv, UpInv, Settled, Doomed
    <3>2. i \in Due
      BY <2>8, <3>1 DEF Settled, Matches, Due
    <3>3. Published[i] = {}
      BY <3>1 DEF Published
    <3>4. Found' = [Found EXCEPT ![i] = Promise!Nothing]
      BY <2>3, <2>4, <2>5 DEF Promise!Nothing
    <3>5. Promise!TakeOut(i)
      BY <1>1, <2>2, <2>8, <3>2, <3>3, <3>4 DEF Promise!TakeOut, Promise!Nothing
    <3> QED BY <2>6, <3>5 DEF Promise!Next
  <2> QED BY <2>7, <2>8
<1> QED BY <1>3, <1>4

\* The search closes when the API dies, and opens with the copies of what is published.
LEMMA StartKept ==
    ASSUME TypeOK, TypeOK', RestInv, OneAtATime, Crash \/ Start
    PROVE  OneAtATime' /\ [Promise!Next]_(Promise!vars)
<1>1. /\ Found \in [Items -> SUBSET Nat] /\ Found' \in [Items -> SUBSET Nat]
      /\ Published \in [Items -> SUBSET Nat] /\ Published' \in [Items -> SUBSET Nat]
  BY ViewTypes, ViewTypesNext
<1>2. ASSUME \A e \in Editors : editor[e].pc = "idle" PROVE Due = {}
  BY <1>2 DEF Due, Synchronising
<1>3. ASSUME \A e \in Editors : editor'[e].pc = "idle" PROVE Due' = {}
  BY <1>3 DEF Due, Synchronising
<1>4. CASE Crash
  <2>1. /\ UNCHANGED <<service, content>> /\ api' = "seeding" /\ doubtful' = {}
        /\ \A e \in Editors : editor'[e].pc = "idle"
    BY <1>4 DEF Crash, IdleEditor
  <2>2. OneAtATime'
    BY <2>1 DEF OneAtATime, Synchronising
  <2>3. Published' = Published /\ Due' = {}
    BY <1>3, <2>1 DEF Published, Visible, Shown
  <2>4. Found' = [i \in Items |-> Promise!Nothing]
    BY <1>1, <2>1, Alike DEF Promise!Nothing
  <2>5. CASE api = "up"
    BY <2>1, <2>2, <2>3, <2>4, <2>5 DEF Promise!Close, Promise!Next
  <2>6. CASE api # "up"
    <3>1. Found = [i \in Items |-> Promise!Nothing]
      BY <1>1, <2>6, Alike DEF Promise!Nothing
    <3>2. Due = {} /\ doubtful = {}
      BY <1>2, <2>6 DEF RestInv, NobodyEditsAtStart, OneAtATime
    <3> QED BY <2>1, <2>2, <2>3, <2>4, <2>6, <3>1, <3>2 DEF Promise!vars
  <2> QED BY <2>5, <2>6
<1>5. CASE Start
  <2>1. /\ api # "up" /\ UNCHANGED <<editor, doubtful>>
        /\ \A e \in Editors : editor[e].pc = "idle"
    BY <1>5 DEF Start, Seed, Clear, InsertAll, RestInv, NobodyEditsAtStart
  <2>2. Due = {} /\ Due' = {} /\ doubtful = {} /\ doubtful' = {}
    BY <1>2, <1>3, <2>1 DEF OneAtATime
  <2>3. OneAtATime'
    BY <2>1, <2>2 DEF OneAtATime, Synchronising
  <2>4. \A i \in Items : Found[i] = {}
    BY <2>1, Alike
  <2>5. CASE Seed
    <3>1. api' # "up"
      BY <2>5 DEF Seed
    <3>2. Found' = Found
      BY <1>1, <2>4, <3>1, Alike
    <3>3. \A i \in Items \ Seeds : Published'[i] = Published[i]
      <4>1. \A i \in Items \ Seeds : Visible(i)' = Visible(i) /\ Shown(i)' = Shown(i)
        BY <2>5 DEF Seed, Visible, Shown, Items
      <4> QED BY <4>1, Alike
    <3> QED BY <1>1, <2>1, <2>2, <2>3, <3>1, <3>2, <3>3
            DEF Promise!Refit, Promise!Change, Promise!Next
  <2>6. CASE Clear
    <3>1. api' # "up" /\ UNCHANGED <<service, content>>
      BY <2>6 DEF Clear
    <3>2. Found' = Found
      <4>1. \A i \in Items : Found'[i] = Found[i]
        BY <2>4, <3>1, Alike
      <4> QED BY <1>1, <4>1
    <3>3. Published' = Published
      BY <3>1 DEF Published, Visible, Shown
    <3> QED BY <2>1, <2>2, <2>3, <3>1, <3>2, <3>3 DEF Promise!vars
  <2>7. CASE InsertAll
    <3>1. api' = "up" /\ UNCHANGED <<service, content>> /\ nextId \in Nat \ {0}
      BY <2>7 DEF InsertAll, TypeOK
    <3>2. Published' = Published
      BY <3>1 DEF Published, Visible, Shown
    <3>3. \A i \in Items :
            index'[i] = IF Visible(i) THEN [id |-> nextId, shows |-> Shown(i)] ELSE NoEntry
      BY <2>7 DEF InsertAll
    <3>4. ASSUME NEW i \in Items PROVE Found'[i] = Published[i]
      <4> DEFINE entry == [id |-> nextId, shows |-> Shown(i)]
      <4>1. index'[i] = IF Visible(i) THEN entry ELSE NoEntry
        BY <3>3
      <4>2. entry.shows = Shown(i) /\ entry.id # NoEntry.id
        BY <3>1 DEF NoEntry
      <4> HIDE DEF entry
      <4>3. (Listed(i)' <=> Visible(i)) /\ (Visible(i) => index'[i].shows = Shown(i))
        BY <4>1, <4>2 DEF Listed
      <4> QED BY <2>2, <3>1, <4>3 DEF Found, Published
    <3>5. Found' = Published
      BY <1>1, <3>4
    <3> QED BY <2>1, <2>2, <2>3, <3>1, <3>2, <3>5 DEF Promise!Open, Promise!Next
  <2> QED BY <1>5, <2>5, <2>6, <2>7 DEF Start
<1> QED BY <1>4, <1>5

LEMMA SearchStep ==
    TypeOK /\ TypeOK' /\ ChosenItem /\ RestInv /\ RestInv' /\ OneAtATime /\ [Next]_vars
      => OneAtATime' /\ [Promise!Next]_(Promise!vars)
<1> SUFFICES ASSUME TypeOK, TypeOK', ChosenItem, RestInv, RestInv', OneAtATime, [Next]_vars
             PROVE  OneAtATime' /\ [Promise!Next]_(Promise!vars)
  OBVIOUS
<1>1. CASE \E e \in Editors : Edit(e) \/ GoOn(e) \/ EditFails(e)
  BY <1>1, EditKept, GoOnKept, FailsKept
<1>2. CASE UNCHANGED vars
  BY <1>2, Unseen DEF vars, Synchronising
<1> QED BY <1>1, <1>2, CleanKept, StartKept DEF Next

\* SearchIndex implements Search: whatever the interleaving of edits, synchronisations,
\* clean-ups, failing calls and restarts, the search follows what is published one edit at a
\* time, and shows in between what was published before, unless it was withdrawn.
THEOREM SearchKeepsThePromise == Spec => SearchKept
<1>1. Init => RestInv /\ OneAtATime
  BY DEF Init, RestInv, FreshIds, NobodyEditsAtStart, UpInv, Listed, NoEntry, IdleEditor,
         IdleCleaner, OneAtATime, Synchronising
<1>2. Init => Promise!Init
  <2> SUFFICES ASSUME Init PROVE Promise!Init
    OBVIOUS
  <2>1. TypeOK
    BY TypesInit
  <2>2. Due = {} /\ Found = [i \in Items |-> Promise!Nothing] /\ doubtful = {} /\ api # "up"
    BY DEF Init, Due, Found, Synchronising, IdleEditor, Promise!Nothing
  <2> QED BY <2>1, <2>2, ViewTypes DEF Promise!Init, Promise!TypeOK
<1> QED BY <1>1, <1>2, SearchStep, RestNext, TypesInit, TypesNext, PTL
        DEF Spec, SearchKept, Promise!Spec

\* What Search promises: what is found of an item is what is published of it, unless an edit
\* is due or the item is lost.
THEOREM PromiseIsTruthful == SearchKept => []Promise!Truthful
<1>1. Promise!Init => Promise!TypeOK /\ Promise!Truthful
  BY DEF Promise!Init, Promise!TypeOK, Promise!Truthful
<1>2. Promise!TypeOK /\ Promise!Truthful /\ [Promise!Next]_(Promise!vars)
        => (Promise!TypeOK /\ Promise!Truthful)'
  <2> SUFFICES ASSUME Promise!TypeOK, Promise!Truthful, [Promise!Next]_(Promise!vars)
               PROVE  (Promise!TypeOK /\ Promise!Truthful)'
    OBVIOUS
  <2>1. CASE \E i \in Items : Promise!Edit(i)
    BY <2>1 DEF Promise!Edit, Promise!Change, Promise!TypeOK, Promise!Truthful
  <2>2. CASE \E i \in Items : Promise!Lose(i)
    BY <2>2 DEF Promise!Lose, Promise!Change, Promise!TypeOK, Promise!Truthful, Promise!Nothing
  <2>3. CASE \E i \in Items : Promise!Arrive(i)
    BY <2>3 DEF Promise!Arrive, Promise!TypeOK, Promise!Truthful
  <2>4. CASE \E i \in Items : Promise!TakeOut(i)
    BY <2>4 DEF Promise!TakeOut, Promise!TypeOK, Promise!Truthful, Promise!Nothing
  <2>5. CASE Promise!Close \/ Promise!Refit \/ Promise!Open
    BY <2>5 DEF Promise!Close, Promise!Refit, Promise!Change, Promise!Open, Promise!TypeOK,
                Promise!Truthful, Promise!Nothing
  <2>6. CASE UNCHANGED Promise!vars
    BY <2>6 DEF Promise!vars, Promise!TypeOK, Promise!Truthful
  <2> QED BY <2>1, <2>2, <2>3, <2>4, <2>5, <2>6 DEF Promise!Next
<1> QED BY <1>1, <1>2, PTL DEF SearchKept, Promise!Spec

\* The search shows an item exactly if and as it is published, once its edits are
\* synchronised and unless two of them overlapped or one failed, whatever the clean-ups, the
\* restarts and the edits of other items do: an id is never given twice, so a clean-up that was
\* slow does not take the new copy of what was published again.
THEOREM SearchMatches == Spec => []MatchesAtRest
<1>1. Promise!Truthful => MatchesAtRest
  <2> SUFFICES ASSUME Promise!Truthful, api = "up", NEW i \in Items \ doubtful,
                      \A e \in Editors : ~Synchronising(e, i)
               PROVE  /\ Listed(i) <=> Visible(i)
                      /\ Listed(i) => index[i].shows = Shown(i)
    BY DEF MatchesAtRest
  <2>1. Found[i] = Published[i]
    BY DEF Promise!Truthful, Due
  <2> QED BY <2>1 DEF Found, Published
<1> QED BY <1>1, SearchKeepsThePromise, PromiseIsTruthful, PTL
=============================================================================
