----------------------------- MODULE MediaProofs -----------------------------
(***************************************************************************)
(* What holds of Media for every number of pictures, references, requests,   *)
(* clean-ups and faults: deletes and clean-ups spare the media that were     *)
(* referred to before they began, a document has its file, a file its        *)
(* document or somebody at work on it, and a count stays positive.           *)
(***************************************************************************)
EXTENDS Media, TLAPS

\* Updates filtered on an id keep the documents documents.
LEMMA FilteredUpdates ==
    ASSUME media \in [MediaIds -> MediaRecord], NEW m, NEW n,
           m \in MediaIds => n \in Int
    PROVE  Counted(m, n) \in [MediaIds -> MediaRecord]
BY DEF Counted, Stored, MediaRecord

LEMMA FilteredDeletes ==
    ASSUME media \in [MediaIds -> MediaRecord], NEW m
    PROVE  Gone(m) \in [MediaIds -> MediaRecord]
<1>1. CASE m \in MediaIds
  <2> DEFINE r == [media[m] EXCEPT !.state = "deleted", !.removals = @ + 1]
  <2>1. media[m] \in MediaRecord /\ media[m].removals + 1 \in Nat
    BY <1>1 DEF MediaRecord
  <2>3. r \in MediaRecord
    BY <2>1 DEF MediaRecord
  <2>2. Gone(m) = [media EXCEPT ![m] = r]
    BY <1>1 DEF Gone, MediaRecord
  <2> HIDE DEF r
  <2> QED BY <2>2, <2>3
<1>2. CASE m \notin MediaIds
  BY <1>2 DEF Gone
<1> QED BY <1>1, <1>2

LEMMA IdleTypes ==
    /\ IdleUploader \in UploaderRecord /\ IdleDeleter \in DeleterRecord
    /\ IdleCleaner \in CleanerRecord
BY DEF IdleUploader, IdleDeleter, IdleCleaner, UploaderRecord, DeleterRecord, CleanerRecord

\* When a clean-up is done with a mention of the media it still is a clean-up.
LEMMA AfterMentionType ==
    ASSUME cleaner \in [Cleaners -> CleanerRecord], NEW x \in Cleaners
    PROVE  AfterMention(x) \in [Cleaners -> CleanerRecord]
<1> DEFINE next == IF cleaner[x].lists = 2 THEN "finding" ELSE "marking"
           r == [cleaner[x] EXCEPT !.lists = 1, !.unasked = {}, !.found = FALSE, !.pc = next]
<1>1. 1 \in 0..2 /\ cleaner[x] \in CleanerRecord
  OBVIOUS
<1>2. r \in CleanerRecord
  BY <1>1 DEF CleanerRecord
<1>3. AfterMention(x) = [cleaner EXCEPT ![x] = r]
  BY <1>1 DEF AfterMention, CleanerRecord
<1> QED BY <1>2, <1>3

LEMMA TypesInit == Init => TypeOK
<1>1. 0 \in 0..MaxUploads /\ 0 \in 0..MaxFaults
  BY SetsAssumption
<1> QED BY <1>1, IdleTypes DEF Init, TypeOK, NoDocument, MediaRecord, HolderRecord

LEMMA UploadTypes ==
    ASSUME TypeOK, NEW u \in Uploaders, UploadStep(u) PROVE TypeOK'
<1> USE IdleTypes
<1>1. CASE \E b \in Blobs : UploadFind(u, b)
  <2>1. uploads + 1 \in 0..MaxUploads
    BY <1>1, SetsAssumption DEF UploadFind, TypeOK
  <2> QED BY <1>1, <2>1 DEF UploadFind, TypeOK, UploaderRecord, WithBlob
<1>2. CASE UploadCount(u)
  <2> DEFINE m == uploader[u].media
  <2>1. m \in MediaIds => media[m].refCount + 1 \in Int
    BY DEF TypeOK, MediaRecord
  <2>2. media' \in [MediaIds -> MediaRecord]
    BY <1>2, <2>1, FilteredUpdates DEF UploadCount, TypeOK
  <2> QED BY <1>2, <2>2 DEF UploadCount, TypeOK
<1>3. CASE UploadWrite(u)
  <2>1. uploader' \in [Uploaders -> UploaderRecord]
    BY <1>3 DEF UploadWrite, TypeOK, UploaderRecord
  <2>2. file' \in [Blobs -> BOOLEAN]
    BY <1>3 DEF UploadWrite, TypeOK
  <2> QED BY <1>3, <2>1, <2>2 DEF UploadWrite, TypeOK
<1>4. CASE UploadInsert(u)
  <2>1. uploader[u].blob \in Blobs \cup {NoBlob}
    BY DEF TypeOK, UploaderRecord
  <2>2. [state |-> "stored", blob |-> uploader[u].blob, refCount |-> 1, removals |-> 0]
            \in MediaRecord
    BY <2>1 DEF MediaRecord
  <2>3. media' \in [MediaIds -> MediaRecord]
    BY <1>4, <2>2 DEF UploadInsert, TypeOK
  <2> QED BY <1>4, <2>1, <2>3 DEF UploadInsert, TypeOK, UploaderRecord
<1>5. CASE UploadRecount(u)
  <2>1. \A m \in MediaIds : Counted(m, media[m].refCount + 1) \in [MediaIds -> MediaRecord]
    <3> TAKE m \in MediaIds
    <3>1. media[m].refCount + 1 \in Int
      BY DEF TypeOK, MediaRecord
    <3> QED BY <3>1, FilteredUpdates DEF TypeOK
  <2>2. media' \in [MediaIds -> MediaRecord]
    BY <1>5, <2>1 DEF UploadRecount, WithBlob, TypeOK
  <2>3. uploader' \in [Uploaders -> UploaderRecord]
    BY <1>5 DEF UploadRecount, TypeOK, UploaderRecord
  <2> QED BY <1>5, <2>2, <2>3 DEF UploadRecount, TypeOK
<1>6. CASE UploadAnswer(u)
  BY <1>6 DEF UploadAnswer, TypeOK
<1>7. CASE UploadDies(u)
  <2>1. faults + 1 \in 0..MaxFaults
    BY <1>7, SetsAssumption DEF UploadDies, Fault, TypeOK
  <2> QED BY <1>7, <2>1 DEF UploadDies, Fault, TypeOK
<1> QED BY <1>1, <1>2, <1>3, <1>4, <1>5, <1>6, <1>7 DEF UploadStep

LEMMA AttachTypes ==
    ASSUME TypeOK, NEW h \in Holders, AttachStep(h) PROVE TypeOK'
<1>1. CASE \E m \in MediaIds : AttachCheck(h, m)
  BY <1>1 DEF AttachCheck, TypeOK, HolderRecord
<1>2. CASE AttachInsert(h)
  BY <1>2 DEF AttachInsert, TypeOK, HolderRecord
<1>3. CASE AttachDies(h)
  <2>1. faults + 1 \in 0..MaxFaults
    BY <1>3, SetsAssumption DEF AttachDies, Fault, TypeOK
  <2> QED BY <1>3, <2>1 DEF AttachDies, Fault, TypeOK, HolderRecord
<1> QED BY <1>1, <1>2, <1>3 DEF AttachStep

LEMMA DeleteTypes ==
    ASSUME TypeOK, NEW d \in Deleters, DeleteStep(d) PROVE TypeOK'
<1> USE IdleTypes
<1>1. CASE \E m \in MediaIds : DeleteFind(d, m)
  BY <1>1 DEF DeleteFind, TypeOK, DeleterRecord
<1>2. CASE \E c \in Collections : DeleteAsk(d, c)
  <2> PICK c \in Collections : DeleteAsk(d, c)
    BY <1>2
  <2>1. (deleter[d].found \/ \E h \in Holders :
            Refers(h, deleter[d].media) /\ KindOf[h] \in KindsFound(c)) \in BOOLEAN
    BY DEF TypeOK, DeleterRecord
  <2> QED BY <2>1 DEF DeleteAsk, TypeOK, DeleterRecord
<1>3. CASE DeleteRefuse(d)
  BY <1>3 DEF DeleteRefuse, TypeOK
<1>4. CASE DeleteDocument(d)
  <2>1. Gone(deleter[d].media) \in [MediaIds -> MediaRecord]
    BY FilteredDeletes DEF TypeOK
  <2> QED BY <1>4, <2>1 DEF DeleteDocument, TypeOK, DeleterRecord
<1>5. CASE DeleteFile(d)
  BY <1>5 DEF DeleteFile, WithoutFile, TypeOK
<1>6. CASE DeleteDies(d)
  <2>1. faults + 1 \in 0..MaxFaults
    BY <1>6, SetsAssumption DEF DeleteDies, Fault, TypeOK
  <2> QED BY <1>6, <2>1 DEF DeleteDies, Fault, TypeOK
<1> QED BY <1>1, <1>2, <1>3, <1>4, <1>5, <1>6 DEF DeleteStep

LEMMA CleanTypes ==
    ASSUME TypeOK, NEW x \in Cleaners, CleanStep(x) PROVE TypeOK'
<1> USE IdleTypes
<1>0. AfterMention(x) \in [Cleaners -> CleanerRecord]
  BY AfterMentionType DEF TypeOK
<1>1. CASE \E due \in SUBSET Holders : CleanStart(x, due)
  <2> PICK due \in SUBSET Holders : CleanStart(x, due)
    BY <1>1
  <2>1. [IdleCleaner EXCEPT !.pc = "picking", !.left = due,
            !.held = {h \in Holders : holder[h].pc = "attached"}] \in CleanerRecord
    BY DEF CleanerRecord
  <2> QED BY <2>1 DEF CleanStart, TypeOK
<1>2. CASE \E h \in Holders, lists \in {1, 2} : CleanPick(x, h, lists)
  <2> PICK h \in Holders, lists \in {1, 2} : CleanPick(x, h, lists)
    BY <1>2
  <2> DEFINE r == [cleaner[x] EXCEPT !.pc = "finding", !.ticket = h, !.lists = lists]
  <2>1. lists \in 0..2 /\ cleaner[x] \in CleanerRecord
    BY DEF TypeOK
  <2>2. r \in CleanerRecord
    BY <2>1 DEF CleanerRecord
  <2>3. cleaner' = [cleaner EXCEPT ![x] = r]
    BY <2>1 DEF CleanPick, TypeOK, CleanerRecord
  <2> QED BY <2>2, <2>3 DEF CleanPick, TypeOK
<1>3. CASE CleanFind(x)
  BY <1>0, <1>3 DEF CleanFind, TypeOK, CleanerRecord
<1>4. CASE CleanDecrement(x)
  <2>1. Handled(x) \in MediaIds => media[Handled(x)].refCount - 1 \in Int
    BY DEF TypeOK, MediaRecord
  <2>2. media' \in [MediaIds -> MediaRecord]
    BY <1>4, <2>1, FilteredUpdates DEF CleanDecrement, TypeOK
  <2>3. cleaner' \in [Cleaners -> CleanerRecord]
    BY <1>4 DEF CleanDecrement, TypeOK, CleanerRecord
  <2> QED BY <1>4, <2>2, <2>3 DEF CleanDecrement, TypeOK
<1>5. CASE CleanReread(x)
  <2> DEFINE r == [cleaner[x] EXCEPT !.pc = "asking", !.unasked = Collections]
  <2>1. cleaner[x] \in CleanerRecord
    BY DEF TypeOK
  <2>2. r \in CleanerRecord
    BY <2>1 DEF CleanerRecord
  <2>3. cleaner' = [cleaner EXCEPT ![x] = r] \/ cleaner' = AfterMention(x)
    BY <1>5, <2>1 DEF CleanReread, CleanerRecord
  <2> HIDE DEF r
  <2>4. cleaner' \in [Cleaners -> CleanerRecord]
    BY <1>0, <2>2, <2>3 DEF TypeOK
  <2> QED BY <1>5, <2>4 DEF CleanReread, TypeOK
<1>6. CASE \E c \in Collections : CleanAsk(x, c)
  <2> PICK c \in Collections : CleanAsk(x, c)
    BY <1>6
  <2>1. (cleaner[x].found \/ \E h \in Holders : Sees(x, h, c)) \in BOOLEAN
    BY DEF TypeOK, CleanerRecord
  <2> DEFINE seen == cleaner[x].found \/ \E h \in Holders : Sees(x, h, c)
             r == [cleaner[x] EXCEPT !.unasked = @ \ {c}, !.found = seen]
  <2>3. cleaner[x] \in CleanerRecord /\ seen \in BOOLEAN
    BY <2>1 DEF TypeOK
  <2>4. cleaner' = [cleaner EXCEPT ![x] = r]
    BY <2>3 DEF CleanAsk, TypeOK, CleanerRecord
  <2> HIDE DEF seen
  <2>5. r \in CleanerRecord
    BY <2>3 DEF CleanerRecord
  <2> HIDE DEF r
  <2>2. cleaner' \in [Cleaners -> CleanerRecord]
    BY <2>4, <2>5 DEF TypeOK
  <2> QED BY <2>2 DEF CleanAsk, TypeOK
<1>7. CASE CleanReset(x)
  <2>1. Counted(Handled(x), 1) \in [MediaIds -> MediaRecord]
    BY FilteredUpdates DEF TypeOK
  <2> QED BY <1>0, <1>7, <2>1 DEF CleanReset, Reset, TypeOK
<1>8. CASE CleanDelete(x)
  <2>1. Gone(Handled(x)) \in [MediaIds -> MediaRecord]
    BY FilteredDeletes DEF TypeOK
  <2> QED BY <1>8, <2>1 DEF CleanDelete, TypeOK, CleanerRecord
<1>9. CASE CleanRemove(x)
  BY <1>0, <1>9 DEF CleanRemove, WithoutFile, TypeOK
<1>10. CASE CleanMark(x)
  <2> DEFINE left == cleaner[x].left \ {cleaner[x].ticket}
  <2>1. [IdleCleaner EXCEPT !.pc = "picking", !.left = left, !.held = cleaner[x].held]
            \in CleanerRecord
    BY DEF TypeOK, CleanerRecord
  <2>2. cleaner' \in [Cleaners -> CleanerRecord]
    BY <1>10, <2>1 DEF CleanMark, TypeOK
  <2>3. holder' \in [Holders -> HolderRecord]
    BY <1>10 DEF CleanMark, TypeOK, HolderRecord
  <2> QED BY <1>10, <2>2, <2>3 DEF CleanMark, TypeOK
<1>11. CASE CleanDies(x)
  <2>1. faults + 1 \in 0..MaxFaults
    BY <1>11, SetsAssumption DEF CleanDies, Fault, TypeOK
  <2> QED BY <1>11, <2>1 DEF CleanDies, Fault, TypeOK
<1> QED BY <1>1, <1>2, <1>3, <1>4, <1>5, <1>6, <1>7, <1>8, <1>9, <1>10, <1>11 DEF CleanStep

LEMMA TypesNext == TypeOK /\ [Next]_vars => TypeOK'
<1>1. CASE UNCHANGED vars
  BY <1>1 DEF TypeOK, vars
<1> QED BY <1>1, UploadTypes, AttachTypes, DeleteTypes, CleanTypes DEF Next

\* Every state has the types that the actions presume.
THEOREM MediaTypes == Spec => []TypeOK
<1> QED BY TypesInit, TypesNext, PTL DEF Spec

-----------------------------------------------------------------------------
(* The deletes *)

\* A reference changes its mind in one direction only.
LEMMA HoldersSettle ==
    ASSUME TypeOK, [Next]_vars, NEW h \in Holders, holder[h].pc \in {"attached", "emptied"}
    PROVE  /\ holder'[h].pc \in {"attached", "emptied"}
           /\ holder'[h].media = holder[h].media
           /\ holder[h].pc = "emptied" => holder'[h].pc = "emptied"
<1>1. CASE UNCHANGED vars
  BY <1>1 DEF vars
<1>2. CASE \E u \in Uploaders : UploadStep(u)
  BY <1>2 DEF UploadStep, UploadFind, UploadCount, UploadWrite, UploadInsert, UploadRecount,
              UploadAnswer, UploadDies
<1>3. CASE \E g \in Holders : AttachStep(g)
  BY <1>3 DEF AttachStep, AttachCheck, AttachInsert, AttachDies, TypeOK, HolderRecord
<1>4. CASE \E d \in Deleters : DeleteStep(d)
  BY <1>4 DEF DeleteStep, DeleteFind, DeleteAsk, DeleteRefuse, DeleteDocument, DeleteFile,
              DeleteDies
<1>5. CASE \E x \in Cleaners : CleanStep(x)
  <2> PICK x \in Cleaners : CleanStep(x)
    BY <1>5
  <2>1. CASE CleanMark(x)
    BY <2>1 DEF CleanMark, TypeOK, HolderRecord
  <2>2. CASE ~CleanMark(x)
    <3>1. holder' = holder
      BY <2>2 DEF CleanStep, CleanStart, CleanPick, CleanFind, CleanDecrement, CleanReread,
                  CleanAsk, CleanReset, CleanDelete, CleanRemove, CleanDies
    <3> QED BY <3>1
  <2> QED BY <2>1, <2>2
<1> QED BY <1>1, <1>2, <1>3, <1>4, <1>5 DEF Next

\* The collection that holds a document.
CollectionOf(h) == IF KindOf[h] = "embedded" THEN "content" ELSE KindOf[h]

LEMMA Collected ==
    ASSUME NEW h \in Holders
    PROVE  /\ CollectionOf(h) \in Collections
           /\ KindOf[h] \in KindsFound(CollectionOf(h))
BY SetsAssumption DEF CollectionOf, Collections, Kinds, KindsFound

\* A delete has found the references it began with, or has yet to ask for them.
DeleteInv ==
    \A d \in Deleters, h \in Holders : h \in deleter[d].held =>
        /\ holder[h].pc \in {"attached", "emptied"}
        /\ Refers(h, deleter[d].media) =>
             /\ deleter[d].pc = "asking"
             /\ deleter[d].found \/ CollectionOf(h) \in deleter[d].unasked

LEMMA DeleteInvNext == TypeOK /\ DeleteInv /\ [Next]_vars => DeleteInv'
<1> SUFFICES ASSUME TypeOK, DeleteInv, [Next]_vars,
                    NEW e \in Deleters, NEW h \in Holders, h \in deleter'[e].held
             PROVE  /\ holder'[h].pc \in {"attached", "emptied"}
                    /\ Refers(h, deleter[e].media)' =>
                         /\ deleter'[e].pc = "asking"
                         /\ deleter'[e].found \/ CollectionOf(h) \in deleter'[e].unasked
  BY DEF DeleteInv, CollectionOf
<1>1. CASE deleter'[e] = deleter[e]
  <2>1. holder[h].pc \in {"attached", "emptied"}
    BY <1>1 DEF DeleteInv
  <2>2. /\ holder'[h].pc \in {"attached", "emptied"}
        /\ Refers(h, deleter[e].media)' => Refers(h, deleter[e].media)
    BY <1>1, <2>1, HoldersSettle DEF Refers
  <2> QED BY <1>1, <2>2 DEF DeleteInv
<1>2. CASE deleter'[e] # deleter[e]
  <2>1. DeleteStep(e)
    <3>1. CASE \E u \in Uploaders : UploadStep(u)
      BY <1>2, <3>1 DEF UploadStep, UploadFind, UploadCount, UploadWrite, UploadInsert,
                        UploadRecount, UploadAnswer, UploadDies
    <3>2. CASE \E g \in Holders : AttachStep(g)
      BY <1>2, <3>2 DEF AttachStep, AttachCheck, AttachInsert, AttachDies
    <3>3. CASE \E x \in Cleaners : CleanStep(x)
      BY <1>2, <3>3 DEF CleanStep, CleanStart, CleanPick, CleanFind, CleanDecrement, CleanReread,
              CleanAsk, CleanReset, CleanDelete, CleanRemove, CleanMark, CleanDies
    <3>4. CASE \E d \in Deleters : DeleteStep(d)
      <4> PICK d \in Deleters : DeleteStep(d)
        BY <3>4
      <4>1. d # e => deleter'[e] = deleter[e]
        BY DEF DeleteStep, DeleteFind, DeleteAsk, DeleteRefuse, DeleteDocument, DeleteFile,
               DeleteDies, TypeOK
      <4> QED BY <1>2, <4>1
    <3> QED BY <1>2, <3>1, <3>2, <3>3, <3>4 DEF Next, vars
  <2>2. holder' = holder
    BY <2>1 DEF DeleteStep, DeleteFind, DeleteAsk, DeleteRefuse, DeleteDocument, DeleteFile,
                DeleteDies
  <2>3. CASE \E m \in MediaIds : DeleteFind(e, m)
    BY <2>2, <2>3, Collected DEF DeleteFind, Refers, TypeOK
  <2>4. CASE \E c \in Collections : DeleteAsk(e, c)
    <3> PICK c \in Collections : DeleteAsk(e, c)
      BY <2>4
    <3>1. /\ deleter'[e].held = deleter[e].held /\ deleter'[e].media = deleter[e].media
          /\ deleter'[e].pc = "asking" /\ deleter'[e].unasked = deleter[e].unasked \ {c}
          /\ deleter'[e].found = (deleter[e].found \/ \E g \in Holders :
                Refers(g, deleter[e].media) /\ KindOf[g] \in KindsFound(c))
      BY DEF DeleteAsk, TypeOK, DeleterRecord
    <3>2. Refers(h, deleter[e].media)' = Refers(h, deleter[e].media)
      BY <2>2, <3>1 DEF Refers
    <3> QED BY <2>2, <3>1, <3>2, Collected DEF DeleteInv
  <2>5. CASE DeleteRefuse(e) \/ DeleteFile(e) \/ DeleteDies(e)
    BY <2>5 DEF DeleteRefuse, DeleteFile, DeleteDies, IdleDeleter, TypeOK
  <2>6. CASE DeleteDocument(e)
    <3>1. /\ deleter'[e].held = deleter[e].held /\ deleter'[e].media = deleter[e].media
          /\ deleter[e].unasked = {} /\ ~deleter[e].found
      BY <2>6 DEF DeleteDocument, TypeOK, DeleterRecord
    <3>2. Refers(h, deleter[e].media)' = Refers(h, deleter[e].media)
      BY <2>2, <3>1 DEF Refers
    <3> QED BY <2>2, <3>1, <3>2 DEF DeleteInv
  <2> QED BY <2>1, <2>3, <2>4, <2>5, <2>6 DEF DeleteStep
<1> QED BY <1>1, <1>2

\* A delete never takes away the media that someone referred to when it began and
\* still does: no reference escapes the three queries.
THEOREM DeletesSpare == Spec => []DeleteSparesReferences
<1>1. Init => DeleteInv
  BY DEF Init, DeleteInv, IdleDeleter
<1>2. TypeOK /\ DeleteInv => DeleteSparesReferences
  BY DEF DeleteInv, DeleteSparesReferences, TypeOK, DeleterRecord
<1> QED BY <1>1, <1>2, DeleteInvNext, MediaTypes, PTL DEF Spec
-----------------------------------------------------------------------------
(* The clean-ups *)

\* A clean-up works on tickets that were attached to when it started; it has found the
\* references of that time, or has yet to ask for them.
CleanHolds(x) ==
    /\ cleaner[x].left \subseteq cleaner[x].held
    /\ cleaner[x].pc \notin {"idle", "picking"} => cleaner[x].ticket \in cleaner[x].left
    /\ \A h \in cleaner[x].held :
         /\ holder[h].pc \in {"attached", "emptied"}
         /\ KindOf[h] # "embedded" /\ Refers(h, Handled(x)) =>
              /\ cleaner[x].pc = "asking" =>
                   cleaner[x].found \/ KindOf[h] \in cleaner[x].unasked
              /\ cleaner[x].pc # "removing"
CleanInv == \A x \in Cleaners : CleanHolds(x)

\* The steps of others leave a clean-up's references alone or take some away.
LEMMA OthersKeepCleanHolds ==
    ASSUME TypeOK, [Next]_vars, NEW x \in Cleaners, CleanHolds(x), cleaner'[x] = cleaner[x]
    PROVE  CleanHolds(x)'
<1>1. \A h \in cleaner[x].held :
        /\ holder'[h].pc \in {"attached", "emptied"} /\ holder'[h].media = holder[h].media
        /\ \A m : Refers(h, m)' => Refers(h, m)
  <2> TAKE h \in cleaner[x].held
  <2>1. h \in Holders /\ holder[h].pc \in {"attached", "emptied"}
    BY DEF CleanHolds, TypeOK, CleanerRecord
  <2> QED BY <2>1, HoldersSettle DEF Refers
<1>2. CASE cleaner[x].pc \in {"idle", "picking"}
  BY <1>1, <1>2 DEF CleanHolds
<1>3. CASE cleaner[x].pc \notin {"idle", "picking"}
  <2>1. Handled(x)' = Handled(x)
    BY <1>1, <1>3 DEF CleanHolds, Handled
  <2> QED BY <1>1, <1>3, <2>1 DEF CleanHolds
<1> QED BY <1>2, <1>3

\* What a clean-up remembers when it is done with a mention.
LEMMA AfterMentionFields ==
    ASSUME TypeOK, NEW x \in Cleaners
    PROVE  /\ AfterMention(x)[x].held = cleaner[x].held
           /\ AfterMention(x)[x].left = cleaner[x].left
           /\ AfterMention(x)[x].ticket = cleaner[x].ticket
           /\ AfterMention(x)[x].pc \in {"finding", "marking"}
           /\ \A y \in Cleaners \ {x} : AfterMention(x)[y] = cleaner[y]
BY DEF AfterMention, TypeOK, CleanerRecord

\* A clean-up's step is its own.
LEMMA CleanStepIsLocal ==
    ASSUME TypeOK, NEW y \in Cleaners, CleanStep(y), NEW x \in Cleaners \ {y}
    PROVE  cleaner'[x] = cleaner[x]
<1>1. CASE \/ \E due \in SUBSET Holders : CleanStart(y, due)
           \/ \E h \in Holders, lists \in {1, 2} : CleanPick(y, h, lists)
           \/ \E c \in Collections : CleanAsk(y, c)
  BY <1>1 DEF CleanStart, CleanPick, CleanAsk, TypeOK
<1>2. CASE CleanFind(y) \/ CleanReread(y) \/ CleanReset(y) \/ CleanRemove(y)
  BY <1>2, AfterMentionFields DEF CleanFind, CleanReread, CleanReset, CleanRemove, TypeOK
<1>3. CASE CleanDecrement(y) \/ CleanDelete(y) \/ CleanMark(y) \/ CleanDies(y)
  BY <1>3 DEF CleanDecrement, CleanDelete, CleanMark, CleanDies, TypeOK
<1> QED BY <1>1, <1>2, <1>3 DEF CleanStep

\* Between the pick of a ticket and its mark, a clean-up keeps its lists and its ticket.
Working(x) ==
    \/ CleanFind(x) \/ CleanDecrement(x) \/ CleanReread(x)
    \/ \E c \in Collections : CleanAsk(x, c)
    \/ CleanReset(x) \/ CleanDelete(x) \/ CleanRemove(x)

LEMMA WorkKeepsLists ==
    ASSUME TypeOK, NEW x \in Cleaners, Working(x)
    PROVE  /\ holder' = holder
           /\ cleaner'[x].held = cleaner[x].held /\ cleaner'[x].left = cleaner[x].left
           /\ cleaner'[x].ticket = cleaner[x].ticket
           /\ cleaner[x].pc \notin {"idle", "picking"}
<1>1. CASE CleanFind(x)
  BY <1>1, AfterMentionFields DEF CleanFind, TypeOK, CleanerRecord
<1>2. CASE CleanReread(x)
  BY <1>2, AfterMentionFields DEF CleanReread, TypeOK, CleanerRecord
<1>3. CASE CleanReset(x) \/ CleanRemove(x)
  BY <1>3, AfterMentionFields DEF CleanReset, CleanRemove
<1>4. CASE CleanDecrement(x) \/ CleanDelete(x)
  BY <1>4 DEF CleanDecrement, CleanDelete, TypeOK, CleanerRecord
<1>5. CASE \E c \in Collections : CleanAsk(x, c)
  BY <1>5 DEF CleanAsk, TypeOK, CleanerRecord
<1> QED BY <1>1, <1>2, <1>3, <1>4, <1>5 DEF Working

LEMMA CleanInvNext == TypeOK /\ CleanInv /\ [Next]_vars => CleanInv'
<1> SUFFICES ASSUME TypeOK, CleanInv, [Next]_vars, NEW x \in Cleaners
             PROVE  CleanHolds(x)'
  BY DEF CleanInv
<1>0. CleanHolds(x)
  BY DEF CleanInv
<1>1. CASE cleaner'[x] = cleaner[x]
  BY <1>0, <1>1, OthersKeepCleanHolds
<1>2. CASE cleaner'[x] # cleaner[x]
  <2>1. CleanStep(x)
    <3>1. CASE \E u \in Uploaders : UploadStep(u)
      BY <1>2, <3>1 DEF UploadStep, UploadFind, UploadCount, UploadWrite, UploadInsert,
                        UploadRecount, UploadAnswer, UploadDies
    <3>2. CASE \E g \in Holders : AttachStep(g)
      BY <1>2, <3>2 DEF AttachStep, AttachCheck, AttachInsert, AttachDies
    <3>3. CASE \E d \in Deleters : DeleteStep(d)
      BY <1>2, <3>3 DEF DeleteStep, DeleteFind, DeleteAsk, DeleteRefuse, DeleteDocument,
                        DeleteFile, DeleteDies
    <3>4. CASE \E y \in Cleaners : CleanStep(y)
      BY <1>2, <3>4, CleanStepIsLocal
    <3> QED BY <1>2, <3>1, <3>2, <3>3, <3>4 DEF Next, vars
  <2>2. CASE \E due \in SUBSET Holders : CleanStart(x, due)
    BY <2>2 DEF CleanStart, CleanHolds, IdleCleaner, TypeOK
  <2>3. CASE CleanDies(x)
    BY <2>3 DEF CleanDies, CleanHolds, IdleCleaner, TypeOK
  <2>4. CASE CleanMark(x)
    <3>1. \A h \in cleaner[x].held : holder'[h].pc \in {"attached", "emptied"}
      <4> TAKE h \in cleaner[x].held
      <4>1. h \in Holders /\ holder[h].pc \in {"attached", "emptied"}
        BY <1>0 DEF CleanHolds, TypeOK, CleanerRecord
      <4> QED BY <4>1, HoldersSettle
    <3>2. CASE cleaner'[x] = IdleCleaner
      BY <3>2 DEF CleanHolds, IdleCleaner
    <3>3. CASE cleaner'[x] # IdleCleaner
      <4>1. /\ cleaner'[x].pc = "picking" /\ cleaner'[x].held = cleaner[x].held
            /\ cleaner'[x].left = cleaner[x].left \ {cleaner[x].ticket}
        BY <2>4, <3>3 DEF CleanMark, IdleCleaner, TypeOK
      <4> QED BY <1>0, <3>1, <4>1 DEF CleanHolds
    <3> QED BY <3>2, <3>3
  <2>5. CASE \E h \in Holders, lists \in {1, 2} : CleanPick(x, h, lists)
    <3>1. /\ cleaner'[x].pc = "finding" /\ cleaner'[x].ticket \in cleaner[x].left
          /\ cleaner'[x].held = cleaner[x].held /\ cleaner'[x].left = cleaner[x].left
          /\ holder' = holder
      BY <2>5 DEF CleanPick, TypeOK, CleanerRecord
    <3> QED BY <1>0, <3>1 DEF CleanHolds
  <2>6. CASE Working(x)
    <3>1. /\ cleaner'[x].held = cleaner[x].held /\ cleaner'[x].left = cleaner[x].left
          /\ cleaner'[x].ticket = cleaner[x].ticket /\ holder' = holder
          /\ cleaner[x].pc \notin {"idle", "picking"}
      BY <2>6, WorkKeepsLists
    <3>2. Handled(x)' = Handled(x) /\ \A h, m : Refers(h, m)' = Refers(h, m)
      BY <3>1 DEF Handled, Refers
    <3>3. CASE \E c \in Collections : CleanAsk(x, c)
      <4> PICK c \in Collections : CleanAsk(x, c)
        BY <3>3
      <4>1. /\ cleaner'[x].pc = "asking" /\ cleaner'[x].unasked = cleaner[x].unasked \ {c}
            /\ cleaner'[x].found = (cleaner[x].found \/ \E g \in Holders : Sees(x, g, c))
        BY DEF CleanAsk, TypeOK, CleanerRecord
      <4>2. cleaner[x].pc = "asking" /\ cleaner[x].held \subseteq Holders
        BY DEF CleanAsk, TypeOK, CleanerRecord
      <4> QED BY <1>0, <3>1, <3>2, <4>1, <4>2 DEF CleanHolds, Sees
    <3>4. CASE CleanDelete(x)
      <4>1. cleaner[x].pc = "asking" /\ cleaner[x].unasked = {} /\ ~cleaner[x].found
        BY <3>4 DEF CleanDelete
      <4>2. cleaner'[x].pc = "removing"
        BY <3>4 DEF CleanDelete, TypeOK, CleanerRecord
      <4> QED BY <1>0, <3>1, <3>2, <4>1, <4>2 DEF CleanHolds
    <3>5. CASE CleanFind(x) \/ CleanDecrement(x) \/ CleanReset(x) \/ CleanRemove(x)
      <4>1. cleaner'[x].pc \in {"decrementing", "rereading", "finding", "marking"}
        BY <3>5 DEF CleanFind, CleanDecrement, CleanReset, CleanRemove, AfterMention, TypeOK,
                    CleanerRecord
      <4> QED BY <1>0, <3>1, <3>2, <4>1 DEF CleanHolds
    <3>6. CASE CleanReread(x)
      <4>1. \/ cleaner'[x].pc \in {"finding", "marking"}
            \/ cleaner'[x].pc = "asking" /\ cleaner'[x].unasked = Collections
        BY <3>6 DEF CleanReread, AfterMention, TypeOK, CleanerRecord
      <4>2. \A h \in cleaner[x].held : KindOf[h] # "embedded" => KindOf[h] \in Collections
        BY SetsAssumption DEF TypeOK, CleanerRecord, Kinds, Collections
      <4> QED BY <1>0, <3>1, <3>2, <4>1, <4>2 DEF CleanHolds
    <3> QED BY <2>6, <3>3, <3>4, <3>5, <3>6 DEF Working
  <2> QED BY <2>1, <2>2, <2>3, <2>4, <2>5, <2>6 DEF CleanStep, Working
<1> QED BY <1>1, <1>2

\* A clean-up never takes away the media that a ticket, a review or a content's list
\* of media refers to since before it started, however many clean-ups count, reset and
\* empty at the same time.
THEOREM CleanupsSpare == Spec => []CleanupSparesReferences
<1>1. Init => CleanInv
  BY DEF Init, CleanInv, CleanHolds, IdleCleaner
<1>2. CleanInv => CleanupSparesReferences
  BY DEF CleanInv, CleanHolds, CleanupSparesReferences
<1> QED BY <1>1, <1>2, CleanInvNext, MediaTypes, PTL DEF Spec
-----------------------------------------------------------------------------
(* Documents and files *)

Used(m) == m \in MediaIds /\ media[m].state # "unused"

\* Requests and references know documents that were stored, under the hash of a picture.
KnownInv ==
    /\ \A m \in MediaIds :
         /\ media[m].state = "unused" => media[m].blob = NoBlob
         /\ media[m].state # "unused" => media[m].blob \in Blobs
         /\ media[m].state = "deleted" => media[m].removals >= 1
    /\ \A u \in Uploaders : uploader[u].pc # "idle" => uploader[u].blob \in Blobs
    /\ \A h \in Holders : holder[h].pc # "idle" => Used(holder[h].media)
    /\ \A d \in Deleters : deleter[d].pc # "idle" => Used(deleter[d].media)

\* What the two writes of a document leave of it.
LEMMA CountedFields ==
    ASSUME TypeOK, NEW m, NEW n, NEW k \in MediaIds
    PROVE  /\ Counted(m, n)[k].state = media[k].state
           /\ Counted(m, n)[k].blob = media[k].blob
           /\ Counted(m, n)[k].removals = media[k].removals
           /\ k # m => Counted(m, n)[k] = media[k]
           /\ k = m /\ Stored(m) => Counted(m, n)[k].refCount = n
BY DEF Counted, Stored, TypeOK, MediaRecord

LEMMA GoneFields ==
    ASSUME TypeOK, NEW m, NEW k \in MediaIds
    PROVE  /\ k # m => Gone(m)[k] = media[k]
           /\ Gone(m)[k].blob = media[k].blob
           /\ k = m => /\ Gone(m)[k].state = "deleted"
                       /\ Gone(m)[k].removals = media[k].removals + 1
BY DEF Gone, TypeOK, MediaRecord

\* A clean-up at work has a ticket with a known media.
LEMMA TicketKnown ==
    ASSUME TypeOK, KnownInv, CleanInv, NEW x \in Cleaners,
           cleaner[x].pc \notin {"idle", "picking"}
    PROVE  /\ cleaner[x].ticket \in Holders
           /\ holder[cleaner[x].ticket].pc \in {"attached", "emptied"}
           /\ Used(Handled(x))
<1>1. /\ cleaner[x].ticket \in cleaner[x].held /\ cleaner[x].held \subseteq Holders
      /\ holder[cleaner[x].ticket].pc \in {"attached", "emptied"}
  BY DEF CleanInv, CleanHolds, TypeOK, CleanerRecord
<1> QED BY <1>1 DEF KnownInv, Handled

\* What a step makes of a document: nothing but a count, or it stores it, or it deletes it.
Kept(m) == /\ media'[m].state = media[m].state /\ media'[m].blob = media[m].blob
           /\ media'[m].removals = media[m].removals
IsStored(m) == /\ media[m].state = "unused" /\ media'[m].state = "stored"
               /\ media'[m].blob \in Blobs /\ media'[m].removals = 0
IsDeleted(m) == /\ media[m].state # "unused" /\ media'[m].state = "deleted"
                /\ media'[m].blob = media[m].blob
                /\ media'[m].removals = media[m].removals + 1

LEMMA DocumentSteps ==
    ASSUME TypeOK, KnownInv, CleanInv, [Next]_vars, NEW m \in MediaIds
    PROVE  Kept(m) \/ IsStored(m) \/ IsDeleted(m)
<1> USE DEF Kept
<1>1. CASE media' = media
  BY <1>1
<1>2. CASE \E u \in Uploaders : UploadCount(u) \/ UploadRecount(u)
  <2>1. media' = media \/ \E k, n : media' = Counted(k, n)
    BY <1>2 DEF UploadCount, UploadRecount
  <2> QED BY <2>1, CountedFields
<1>3. CASE \E u \in Uploaders : UploadInsert(u)
  <2> PICK u \in Uploaders : UploadInsert(u)
    BY <1>3
  <2>1. uploader[u].blob \in Blobs
    BY DEF UploadInsert, KnownInv
  <2> QED BY <2>1 DEF UploadInsert, IsStored, TypeOK
<1>4. CASE \E d \in Deleters : DeleteDocument(d)
  <2> PICK d \in Deleters : DeleteDocument(d)
    BY <1>4
  <2>1. Used(deleter[d].media)
    BY DEF DeleteDocument, KnownInv
  <2> QED BY <2>1, GoneFields DEF DeleteDocument, IsDeleted, Used
<1>5. CASE \E x \in Cleaners : CleanDecrement(x) \/ CleanReset(x)
  BY <1>5, CountedFields DEF CleanDecrement, CleanReset, Reset
<1>6. CASE \E x \in Cleaners : CleanDelete(x)
  <2> PICK x \in Cleaners : CleanDelete(x)
    BY <1>6
  <2>1. Used(Handled(x))
    BY TicketKnown DEF CleanDelete
  <2> QED BY <2>1, GoneFields DEF CleanDelete, IsDeleted, Used
<1> QED
  <2>1. CASE UNCHANGED vars
    BY <1>1, <2>1 DEF vars
  <2>2. CASE \E u \in Uploaders : UploadStep(u)
    BY <1>1, <1>2, <1>3, <2>2 DEF UploadStep, UploadFind, UploadWrite, UploadAnswer, UploadDies,
                                  Fault
  <2>3. CASE \E h \in Holders : AttachStep(h)
    BY <1>1, <2>3 DEF AttachStep, AttachCheck, AttachInsert, AttachDies, Fault
  <2>4. CASE \E d \in Deleters : DeleteStep(d)
    BY <1>1, <1>4, <2>4 DEF DeleteStep, DeleteFind, DeleteAsk, DeleteRefuse, DeleteFile,
                            DeleteDies, Fault
  <2>5. CASE \E x \in Cleaners : CleanStep(x)
    BY <1>1, <1>5, <1>6, <2>5 DEF CleanStep, CleanStart, CleanPick, CleanFind, CleanReread,
          CleanAsk, CleanRemove, CleanMark, CleanDies, Fault
  <2> QED BY <2>1, <2>2, <2>3, <2>4, <2>5 DEF Next

LEMMA KnownStaysKnown ==
    ASSUME TypeOK, KnownInv, CleanInv, [Next]_vars, NEW m, Used(m)
    PROVE  Used(m)'
BY DocumentSteps DEF Used, Kept, IsStored, IsDeleted

\* Who writes what.
LEMMA OnlyUploads ==
    ASSUME [Next]_vars PROVE uploader' = uploader \/ \E u \in Uploaders : UploadStep(u)
<1>1. CASE UNCHANGED vars
  BY <1>1 DEF vars
<1>2. CASE \E h \in Holders : AttachStep(h)
  BY <1>2 DEF AttachStep, AttachCheck, AttachInsert, AttachDies
<1>3. CASE \E d \in Deleters : DeleteStep(d)
  BY <1>3 DEF DeleteStep, DeleteFind, DeleteAsk, DeleteRefuse, DeleteDocument, DeleteFile,
              DeleteDies
<1>4. CASE \E x \in Cleaners : CleanStep(x)
  BY <1>4 DEF CleanStep, CleanStart, CleanPick, CleanFind, CleanDecrement, CleanReread, CleanAsk,
              CleanReset, CleanDelete, CleanRemove, CleanMark, CleanDies
<1> QED BY <1>1, <1>2, <1>3, <1>4 DEF Next

LEMMA OnlyDeletes ==
    ASSUME [Next]_vars PROVE deleter' = deleter \/ \E d \in Deleters : DeleteStep(d)
<1>1. CASE UNCHANGED vars
  BY <1>1 DEF vars
<1>2. CASE \E u \in Uploaders : UploadStep(u)
  BY <1>2 DEF UploadStep, UploadFind, UploadCount, UploadWrite, UploadInsert, UploadRecount,
              UploadAnswer, UploadDies
<1>3. CASE \E h \in Holders : AttachStep(h)
  BY <1>3 DEF AttachStep, AttachCheck, AttachInsert, AttachDies
<1>4. CASE \E x \in Cleaners : CleanStep(x)
  BY <1>4 DEF CleanStep, CleanStart, CleanPick, CleanFind, CleanDecrement, CleanReread, CleanAsk,
              CleanReset, CleanDelete, CleanRemove, CleanMark, CleanDies
<1> QED BY <1>1, <1>2, <1>3, <1>4 DEF Next

LEMMA OnlyCleanUps ==
    ASSUME [Next]_vars PROVE cleaner' = cleaner \/ \E x \in Cleaners : CleanStep(x)
<1>1. CASE UNCHANGED vars
  BY <1>1 DEF vars
<1>2. CASE \E u \in Uploaders : UploadStep(u)
  BY <1>2 DEF UploadStep, UploadFind, UploadCount, UploadWrite, UploadInsert, UploadRecount,
              UploadAnswer, UploadDies
<1>3. CASE \E h \in Holders : AttachStep(h)
  BY <1>3 DEF AttachStep, AttachCheck, AttachInsert, AttachDies
<1>4. CASE \E d \in Deleters : DeleteStep(d)
  BY <1>4 DEF DeleteStep, DeleteFind, DeleteAsk, DeleteRefuse, DeleteDocument, DeleteFile,
              DeleteDies
<1> QED BY <1>1, <1>2, <1>3, <1>4 DEF Next

LEMMA OnlyAttachers ==
    ASSUME [Next]_vars
    PROVE  \/ holder' = holder \/ \E h \in Holders : AttachStep(h)
           \/ \E x \in Cleaners : CleanMark(x)
<1>1. CASE UNCHANGED vars
  BY <1>1 DEF vars
<1>2. CASE \E u \in Uploaders : UploadStep(u)
  BY <1>2 DEF UploadStep, UploadFind, UploadCount, UploadWrite, UploadInsert, UploadRecount,
              UploadAnswer, UploadDies
<1>3. CASE \E d \in Deleters : DeleteStep(d)
  BY <1>3 DEF DeleteStep, DeleteFind, DeleteAsk, DeleteRefuse, DeleteDocument, DeleteFile,
              DeleteDies
<1>4. CASE \E x \in Cleaners : CleanStep(x)
  BY <1>4 DEF CleanStep, CleanStart, CleanPick, CleanFind, CleanDecrement, CleanReread, CleanAsk,
              CleanReset, CleanDelete, CleanRemove, CleanDies
<1> QED BY <1>1, <1>2, <1>3, <1>4 DEF Next

LEMMA KnownNext == TypeOK /\ KnownInv /\ CleanInv /\ [Next]_vars => KnownInv'
<1> SUFFICES ASSUME TypeOK, KnownInv, CleanInv, [Next]_vars PROVE KnownInv'
  OBVIOUS
<1>1. \A m \in MediaIds :
         /\ media'[m].state = "unused" => media'[m].blob = NoBlob
         /\ media'[m].state # "unused" => media'[m].blob \in Blobs
         /\ media'[m].state = "deleted" => media'[m].removals >= 1
  <2> TAKE m \in MediaIds
  <2>1. media[m].removals \in Nat
    BY DEF TypeOK, MediaRecord
  <2> QED BY <2>1, DocumentSteps DEF KnownInv, Kept, IsStored, IsDeleted
<1>2. \A m : Stored(m) => Used(m)
  BY DEF Stored, Used
<1>3. ASSUME NEW u \in Uploaders, uploader'[u].pc # "idle" PROVE uploader'[u].blob \in Blobs
  <2>1. CASE uploader' = uploader
    BY <1>3, <2>1 DEF KnownInv
  <2>2. CASE \E v \in Uploaders : UploadStep(v)
    BY <1>3, <2>2 DEF UploadStep, UploadFind, UploadCount, UploadWrite, UploadInsert,
          UploadRecount, UploadAnswer, UploadDies, KnownInv, TypeOK, UploaderRecord, IdleUploader
  <2> QED BY <2>1, <2>2, OnlyUploads
<1>4. ASSUME NEW h \in Holders, holder'[h].pc # "idle" PROVE Used(holder[h].media)'
  <2>1. CASE holder[h].pc # "idle" /\ holder'[h].media = holder[h].media
    BY <2>1, KnownStaysKnown DEF KnownInv
  <2>2. CASE \E m \in MediaIds : Stored(m) /\ holder'[h].media = m
    BY <2>2, <1>2, KnownStaysKnown
  <2>3. holder' = holder \/ \E g \in Holders : AttachStep(g) \/ \E x \in Cleaners : CleanMark(x)
    BY OnlyAttachers
  <2>4. CASE \E g \in Holders : AttachStep(g)
    BY <1>4, <2>1, <2>2, <2>4 DEF AttachStep, AttachCheck, AttachInsert, AttachDies, TypeOK,
                                  HolderRecord
  <2>5. CASE \E x \in Cleaners : CleanMark(x)
    <3> PICK x \in Cleaners : CleanMark(x)
      BY <2>5
    <3>1. holder[cleaner[x].ticket].pc \in {"attached", "emptied"}
      BY TicketKnown DEF CleanMark
    <3> QED BY <1>4, <2>1, <3>1 DEF CleanMark, TypeOK, HolderRecord
  <2> QED BY <1>4, <2>1, <2>3, <2>4, <2>5
<1>5. ASSUME NEW d \in Deleters, deleter'[d].pc # "idle" PROVE Used(deleter[d].media)'
  <2>1. CASE deleter[d].pc # "idle" /\ deleter'[d].media = deleter[d].media
    BY <2>1, KnownStaysKnown DEF KnownInv
  <2>2. CASE \E m \in MediaIds : Stored(m) /\ deleter'[d].media = m
    BY <2>2, <1>2, KnownStaysKnown
  <2>3. CASE \E e \in Deleters : DeleteStep(e)
    <3> PICK e \in Deleters : DeleteStep(e)
      BY <2>3
    <3>1. CASE \E m \in MediaIds : DeleteFind(e, m)
      <4> PICK m \in MediaIds : DeleteFind(e, m)
        BY <3>1
      <4>1. Stored(m) /\ (d = e => deleter'[d].media = m) /\ (d # e => deleter'[d] = deleter[d])
        BY DEF DeleteFind, TypeOK
      <4>2. CASE d = e
        BY <2>2, <4>1, <4>2
      <4>3. CASE d # e
        BY <2>1, <1>5, <4>1, <4>3
      <4> QED BY <4>2, <4>3
    <3>2. CASE (\E c \in Collections : DeleteAsk(e, c)) \/ DeleteDocument(e)
      <4>1. CASE d = e
        <5>1. deleter[d].pc = "asking" /\ deleter'[d].media = deleter[d].media
          BY <3>2, <4>1 DEF DeleteAsk, DeleteDocument, TypeOK, DeleterRecord
        <5> QED BY <2>1, <5>1
      <4>2. CASE d # e
        <5>1. deleter'[d] = deleter[d]
          BY <3>2, <4>2 DEF DeleteAsk, DeleteDocument, TypeOK
        <5> QED BY <2>1, <1>5, <5>1
      <4> QED BY <4>1, <4>2
    <3>3. CASE DeleteRefuse(e) \/ DeleteFile(e) \/ DeleteDies(e)
      BY <2>1, <1>5, <3>3 DEF DeleteRefuse, DeleteFile, DeleteDies, TypeOK, IdleDeleter
    <3> QED BY <3>1, <3>2, <3>3 DEF DeleteStep
  <2> QED BY <1>5, <2>1, <2>3, OnlyDeletes
<1> QED BY <1>1, <1>3, <1>4, <1>5 DEF KnownInv

\* Who has to do with the file of a picture: a request that has written the file and is
\* about to store the document, and those who have deleted a document and are about to
\* remove the file; and the document.
UploadClaims(u, b) == u \in Uploaders /\ uploader[u].pc = "inserting" /\ uploader[u].blob = b
DeleteClaims(d, b) ==
    d \in Deleters /\ deleter[d].pc = "removing" /\ media[deleter[d].media].blob = b
CleanClaims(x, b) == x \in Cleaners /\ cleaner[x].pc = "removing" /\ media[Handled(x)].blob = b
Claims(kind, i, b) ==
    \/ kind = "document" /\ i \in WithBlob(b)
    \/ kind = "upload" /\ UploadClaims(i, b)
    \/ kind = "delete" /\ DeleteClaims(i, b)
    \/ kind = "clean-up" /\ CleanClaims(i, b)

DeletedOnce(b) == \A n \in MediaIds : media[n].blob = b => media[n].removals <= 1

\* While no document of a picture was deleted twice, one at most has to do with its file,
\* and the file is there for it.
OneClaim ==
    \A b \in Blobs : DeletedOnce(b) =>
        \A k, i : Claims(k, i, b) =>
            file[b] /\ \A l, j : Claims(l, j, b) => k = l /\ i = j

\* Without faults every file is somebody's.
FileClaimed == \A b \in Blobs : file[b] /\ faults = 0 => \E k, i : Claims(k, i, b)

\* What a step makes of the claims on a file.
FileStays(b) == file'[b] = file[b]
NoNewClaim(b) == \A k, i : Claims(k, i, b)' => Claims(k, i, b)
Nothing(b) == FileStays(b) /\ \A k, i : Claims(k, i, b)' <=> Claims(k, i, b)
\* It writes the file and lays the first claim to it,
Laid(b) ==
    /\ ~file[b] /\ file'[b]
    /\ \E l, j : Claims(l, j, b)' /\ \A k, i : Claims(k, i, b)' => Claims(k, i, b) \/ (k = l /\ i = j)
\* replaces one claim by another,
Passed(b) ==
    /\ FileStays(b)
    /\ \E l, j, g, h :
         /\ Claims(l, j, b) /\ ~Claims(l, j, b)' /\ Claims(g, h, b)'
         /\ \A k, i : Claims(k, i, b)' => Claims(k, i, b) \/ (k = g /\ i = h)
\* deletes what is deleted already,
DeletedAgain(b) == FileStays(b) /\ ~DeletedOnce(b)' /\ \E k, i : Claims(k, i, b)'
\* gives a claim up in favour of another,
Yielded(b) == FileStays(b) /\ NoNewClaim(b) /\ \E k, i : Claims(k, i, b)'
\* removes the file and gives up the claim,
Cleared(b) == ~file'[b] /\ NoNewClaim(b) /\ \E l, j : Claims(l, j, b) /\ ~Claims(l, j, b)'
\* or fails.
Failed(b) == FileStays(b) /\ NoNewClaim(b) /\ faults' # 0

LEMMA DeletedOnceBefore ==
    ASSUME TypeOK, KnownInv, CleanInv, [Next]_vars, NEW b \in Blobs, DeletedOnce(b)'
    PROVE  DeletedOnce(b)
<1> SUFFICES ASSUME NEW n \in MediaIds, media[n].blob = b PROVE media[n].removals <= 1
  BY DEF DeletedOnce
<1>1. media[n].state # "unused" /\ media[n].removals \in Nat
  BY SetsAssumption DEF KnownInv, TypeOK, MediaRecord
<1>2. media'[n].blob = b /\ media'[n].removals >= media[n].removals
  BY <1>1, DocumentSteps DEF Kept, IsStored, IsDeleted
<1>3. media'[n].removals <= 1 /\ media'[n].removals \in Int
  BY <1>1, <1>2, DocumentSteps DEF DeletedOnce, Kept, IsStored, IsDeleted
<1> QED BY <1>1, <1>2, <1>3

\* Whoever does not move keeps its claim, whatever becomes of the documents.
LEMMA BlobStays ==
    ASSUME TypeOK, KnownInv, CleanInv, [Next]_vars, NEW m, Used(m)
    PROVE  media'[m].blob = media[m].blob
BY DocumentSteps DEF Used, Kept, IsStored, IsDeleted

LEMMA ClaimsStay ==
    ASSUME TypeOK, KnownInv, CleanInv, [Next]_vars, NEW b
    PROVE  /\ \A u : uploader'[u] = uploader[u] => (UploadClaims(u, b)' <=> UploadClaims(u, b))
           /\ \A d : deleter'[d] = deleter[d] => (DeleteClaims(d, b)' <=> DeleteClaims(d, b))
           /\ \A x : cleaner'[x] = cleaner[x] => (CleanClaims(x, b)' <=> CleanClaims(x, b))
<1>1. \A u : uploader'[u] = uploader[u] => (UploadClaims(u, b)' <=> UploadClaims(u, b))
  BY DEF UploadClaims
<1>2. ASSUME NEW d, deleter'[d] = deleter[d]
      PROVE  DeleteClaims(d, b)' <=> DeleteClaims(d, b)
  <2>1. d \in Deleters /\ deleter[d].pc = "removing" => Used(deleter[d].media)
    BY DEF KnownInv
  <2> QED BY <1>2, <2>1, BlobStays DEF DeleteClaims
<1>3. ASSUME NEW x, cleaner'[x] = cleaner[x]
      PROVE  CleanClaims(x, b)' <=> CleanClaims(x, b)
  <2>1. CASE x \in Cleaners /\ cleaner[x].pc = "removing"
    <3>1. /\ cleaner[x].ticket \in Holders /\ Used(Handled(x))
          /\ holder[cleaner[x].ticket].pc \in {"attached", "emptied"}
      BY <2>1, TicketKnown
    <3>2. Handled(x)' = Handled(x)
      BY <1>3, <3>1, HoldersSettle DEF Handled
    <3> QED BY <1>3, <3>1, <3>2, BlobStays DEF CleanClaims
  <2>2. CASE ~(x \in Cleaners /\ cleaner[x].pc = "removing")
    BY <1>3, <2>2 DEF CleanClaims
  <2> QED BY <2>1, <2>2
<1> QED BY <1>1, <1>2, <1>3

LEMMA DocumentsStay ==
    ASSUME TypeOK, NEW b, \A m \in MediaIds : Kept(m)
    PROVE  \A m : m \in WithBlob(b)' <=> m \in WithBlob(b)
BY DEF Kept, WithBlob, Stored

LEMMA NothingHappens ==
    ASSUME TypeOK, NEW b, FileStays(b),
           \A m : m \in WithBlob(b)' <=> m \in WithBlob(b),
           \A u : UploadClaims(u, b)' <=> UploadClaims(u, b),
           \A d : DeleteClaims(d, b)' <=> DeleteClaims(d, b),
           \A x : CleanClaims(x, b)' <=> CleanClaims(x, b)
    PROVE  Nothing(b)
BY DEF Nothing, Claims

Happens(b) ==
    Nothing(b) \/ Laid(b) \/ Passed(b) \/ DeletedAgain(b) \/ Yielded(b) \/ Cleared(b) \/ Failed(b)

LEMMA UploadHappens ==
    ASSUME TypeOK, KnownInv, CleanInv, [Next]_vars, NEW u \in Uploaders, UploadStep(u),
           NEW b \in Blobs
    PROVE  Happens(b)
<1> USE DEF Happens
<1>1. /\ \A v : v # u => (UploadClaims(v, b)' <=> UploadClaims(v, b))
      /\ \A d : DeleteClaims(d, b)' <=> DeleteClaims(d, b)
      /\ \A x : CleanClaims(x, b)' <=> CleanClaims(x, b)
  <2>1. deleter' = deleter /\ cleaner' = cleaner
    BY DEF UploadStep, UploadFind, UploadCount, UploadWrite, UploadInsert, UploadRecount,
           UploadAnswer, UploadDies
  <2>2. \A v \in Uploaders : v # u => uploader'[v] = uploader[v]
    BY DEF UploadStep, UploadFind, UploadCount, UploadWrite, UploadInsert, UploadRecount,
           UploadAnswer, UploadDies, TypeOK
  <2>3. \A v : v \notin Uploaders => (UploadClaims(v, b)' <=> UploadClaims(v, b))
    BY DEF UploadClaims
  <2> QED BY <2>1, <2>2, <2>3, ClaimsStay
<1>2. CASE \/ \E c \in Blobs : UploadFind(u, c)
           \/ UploadCount(u) \/ UploadRecount(u) \/ UploadAnswer(u)
  <2>1. uploader[u].pc # "inserting" /\ uploader'[u].pc # "inserting" /\ file' = file
    BY <1>2 DEF UploadFind, UploadCount, UploadRecount, UploadAnswer, IdleUploader, TypeOK,
                UploaderRecord
  <2>2. media' = media \/ \E k, n : media' = Counted(k, n)
    BY <1>2 DEF UploadFind, UploadCount, UploadRecount, UploadAnswer
  <2>3. \A m \in MediaIds : Kept(m)
    BY <2>2, CountedFields DEF Kept
  <2>4. UploadClaims(u, b)' <=> UploadClaims(u, b)
    BY <2>1 DEF UploadClaims
  <2> QED BY <1>1, <2>1, <2>3, <2>4, DocumentsStay, NothingHappens DEF FileStays
<1>3. CASE UploadWrite(u)
  <2>1. /\ uploader[u].pc = "writing" /\ media' = media
        /\ uploader'[u].blob = uploader[u].blob
    BY <1>3 DEF UploadWrite, TypeOK, UploaderRecord
  <2>2. \A m : m \in WithBlob(b)' <=> m \in WithBlob(b)
    BY <2>1 DEF WithBlob, Stored
  <2>3. CASE uploader[u].blob = b /\ ~file[b]
    <3>1. file'[b] /\ UploadClaims(u, b)'
      BY <1>3, <2>3 DEF UploadWrite, AlreadyOnDisk, UploadClaims, TypeOK, UploaderRecord
    <3>2. Claims("upload", u, b)'
      BY <3>1 DEF Claims
    <3>3. \A k, i : Claims(k, i, b)' => Claims(k, i, b) \/ (k = "upload" /\ i = u)
      BY <1>1, <2>2 DEF Claims
    <3> QED BY <2>3, <3>1, <3>2, <3>3 DEF Laid
  <2>4. CASE ~(uploader[u].blob = b /\ ~file[b])
    <3>1. FileStays(b) /\ (uploader[u].blob = b => uploader'[u].pc = "failed")
      <4>1. CASE uploader[u].blob = b
        BY <1>3, <2>4, <4>1 DEF UploadWrite, AlreadyOnDisk, FileStays, TypeOK, UploaderRecord
      <4>2. CASE uploader[u].blob # b
        BY <1>3, <4>2 DEF UploadWrite, FileStays, TypeOK
      <4> QED BY <4>1, <4>2
    <3>2. UploadClaims(u, b)' <=> UploadClaims(u, b)
      BY <2>1, <3>1 DEF UploadClaims
    <3> QED BY <1>1, <2>2, <3>1, <3>2, NothingHappens
  <2> QED BY <2>3, <2>4
<1>4. CASE UploadInsert(u)
  <2>1. uploader[u].pc = "inserting" /\ FileStays(b) /\ uploader'[u].pc # "inserting"
    BY <1>4 DEF UploadInsert, FileStays, IdleUploader, TypeOK, UploaderRecord
  <2>2. ~UploadClaims(u, b)'
    BY <2>1 DEF UploadClaims
  <2>3. CASE uploader[u].blob = b /\ WithBlob(b) = {}
    <3>1. Claims("upload", u, b) /\ ~Claims("upload", u, b)'
      BY <2>1, <2>2, <2>3 DEF Claims, UploadClaims
    <3>2. PICK m \in MediaIds :
            /\ media[m].state = "unused"
            /\ media' = [media EXCEPT ![m] =
                 [state |-> "stored", blob |-> b, refCount |-> 1, removals |-> 0]]
      BY <1>4, <2>3 DEF UploadInsert
    <3>3. /\ m \in WithBlob(b)'
          /\ \A n : n \in WithBlob(b)' => n \in WithBlob(b) \/ n = m
      BY <3>2 DEF WithBlob, Stored, TypeOK
    <3>4. Claims("document", m, b)'
      BY <3>3 DEF Claims
    <3>5. \A k, i : Claims(k, i, b)' => Claims(k, i, b) \/ (k = "document" /\ i = m)
      BY <1>1, <2>2, <3>3 DEF Claims
    <3> QED BY <2>1, <3>1, <3>4, <3>5 DEF Passed
  <2>4. CASE uploader[u].blob = b /\ WithBlob(b) # {}
    <3>1. media' = media
      BY <1>4, <2>4 DEF UploadInsert
    <3>2. \A m : m \in WithBlob(b)' <=> m \in WithBlob(b)
      BY <3>1 DEF WithBlob, Stored
    <3>3. NoNewClaim(b)
      BY <1>1, <2>2, <3>2 DEF NoNewClaim, Claims
    <3>4. PICK m : m \in WithBlob(b)
      BY <2>4
    <3>5. Claims("document", m, b)'
      BY <3>2, <3>4 DEF Claims
    <3> QED BY <2>1, <3>3, <3>5 DEF Yielded
  <2>5. CASE uploader[u].blob # b
    <3>1. UploadClaims(u, b)' <=> UploadClaims(u, b)
      BY <2>2, <2>5 DEF UploadClaims
    <3>2. \A m \in MediaIds : media'[m] = media[m] \/ (media[m].state = "unused" /\ media'[m].blob # b)
      BY <1>4, <2>5 DEF UploadInsert, TypeOK
    <3>3. \A m : m \in WithBlob(b)' <=> m \in WithBlob(b)
      BY <3>2 DEF WithBlob, Stored
    <3> QED BY <1>1, <2>1, <3>1, <3>3, NothingHappens
  <2> QED BY <2>3, <2>4, <2>5
<1>5. CASE UploadDies(u)
  <2>1. media' = media /\ file' = file /\ faults' = faults + 1 /\ uploader'[u].pc = "idle"
    BY <1>5 DEF UploadDies, Fault, IdleUploader, TypeOK
  <2>2. ~UploadClaims(u, b)' /\ \A m : m \in WithBlob(b)' <=> m \in WithBlob(b)
    BY <2>1 DEF UploadClaims, WithBlob, Stored
  <2>3. NoNewClaim(b)
    BY <1>1, <2>2 DEF NoNewClaim, Claims
  <2>4. faults' # 0
    BY <2>1 DEF TypeOK
  <2> QED BY <2>1, <2>3, <2>4 DEF Failed, FileStays
<1> QED BY <1>2, <1>3, <1>4, <1>5 DEF UploadStep

\* The document goes: its claim passes to who deleted it, unless it was deleted before.
LEMMA DeletionHappens ==
    ASSUME TypeOK, KnownInv, CleanInv, [Next]_vars, NEW b \in Blobs, NEW m, Used(m),
           media' = Gone(m), file' = file, NEW l, NEW j, l # "document",
           media[m].blob = b => Claims(l, j, b)',
           \A k, i : k # "document" /\ Claims(k, i, b)' =>
                        Claims(k, i, b) \/ (media[m].blob = b /\ k = l /\ i = j),
           media[m].blob # b => \A k, i : k # "document" /\ Claims(k, i, b) => Claims(k, i, b)'
    PROVE  Happens(b)
<1> USE DEF Happens
<1>1. \A n \in MediaIds :
        /\ n # m => media'[n] = media[n]
        /\ n = m => /\ media'[n].state = "deleted" /\ media'[n].blob = media[n].blob
                    /\ media'[n].removals = media[n].removals + 1
  BY GoneFields
<1>2. \A n : n \in WithBlob(b)' <=> n \in WithBlob(b) /\ n # m
  BY <1>1 DEF WithBlob, Stored
<1>3. CASE media[m].blob # b
  <2>1. \A n : n \in WithBlob(b)' <=> n \in WithBlob(b)
    BY <1>2, <1>3 DEF WithBlob
  <2>2. \A k, i : Claims(k, i, b)' <=> Claims(k, i, b)
    <3> TAKE k, i
    <3>1. CASE k = "document"
      BY <2>1, <3>1 DEF Claims
    <3>2. CASE k # "document"
      BY <1>3, <3>2
    <3> QED BY <3>1, <3>2
  <2> QED BY <2>2 DEF Nothing, FileStays
<1>4. CASE media[m].blob = b /\ Stored(m)
  <2>1. Claims("document", m, b) /\ ~Claims("document", m, b)'
    BY <1>2, <1>4 DEF Claims, WithBlob, Used
  <2>2. \A k, i : Claims(k, i, b)' => Claims(k, i, b) \/ (k = l /\ i = j)
    <3> TAKE k, i
    <3>1. CASE k = "document"
      BY <1>2, <3>1 DEF Claims
    <3>2. CASE k # "document"
      BY <3>2
    <3> QED BY <3>1, <3>2
  <2> QED BY <1>4, <2>1, <2>2 DEF Passed, FileStays
<1>5. CASE media[m].blob = b /\ ~Stored(m)
  <2>1. media[m].state = "deleted" /\ media[m].removals >= 1 /\ media[m].removals \in Nat
    BY <1>5 DEF Used, Stored, KnownInv, TypeOK, MediaRecord
  <2>2. m \in MediaIds /\ media'[m].blob = b /\ media'[m].removals > 1
    BY <1>1, <1>5, <2>1 DEF Used
  <2>3. ~DeletedOnce(b)'
    BY <2>1, <1>1, <2>2 DEF DeletedOnce
  <2> QED BY <1>5, <2>3 DEF DeletedAgain, FileStays
<1> QED BY <1>3, <1>4, <1>5

LEMMA DeleteHappens ==
    ASSUME TypeOK, KnownInv, CleanInv, [Next]_vars, NEW d \in Deleters, DeleteStep(d),
           NEW b \in Blobs
    PROVE  Happens(b)
<1> USE DEF Happens
<1>1. /\ \A u : UploadClaims(u, b)' <=> UploadClaims(u, b)
      /\ \A e : e # d => (DeleteClaims(e, b)' <=> DeleteClaims(e, b))
      /\ \A x : CleanClaims(x, b)' <=> CleanClaims(x, b)
  <2>1. uploader' = uploader /\ cleaner' = cleaner
    BY DEF DeleteStep, DeleteFind, DeleteAsk, DeleteRefuse, DeleteDocument, DeleteFile, DeleteDies
  <2>2. \A e \in Deleters : e # d => deleter'[e] = deleter[e]
    BY DEF DeleteStep, DeleteFind, DeleteAsk, DeleteRefuse, DeleteDocument, DeleteFile,
           DeleteDies, TypeOK
  <2>3. \A e : e \notin Deleters => (DeleteClaims(e, b)' <=> DeleteClaims(e, b))
    BY DEF DeleteClaims
  <2> QED BY <2>1, <2>2, <2>3, ClaimsStay
<1>2. CASE \/ \E m \in MediaIds : DeleteFind(d, m)
           \/ \E c \in Collections : DeleteAsk(d, c)
           \/ DeleteRefuse(d)
  <2>1. /\ deleter[d].pc # "removing" /\ deleter'[d].pc # "removing"
        /\ file' = file /\ media' = media
    <3>1. CASE \/ \E m \in MediaIds : DeleteFind(d, m)
               \/ DeleteRefuse(d)
      BY <3>1 DEF DeleteFind, DeleteRefuse, IdleDeleter, TypeOK
    <3>2. CASE \E c \in Collections : DeleteAsk(d, c)
      BY <3>2 DEF DeleteAsk, TypeOK, DeleterRecord
    <3> QED BY <1>2, <3>1, <3>2
  <2>2. DeleteClaims(d, b)' <=> DeleteClaims(d, b)
    BY <2>1 DEF DeleteClaims
  <2>3. \A m : m \in WithBlob(b)' <=> m \in WithBlob(b)
    BY <2>1 DEF WithBlob, Stored
  <2> QED BY <1>1, <2>1, <2>2, <2>3, NothingHappens DEF FileStays
<1>3. CASE DeleteDocument(d)
  <2> DEFINE m == deleter[d].media
  <2>1. /\ media' = Gone(m) /\ file' = file /\ deleter[d].pc = "asking"
        /\ deleter'[d].pc = "removing" /\ deleter'[d].media = m
    BY <1>3 DEF DeleteDocument, TypeOK, DeleterRecord
  <2>2. Used(m) /\ media'[m].blob = media[m].blob
    BY <2>1, BlobStays DEF KnownInv
  <2>3. ~DeleteClaims(d, b) /\ (DeleteClaims(d, b)' <=> media[m].blob = b)
    BY <2>1, <2>2 DEF DeleteClaims
  <2> HIDE DEF m
  <2>4. media[m].blob = b => Claims("delete", d, b)'
    BY <2>3 DEF Claims
  <2>5. \A k, i : k # "document" /\ Claims(k, i, b)' =>
                    Claims(k, i, b) \/ (media[m].blob = b /\ k = "delete" /\ i = d)
    BY <1>1, <2>3 DEF Claims
  <2>6. media[m].blob # b => \A k, i : k # "document" /\ Claims(k, i, b) => Claims(k, i, b)'
    BY <1>1, <2>3 DEF Claims
  <2> QED BY <2>1, <2>2, <2>4, <2>5, <2>6, DeletionHappens
<1>4. CASE DeleteFile(d)
  <2>1. /\ media' = media /\ file' = WithoutFile(deleter[d].media)
        /\ deleter[d].pc = "removing" /\ deleter'[d].pc = "idle"
    BY <1>4 DEF DeleteFile, IdleDeleter, TypeOK
  <2>2. \A m : m \in WithBlob(b)' <=> m \in WithBlob(b)
    BY <2>1 DEF WithBlob, Stored
  <2>3. ~DeleteClaims(d, b)'
    BY <2>1 DEF DeleteClaims
  <2>4. CASE media[deleter[d].media].blob = b
    <3>1. Claims("delete", d, b) /\ ~Claims("delete", d, b)'
      BY <2>1, <2>3, <2>4 DEF Claims, DeleteClaims
    <3>2. ~file'[b]
      BY <2>1, <2>4 DEF WithoutFile, TypeOK
    <3>3. NoNewClaim(b)
      BY <1>1, <2>2, <2>3 DEF NoNewClaim, Claims
    <3> QED BY <3>1, <3>2, <3>3 DEF Cleared
  <2>5. CASE media[deleter[d].media].blob # b
    <3>1. FileStays(b)
      BY <2>1, <2>5 DEF WithoutFile, FileStays, TypeOK
    <3>2. DeleteClaims(d, b)' <=> DeleteClaims(d, b)
      BY <2>3, <2>5 DEF DeleteClaims
    <3> QED BY <1>1, <2>2, <3>1, <3>2, NothingHappens
  <2> QED BY <2>4, <2>5
<1>5. CASE DeleteDies(d)
  <2>1. media' = media /\ file' = file /\ faults' = faults + 1 /\ deleter'[d].pc = "idle"
    BY <1>5 DEF DeleteDies, Fault, IdleDeleter, TypeOK
  <2>2. ~DeleteClaims(d, b)' /\ \A m : m \in WithBlob(b)' <=> m \in WithBlob(b)
    BY <2>1 DEF DeleteClaims, WithBlob, Stored
  <2>3. NoNewClaim(b)
    BY <1>1, <2>2 DEF NoNewClaim, Claims
  <2>4. faults' # 0
    BY <2>1 DEF TypeOK
  <2> QED BY <2>1, <2>3, <2>4 DEF Failed, FileStays
<1> QED BY <1>2, <1>3, <1>4, <1>5 DEF DeleteStep

LEMMA CleanUpHappens ==
    ASSUME TypeOK, KnownInv, CleanInv, [Next]_vars, NEW x \in Cleaners, CleanStep(x),
           NEW b \in Blobs
    PROVE  Happens(b)
<1> USE DEF Happens
<1>1. /\ \A u : UploadClaims(u, b)' <=> UploadClaims(u, b)
      /\ \A d : DeleteClaims(d, b)' <=> DeleteClaims(d, b)
      /\ \A y : y # x => (CleanClaims(y, b)' <=> CleanClaims(y, b))
  <2>1. uploader' = uploader /\ deleter' = deleter
    BY DEF CleanStep, CleanStart, CleanPick, CleanFind, CleanDecrement, CleanReread, CleanAsk,
           CleanReset, CleanDelete, CleanRemove, CleanMark, CleanDies
  <2>2. \A y \in Cleaners : y # x => cleaner'[y] = cleaner[y]
    BY CleanStepIsLocal
  <2>3. \A y : y \notin Cleaners => (CleanClaims(y, b)' <=> CleanClaims(y, b))
    BY DEF CleanClaims
  <2> QED BY <2>1, <2>2, <2>3, ClaimsStay
<1>2. CASE \/ \E due \in SUBSET Holders : CleanStart(x, due)
           \/ \E h \in Holders, lists \in {1, 2} : CleanPick(x, h, lists)
           \/ CleanFind(x) \/ CleanDecrement(x) \/ CleanReread(x)
           \/ \E c \in Collections : CleanAsk(x, c)
           \/ CleanReset(x) \/ CleanMark(x)
  <2>1. cleaner[x].pc # "removing" /\ file' = file
    BY <1>2 DEF CleanStart, CleanPick, CleanFind, CleanDecrement, CleanReread, CleanAsk,
                CleanReset, CleanMark
  <2>2. cleaner'[x].pc # "removing"
    <3>1. CASE CleanFind(x) \/ CleanReread(x) \/ CleanReset(x)
      BY <3>1, AfterMentionFields DEF CleanFind, CleanReread, CleanReset, TypeOK, CleanerRecord
    <3>2. CASE (\E due \in SUBSET Holders : CleanStart(x, due)) \/ CleanMark(x)
      <4>1. CASE \E due \in SUBSET Holders : CleanStart(x, due)
        BY <4>1 DEF CleanStart, IdleCleaner, TypeOK
      <4>2. CASE CleanMark(x)
        <5> DEFINE left == cleaner[x].left \ {cleaner[x].ticket}
                   rest == [IdleCleaner EXCEPT
                              !.pc = "picking", !.left = left, !.held = cleaner[x].held]
        <5>1. IdleCleaner.pc = "idle" /\ rest.pc = "picking"
          BY DEF IdleCleaner
        <5>2. cleaner'[x] = IdleCleaner \/ cleaner'[x] = rest
          BY <4>2 DEF CleanMark, TypeOK
        <5> HIDE DEF rest
        <5> QED BY <5>1, <5>2
      <4> QED BY <3>2, <4>1, <4>2
    <3>3. CASE CleanDecrement(x)
      BY <3>3 DEF CleanDecrement, TypeOK
    <3>4. CASE \E h \in Holders, lists \in {1, 2} : CleanPick(x, h, lists)
      BY <3>4 DEF CleanPick, TypeOK
    <3>5. CASE \E c \in Collections : CleanAsk(x, c)
      BY <3>5 DEF CleanAsk, TypeOK, CleanerRecord
    <3> QED BY <1>2, <3>1, <3>2, <3>3, <3>4, <3>5
  <2>3. media' = media \/ \E k, n : media' = Counted(k, n)
    BY <1>2 DEF CleanStart, CleanPick, CleanFind, CleanDecrement, CleanReread, CleanAsk,
                CleanReset, CleanMark, Reset
  <2>4. \A m \in MediaIds : Kept(m)
    BY <2>3, CountedFields DEF Kept
  <2>5. CleanClaims(x, b)' <=> CleanClaims(x, b)
    BY <2>1, <2>2 DEF CleanClaims
  <2> QED BY <1>1, <2>1, <2>4, <2>5, DocumentsStay, NothingHappens DEF FileStays
<1>3. CASE CleanDelete(x)
  <2> DEFINE m == Handled(x)
  <2>1. /\ media' = Gone(m) /\ file' = file /\ cleaner[x].pc = "asking"
        /\ cleaner'[x].pc = "removing" /\ Handled(x)' = m
    BY <1>3 DEF CleanDelete, Handled, TypeOK, CleanerRecord
  <2>2. Used(m) /\ media'[m].blob = media[m].blob
    BY <2>1, TicketKnown, BlobStays
  <2>3. ~CleanClaims(x, b) /\ (CleanClaims(x, b)' <=> media[m].blob = b)
    BY <2>1, <2>2 DEF CleanClaims
  <2> HIDE DEF m
  <2>4. media[m].blob = b => Claims("clean-up", x, b)'
    BY <2>3 DEF Claims
  <2>5. \A k, i : k # "document" /\ Claims(k, i, b)' =>
                    Claims(k, i, b) \/ (media[m].blob = b /\ k = "clean-up" /\ i = x)
    BY <1>1, <2>3 DEF Claims
  <2>6. media[m].blob # b => \A k, i : k # "document" /\ Claims(k, i, b) => Claims(k, i, b)'
    BY <1>1, <2>3 DEF Claims
  <2> QED BY <2>1, <2>2, <2>4, <2>5, <2>6, DeletionHappens
<1>4. CASE CleanRemove(x)
  <2>1. /\ media' = media /\ file' = WithoutFile(Handled(x)) /\ cleaner[x].pc = "removing"
        /\ cleaner'[x].pc # "removing"
    BY <1>4, AfterMentionFields DEF CleanRemove
  <2>2. \A m : m \in WithBlob(b)' <=> m \in WithBlob(b)
    BY <2>1 DEF WithBlob, Stored
  <2>3. ~CleanClaims(x, b)'
    BY <2>1 DEF CleanClaims
  <2>4. CASE media[Handled(x)].blob = b
    <3>1. Claims("clean-up", x, b) /\ ~Claims("clean-up", x, b)'
      BY <2>1, <2>3, <2>4 DEF Claims, CleanClaims
    <3>2. ~file'[b]
      BY <2>1, <2>4 DEF WithoutFile, TypeOK
    <3>3. NoNewClaim(b)
      BY <1>1, <2>2, <2>3 DEF NoNewClaim, Claims
    <3> QED BY <3>1, <3>2, <3>3 DEF Cleared
  <2>5. CASE media[Handled(x)].blob # b
    <3>1. FileStays(b)
      BY <2>1, <2>5 DEF WithoutFile, FileStays, TypeOK
    <3>2. CleanClaims(x, b)' <=> CleanClaims(x, b)
      BY <2>3, <2>5 DEF CleanClaims
    <3> QED BY <1>1, <2>2, <3>1, <3>2, NothingHappens
  <2> QED BY <2>4, <2>5
<1>5. CASE CleanDies(x)
  <2>1. media' = media /\ file' = file /\ faults' = faults + 1 /\ cleaner'[x].pc = "idle"
    BY <1>5 DEF CleanDies, Fault, IdleCleaner, TypeOK
  <2>2. ~CleanClaims(x, b)' /\ \A m : m \in WithBlob(b)' <=> m \in WithBlob(b)
    BY <2>1 DEF CleanClaims, WithBlob, Stored
  <2>3. NoNewClaim(b)
    BY <1>1, <2>2 DEF NoNewClaim, Claims
  <2>4. faults' # 0
    BY <2>1 DEF TypeOK
  <2> QED BY <2>1, <2>3, <2>4 DEF Failed, FileStays
<1> QED BY <1>2, <1>3, <1>4, <1>5 DEF CleanStep

LEMMA EveryStepHappens ==
    ASSUME TypeOK, KnownInv, CleanInv, [Next]_vars, NEW b \in Blobs
    PROVE  Happens(b)
<1>1. CASE UNCHANGED vars \/ \E h \in Holders : AttachStep(h)
  <2>1. /\ media' = media /\ file' = file /\ uploader' = uploader /\ deleter' = deleter
        /\ cleaner' = cleaner
    BY <1>1 DEF vars, AttachStep, AttachCheck, AttachInsert, AttachDies, Fault
  <2>2. \A m : m \in WithBlob(b)' <=> m \in WithBlob(b)
    BY <2>1 DEF WithBlob, Stored
  <2> QED BY <2>1, <2>2, ClaimsStay, NothingHappens DEF Happens, FileStays
<1> QED BY <1>1, UploadHappens, DeleteHappens, CleanUpHappens DEF Next

LEMMA OneClaimNext ==
    ASSUME TypeOK, KnownInv, CleanInv, OneClaim, [Next]_vars PROVE OneClaim'
<1> SUFFICES ASSUME NEW b \in Blobs, DeletedOnce(b)', NEW k, NEW i, Claims(k, i, b)'
             PROVE  file'[b] /\ \A l, j : Claims(l, j, b)' => k = l /\ i = j
  BY DEF OneClaim
<1>1. \A l, j : Claims(l, j, b) =>
        file[b] /\ \A g, h : Claims(g, h, b) => l = g /\ j = h
  BY DeletedOnceBefore DEF OneClaim
<1>2. CASE Nothing(b) \/ Yielded(b) \/ Failed(b)
  <2>1. FileStays(b) /\ NoNewClaim(b)
    BY <1>2 DEF Nothing, Yielded, Failed, NoNewClaim
  <2> QED BY <1>1, <2>1 DEF FileStays, NoNewClaim
<1>3. CASE Laid(b)
  BY <1>1, <1>3 DEF Laid
<1>4. CASE Passed(b)
  <2> PICK l, j, g, h :
         /\ Claims(l, j, b) /\ ~Claims(l, j, b)' /\ Claims(g, h, b)'
         /\ \A c, e : Claims(c, e, b)' => Claims(c, e, b) \/ (c = g /\ e = h)
    BY <1>4 DEF Passed
  <2>1. \A c, e : Claims(c, e, b)' => c = g /\ e = h
    BY <1>1
  <2> QED BY <1>1, <1>4, <2>1 DEF Passed, FileStays
<1>5. ~DeletedAgain(b)
  BY DEF DeletedAgain
<1>6. CASE Cleared(b)
  BY <1>1, <1>6 DEF Cleared, NoNewClaim
<1> QED BY <1>2, <1>3, <1>4, <1>5, <1>6, EveryStepHappens DEF Happens

LEMMA FaultsGrow ==
    ASSUME [Next]_vars PROVE faults' = faults \/ faults' = faults + 1
BY DEF Next, vars, UploadStep, UploadFind, UploadCount, UploadWrite, UploadInsert,
        UploadRecount, UploadAnswer, UploadDies, AttachStep, AttachCheck, AttachInsert,
        AttachDies, DeleteStep, DeleteFind, DeleteAsk, DeleteRefuse, DeleteDocument, DeleteFile,
        DeleteDies, CleanStep, CleanStart, CleanPick, CleanFind, CleanDecrement, CleanReread,
        CleanAsk, CleanReset, CleanDelete, CleanRemove, CleanMark, CleanDies, Fault

LEMMA FileClaimedNext ==
    ASSUME TypeOK, KnownInv, CleanInv, FileClaimed, [Next]_vars PROVE FileClaimed'
<1> SUFFICES ASSUME NEW b \in Blobs, file'[b], faults' = 0
             PROVE  \E k, i : Claims(k, i, b)'
  BY DEF FileClaimed
<1>1. faults = 0
  BY FaultsGrow DEF TypeOK
<1>2. CASE Nothing(b)
  BY <1>1, <1>2 DEF Nothing, FileStays, FileClaimed
<1>3. CASE Laid(b) \/ Passed(b) \/ DeletedAgain(b) \/ Yielded(b)
  BY <1>3 DEF Laid, Passed, DeletedAgain, Yielded
<1>4. ~Cleared(b) /\ ~Failed(b)
  BY DEF Cleared, Failed
<1> QED BY <1>2, <1>3, <1>4, EveryStepHappens DEF Happens

FileInv == TypeOK /\ CleanInv /\ KnownInv /\ OneClaim /\ FileClaimed

LEMMA FileAlways == Spec => []FileInv
<1>1. Init => FileInv
  <2> SUFFICES ASSUME Init PROVE FileInv
    OBVIOUS
  <2>1. CleanInv /\ KnownInv
    BY DEF Init, CleanInv, CleanHolds, KnownInv, IdleCleaner, IdleUploader, IdleDeleter,
           NoDocument
  <2>2. \A b \in Blobs : \A k, i : ~Claims(k, i, b)
    BY DEF Init, Claims, UploadClaims, DeleteClaims, CleanClaims, WithBlob, Stored,
           IdleCleaner, IdleUploader, IdleDeleter, NoDocument
  <2>3. \A b \in Blobs : ~file[b]
    BY DEF Init
  <2> QED BY <2>1, <2>2, <2>3, TypesInit DEF FileInv, OneClaim, FileClaimed
<1>2. FileInv /\ [Next]_vars => FileInv'
  BY TypesNext, CleanInvNext, KnownNext, OneClaimNext, FileClaimedNext DEF FileInv
<1> QED BY <1>1, <1>2, PTL DEF Spec

\* What is stored can be fetched, as long as no document of the picture was deleted
\* twice: an upload comes before the delete of an earlier document has removed the file,
\* and fails, or after it.
THEOREM DocumentsHaveFiles == Spec => []DocumentHasFile
<1>1. FileInv => DocumentHasFile
  <2> SUFFICES ASSUME FileInv, NEW m \in MediaIds, Stored(m),
                      \A n \in MediaIds : media[n].blob = media[m].blob => ~(media[n].removals > 1)
               PROVE  file[media[m].blob]
    BY DEF DocumentHasFile
  <2>1. media[m].blob \in Blobs
    BY DEF FileInv, KnownInv, Stored
  <2>2. DeletedOnce(media[m].blob)
    BY DEF DeletedOnce, FileInv, TypeOK, MediaRecord
  <2>3. Claims("document", m, media[m].blob)
    BY DEF Claims, WithBlob
  <2> QED BY <2>1, <2>2, <2>3 DEF FileInv, OneClaim
<1> QED BY <1>1, FileAlways, PTL

\* No request and no clean-up that comes to its end leaves a file without a document.
THEOREM FilesAreClaimed == Spec => []NoStrayFile
<1>1. FileInv => NoStrayFile
  BY DEF FileInv, FileClaimed, NoStrayFile, Claims, UploadClaims, DeleteClaims, CleanClaims
<1> QED BY <1>1, FileAlways, PTL
-----------------------------------------------------------------------------
(* The counts *)

LEMMA PositiveNext ==
    ASSUME TypeOK, KnownInv, CleanInv, CountStaysPositive, [Next]_vars
    PROVE  CountStaysPositive'
<1> SUFFICES ASSUME NEW m \in MediaIds, Stored(m)', faults' = 0, ~(media'[m].refCount >= 1)
             PROVE  \E x \in Cleaners :
                      cleaner'[x].pc \in {"rereading", "asking"} /\ Handled(x)' = m
  BY DEF CountStaysPositive
<1>1. faults = 0 /\ faults' = faults
  BY FaultsGrow DEF TypeOK
<1>2. media[m].refCount \in Int /\ media'[m].refCount \in Int
  BY TypesNext DEF TypeOK, MediaRecord
\* Who was counting down goes on, unless it is the one that moves.
<1>3. ASSUME Stored(m), ~(media[m].refCount >= 1)
      PROVE  \E x \in Cleaners : /\ cleaner[x].pc \in {"rereading", "asking"} /\ Handled(x) = m
                                 /\ cleaner'[x] = cleaner[x] => Handled(x)' = m
  <2> PICK x \in Cleaners : cleaner[x].pc \in {"rereading", "asking"} /\ Handled(x) = m
    BY <1>1, <1>3 DEF CountStaysPositive
  <2>1. /\ cleaner[x].ticket \in Holders
        /\ holder[cleaner[x].ticket].pc \in {"attached", "emptied"}
    BY TicketKnown
  <2>2. cleaner'[x] = cleaner[x] => Handled(x)' = m
    BY <2>1, HoldersSettle DEF Handled
  <2> QED BY <2>2
<1>4. CASE cleaner' = cleaner /\ ~\E x \in Cleaners : CleanStep(x)
  <2>1. Stored(m) /\ ~(media[m].refCount >= 1)
    <3>1. CASE media' = media
      BY <3>1 DEF Stored
    <3>2. CASE \E u \in Uploaders : UploadCount(u) \/ UploadRecount(u)
      <4>1. \E k \in MediaIds \cup {NoMedia} : media' = media \/ media' = Counted(k, media[k].refCount + 1)
        BY <3>2 DEF UploadCount, UploadRecount, WithBlob, TypeOK, UploaderRecord
      <4> PICK k \in MediaIds \cup {NoMedia} :
                media' = media \/ media' = Counted(k, media[k].refCount + 1)
        BY <4>1
      <4>2. Stored(m)
        BY CountedFields DEF Stored
      <4>3. media'[m].refCount = media[m].refCount \/ media'[m].refCount = media[m].refCount + 1
        BY <4>2, CountedFields
      <4> QED BY <1>2, <4>2, <4>3
    <3>3. CASE \E u \in Uploaders : UploadInsert(u)
      BY <1>2, <3>3 DEF UploadInsert, Stored, TypeOK
    <3>4. CASE \E d \in Deleters : DeleteDocument(d)
      BY <3>4, GoneFields DEF DeleteDocument, Stored, TypeOK
    <3> QED
      BY <1>4, <3>1, <3>2, <3>3, <3>4 DEF Next, vars, UploadStep, UploadFind, UploadWrite,
        UploadAnswer, UploadDies, AttachStep, AttachCheck, AttachInsert, AttachDies, DeleteStep,
        DeleteFind, DeleteAsk, DeleteRefuse, DeleteFile, DeleteDies, Fault
  <2> QED BY <1>3, <1>4, <2>1
<1>5. ASSUME NEW x \in Cleaners, CleanStep(x)
      PROVE  \E y \in Cleaners :
                      cleaner'[y].pc \in {"rereading", "asking"} /\ Handled(y)' = m
  <2> DEFINE Goal == \E y \in Cleaners :
                      cleaner'[y].pc \in {"rereading", "asking"} /\ Handled(y)' = m
  <2> HIDE DEF Goal
  <2>1. CASE \E y \in Cleaners \ {x} : cleaner[y].pc \in {"rereading", "asking"} /\ Handled(y) = m
    <3> PICK y \in Cleaners \ {x} : cleaner[y].pc \in {"rereading", "asking"} /\ Handled(y) = m
      BY <2>1
    <3>1. cleaner'[y] = cleaner[y]
      BY <1>5, CleanStepIsLocal
    <3>2. /\ cleaner[y].ticket \in Holders
          /\ holder[cleaner[y].ticket].pc \in {"attached", "emptied"}
      BY TicketKnown
    <3>3. Handled(y)' = m
      BY <3>1, <3>2, HoldersSettle DEF Handled
    <3> QED BY <3>1, <3>3 DEF Goal
  <2>2. CASE Stored(m) /\ ~(media[m].refCount >= 1) =>
               cleaner[x].pc \in {"rereading", "asking"} /\ Handled(x) = m
    <3> USE <1>5
    <3>1. CASE \/ \E due \in SUBSET Holders : CleanStart(x, due)
               \/ \E h \in Holders, lists \in {1, 2} : CleanPick(x, h, lists)
               \/ CleanFind(x) \/ CleanRemove(x) \/ CleanMark(x)
      BY <2>2, <3>1 DEF CleanStart, CleanPick, CleanFind, CleanRemove, CleanMark, Stored
    <3>2. CASE CleanDies(x)
      BY <1>1, <3>2 DEF CleanDies, Fault, TypeOK
    <3>3. CASE CleanDecrement(x)
      <4>1. /\ cleaner'[x].pc = "rereading" /\ Handled(x)' = Handled(x)
            /\ cleaner[x].pc = "decrementing"
        BY <3>3 DEF CleanDecrement, Handled, TypeOK, CleanerRecord
      <4>2. Handled(x) = m
        BY <2>2, <3>3, <4>1, CountedFields DEF CleanDecrement, Stored
      <4> QED BY <4>1, <4>2 DEF Goal
    <3>4. CASE \E c \in Collections : CleanAsk(x, c)
      <4>1. cleaner'[x].pc = "asking" /\ Handled(x)' = Handled(x) /\ media' = media
        BY <3>4 DEF CleanAsk, Handled, TypeOK, CleanerRecord
      <4> QED BY <2>2, <4>1 DEF Goal, Stored
    <3>5. CASE CleanReread(x)
      <4>1. media' = media /\ holder' = holder
        BY <3>5 DEF CleanReread
      <4>2. Stored(m) /\ ~(media[m].refCount >= 1) /\ Handled(x) = m /\ media[m].refCount <= 0
        BY <1>2, <2>2, <4>1 DEF Stored
      <4>3. cleaner'[x].pc = "asking" /\ cleaner'[x].ticket = cleaner[x].ticket
        BY <3>5, <4>2 DEF CleanReread, TypeOK, CleanerRecord
      <4> QED BY <4>1, <4>2, <4>3 DEF Goal, Handled
    <3>6. CASE CleanReset(x)
      BY <2>2, <3>6, CountedFields DEF CleanReset, Reset, Stored
    <3>7. CASE CleanDelete(x)
      BY <2>2, <3>7, GoneFields DEF CleanDelete, Stored
    <3> QED BY <3>1, <3>2, <3>3, <3>4, <3>5, <3>6, <3>7 DEF CleanStep
  <2>3. Stored(m) /\ ~(media[m].refCount >= 1) =>
          \E y \in Cleaners : cleaner[y].pc \in {"rereading", "asking"} /\ Handled(y) = m
    BY <1>1 DEF CountStaysPositive
  <2> QED BY <2>1, <2>2, <2>3 DEF Goal
<1> QED BY <1>4, <1>5, OnlyCleanUps

\* Clean-ups that overlap and come to their ends leave no media with nothing counted.
THEOREM CountsStayPositive == Spec => []CountStaysPositive
<1>1. Init => CountStaysPositive
  BY DEF Init, CountStaysPositive, Stored, NoDocument
<1>2. FileInv /\ CountStaysPositive /\ [Next]_vars => CountStaysPositive'
  BY PositiveNext DEF FileInv
<1> QED BY <1>1, <1>2, FileAlways, PTL DEF Spec
=============================================================================
