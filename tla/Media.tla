-------------------------------- MODULE Media --------------------------------
(***************************************************************************)
(* Pictures of the HomeCareOps API: a document in media_metadata and a      *)
(* file whose name is the hash of its content, made by uploads              *)
(* (mediaService.js), referred to by reviews, tickets and content, and      *)
(* taken away by deletes and by the retention script (retentionCleanup.js). *)
(* A document and its file, and a reference and the media it names, are     *)
(* never written together: every step here ends at an await.                *)
(***************************************************************************)
EXTENDS Integers, FiniteSets

CONSTANTS
    MediaIds,       \* ids that documents may get, each once
    Blobs,          \* contents of pictures, as their hashes
    Holders,        \* tickets, reviews and contents that come to refer to one media each
    KindOf,         \* what a holder is
    Uploaders, Deleters, Cleaners,  \* requests and script runs that may overlap
    MaxUploads,     \* bound: uploads that find or store a document
    MaxFaults,      \* bound: calls that fail, requests that die, scripts that are killed
    NoMedia, NoBlob, NoHolder

\* "embedded" is a content that names the media in its body only: it is found by its
\* mediaRefs and not by its versions' mediaIds.
Kinds == {"ticket", "review", "content", "embedded"}
\* The collections that are asked for references.
Collections == {"ticket", "review", "content"}

ASSUME SetsAssumption ==
    /\ KindOf \in [Holders -> Kinds]
    /\ NoMedia \notin MediaIds /\ NoBlob \notin Blobs /\ NoHolder \notin Holders
    /\ MaxUploads \in Nat /\ MaxFaults \in Nat

VARIABLES
    media,      \* the documents
    file,       \* whether the file of a content is on the disk
    holder,     \* the documents that refer to media, and the requests that store them
    uploader,   \* uploads of one file
    deleter,    \* deleteMediaById requests
    cleaner,    \* retention runs
    uploads, faults     \* counts of uploads and of faults

vars == <<media, file, holder, uploader, deleter, cleaner, uploads, faults>>

-----------------------------------------------------------------------------
\* removals is a history field: how many calls deleted the document or came too late to.
MediaRecord == [state: {"unused", "stored", "deleted"}, blob: Blobs \cup {NoBlob},
                refCount: Int, removals: Nat]
NoDocument == [state |-> "unused", blob |-> NoBlob, refCount |-> 0, removals |-> 0]
HolderRecord == [pc: {"idle", "attaching", "attached", "emptied"}, media: MediaIds \cup {NoMedia}]
UploaderRecord == [pc: {"idle", "counting", "writing", "inserting", "recounting", "failed"},
                   blob: Blobs \cup {NoBlob}, media: MediaIds \cup {NoMedia}]
DeleterRecord == [pc: {"idle", "asking", "removing"}, media: MediaIds \cup {NoMedia},
                  unasked: SUBSET Collections, found: BOOLEAN, held: SUBSET Holders]
CleanerRecord == [pc: {"idle", "picking", "finding", "decrementing", "rereading", "asking",
                       "removing", "marking"},
                  left: SUBSET Holders, ticket: Holders \cup {NoHolder}, lists: 0..2,
                  unasked: SUBSET Collections, found: BOOLEAN, held: SUBSET Holders]

IdleUploader == [pc |-> "idle", blob |-> NoBlob, media |-> NoMedia]
IdleDeleter == [pc |-> "idle", media |-> NoMedia, unasked |-> {}, found |-> FALSE, held |-> {}]
IdleCleaner == [pc |-> "idle", left |-> {}, ticket |-> NoHolder, lists |-> 0,
                unasked |-> {}, found |-> FALSE, held |-> {}]

Stored(m) == m \in MediaIds /\ media[m].state = "stored"
WithBlob(b) == {m \in MediaIds : Stored(m) /\ media[m].blob = b}
Refers(h, m) == holder[h].pc = "attached" /\ holder[h].media = m

\* An update filtered on the id changes nothing if the document is gone.
Counted(m, n) == IF Stored(m) THEN [media EXCEPT ![m].refCount = n] ELSE media
\* Mutant: a delete marks the document.
SoftDeleted(m) == [media EXCEPT ![m].state = "hidden", ![m].removals = @ + 1]
\* deleteOne, which may match nothing.
Gone(m) == [media EXCEPT ![m].state = "deleted", ![m].removals = @ + 1]

-----------------------------------------------------------------------------
(* uploadMedia, one file; MIME, size and compression have been dealt with. *)

\* findMediaBySha256
UploadFind(u, b) ==
    /\ uploader[u].pc = "idle" /\ uploads < MaxUploads
    /\ uploads' = uploads + 1
    /\ \/ \E m \in WithBlob(b) :
            uploader' = [uploader EXCEPT ![u] = [pc |-> "counting", blob |-> b, media |-> m]]
       \/ /\ WithBlob(b) = {}
          /\ uploader' = [uploader EXCEPT ![u] = [pc |-> "writing", blob |-> b, media |-> NoMedia]]
    /\ UNCHANGED <<media, file, holder, deleter, cleaner, faults>>

\* incrementMediaRefCount; the id is answered even if nothing was counted.
UploadCount(u) ==
    LET m == uploader[u].media IN
    /\ uploader[u].pc = "counting"
    /\ media' = Counted(m, media[m].refCount + 1)
    /\ uploader' = [uploader EXCEPT ![u] = IdleUploader]
    /\ UNCHANGED <<file, holder, deleter, cleaner, uploads, faults>>

\* Mutant: a file that is there already is overwritten.
Overwritten(b) == FALSE
\* Whether writeFile with the flag "wx" rejects.
AlreadyOnDisk(b) == file[b]

UploadWrite(u) ==
    LET b == uploader[u].blob IN
    /\ uploader[u].pc = "writing"
    /\ \/ /\ ~AlreadyOnDisk(b)
          /\ file' = [file EXCEPT ![b] = TRUE]
          /\ uploader' = [uploader EXCEPT ![u].pc = "inserting"]
       \/ /\ AlreadyOnDisk(b)
          /\ uploader' = [uploader EXCEPT ![u].pc = "failed"]
          /\ UNCHANGED file
    /\ UNCHANGED <<media, holder, deleter, cleaner, uploads, faults>>

\* insertMedia: the index on sha256 is unique.
UploadInsert(u) ==
    LET b == uploader[u].blob IN
    /\ uploader[u].pc = "inserting"
    /\ \/ /\ WithBlob(b) = {}
          /\ \E m \in MediaIds :
               /\ media[m].state = "unused"
               /\ media' = [media EXCEPT ![m] =
                    [state |-> "stored", blob |-> b, refCount |-> 1, removals |-> 0]]
          /\ uploader' = [uploader EXCEPT ![u] = IdleUploader]
       \/ /\ WithBlob(b) # {}
          /\ uploader' = [uploader EXCEPT ![u].pc = "recounting"]
          /\ UNCHANGED media
    /\ UNCHANGED <<file, holder, deleter, cleaner, uploads, faults>>

\* findAndIncrementBySha256; null has no _id.
UploadRecount(u) ==
    LET b == uploader[u].blob IN
    /\ uploader[u].pc = "recounting"
    /\ \/ \E m \in WithBlob(b) :
            /\ media' = Counted(m, media[m].refCount + 1)
            /\ uploader' = [uploader EXCEPT ![u] = IdleUploader]
       \/ /\ WithBlob(b) = {}
          /\ uploader' = [uploader EXCEPT ![u].pc = "failed"]
          /\ UNCHANGED media
    /\ UNCHANGED <<file, holder, deleter, cleaner, uploads, faults>>

\* The request that failed is answered with an error.
UploadAnswer(u) ==
    /\ uploader[u].pc = "failed"
    /\ uploader' = [uploader EXCEPT ![u] = IdleUploader]
    /\ UNCHANGED <<media, file, holder, deleter, cleaner, uploads, faults>>

-----------------------------------------------------------------------------
(* createTicket, createReview, createContent and their likes: findMediaByIds,   *)
(* then, other calls later, the document that refers to the media.              *)
AttachCheck(h, m) ==
    /\ holder[h].pc = "idle" /\ Stored(m)
    /\ holder' = [holder EXCEPT ![h] = [pc |-> "attaching", media |-> m]]
    /\ UNCHANGED <<media, file, uploader, deleter, cleaner, uploads, faults>>

AttachInsert(h) ==
    /\ holder[h].pc = "attaching"
    /\ holder' = [holder EXCEPT ![h].pc = "attached"]
    /\ UNCHANGED <<media, file, uploader, deleter, cleaner, uploads, faults>>

-----------------------------------------------------------------------------
(* deleteMediaById *)

\* Mutant: references from a content's body are overlooked.
KindsInVersions(c) == {c}
\* The holders that findMediaReferences sees in a collection.
KindsFound(c) == IF c = "content" THEN {"content", "embedded"} ELSE {c}

\* findMediaById.  Who refers to the media by now is remembered in a history field.
DeleteFind(d, m) ==
    /\ deleter[d].pc = "idle" /\ Stored(m)
    /\ deleter' = [deleter EXCEPT ![d] =
         [pc |-> "asking", media |-> m, unasked |-> Collections, found |-> FALSE,
          held |-> {h \in Holders : Refers(h, m)}]]
    /\ UNCHANGED <<media, file, holder, uploader, cleaner, uploads, faults>>

\* One of the three queries that findMediaReferences makes at once.
DeleteAsk(d, c) ==
    /\ deleter[d].pc = "asking" /\ c \in deleter[d].unasked
    /\ deleter' = [deleter EXCEPT
         ![d].unasked = @ \ {c},
         ![d].found = @ \/ \E h \in Holders : Refers(h, deleter[d].media) /\ KindOf[h] \in KindsFound(c)]
    /\ UNCHANGED <<media, file, holder, uploader, cleaner, uploads, faults>>

\* 409
DeleteRefuse(d) ==
    /\ deleter[d].pc = "asking" /\ deleter[d].unasked = {} /\ deleter[d].found
    /\ deleter' = [deleter EXCEPT ![d] = IdleDeleter]
    /\ UNCHANGED <<media, file, holder, uploader, cleaner, uploads, faults>>

\* deleteOne, whatever it matches.
DeleteDocument(d) ==
    /\ deleter[d].pc = "asking" /\ deleter[d].unasked = {} /\ ~deleter[d].found
    /\ media' = Gone(deleter[d].media)
    /\ deleter' = [deleter EXCEPT ![d].pc = "removing"]
    /\ UNCHANGED <<file, holder, uploader, cleaner, uploads, faults>>

\* Mutant: the file stays.
FileKept(m) == file
\* fs.rm of the document's storagePath, with force.
WithoutFile(m) == [file EXCEPT ![media[m].blob] = FALSE]

DeleteFile(d) ==
    /\ deleter[d].pc = "removing"
    /\ file' = WithoutFile(deleter[d].media)
    /\ deleter' = [deleter EXCEPT ![d] = IdleDeleter]
    /\ UNCHANGED <<media, holder, uploader, cleaner, uploads, faults>>

-----------------------------------------------------------------------------
(* The retention script.  Which tickets are due is Tickets' business: any of    *)
(* those that have attachments may be.  The script works on the tickets as they *)
(* were when it found them.  Who referred to media then is remembered.          *)
CleanStart(x, due) ==
    /\ cleaner[x].pc = "idle"
    /\ due # {}
    /\ \A h \in due : KindOf[h] = "ticket" /\ holder[h].pc = "attached"
    /\ cleaner' = [cleaner EXCEPT ![x] = [IdleCleaner EXCEPT
         !.pc = "picking", !.left = due, !.held = {h \in Holders : holder[h].pc = "attached"}]]
    /\ UNCHANGED <<media, file, holder, uploader, deleter, uploads, faults>>

\* A ticket lists its media as an attachment, as an attachment of the outcome, or both.
CleanPick(x, h, lists) ==
    /\ cleaner[x].pc = "picking" /\ h \in cleaner[x].left
    /\ cleaner' = [cleaner EXCEPT ![x].pc = "finding", ![x].ticket = h, ![x].lists = lists]
    /\ UNCHANGED <<media, file, holder, uploader, deleter, uploads, faults>>

Handled(x) == holder[cleaner[x].ticket].media

\* Done with one mention of the media: the other one is next, or the ticket is marked.
AfterMention(x) ==
    [cleaner EXCEPT ![x].lists = 1, ![x].unasked = {}, ![x].found = FALSE,
                    ![x].pc = IF cleaner[x].lists = 2 THEN "finding" ELSE "marking"]

\* findOne of decrementAndMaybeDeleteMedia
CleanFind(x) ==
    /\ cleaner[x].pc = "finding"
    /\ cleaner' = IF Stored(Handled(x)) THEN [cleaner EXCEPT ![x].pc = "decrementing"]
                  ELSE AfterMention(x)
    /\ UNCHANGED <<media, file, holder, uploader, deleter, uploads, faults>>

CleanDecrement(x) ==
    /\ cleaner[x].pc = "decrementing"
    /\ media' = Counted(Handled(x), media[Handled(x)].refCount - 1)
    /\ cleaner' = [cleaner EXCEPT ![x].pc = "rereading"]
    /\ UNCHANGED <<file, holder, uploader, deleter, uploads, faults>>

\* The second findOne: someone may still count on the media.
CleanReread(x) ==
    /\ cleaner[x].pc = "rereading"
    /\ cleaner' = IF Stored(Handled(x)) /\ media[Handled(x)].refCount <= 0
                  THEN [cleaner EXCEPT ![x].pc = "asking", ![x].unasked = Collections]
                  ELSE AfterMention(x)
    /\ UNCHANGED <<media, file, holder, uploader, deleter, uploads, faults>>

\* Mutant: reviews are not asked.
SeesButReviews(x, h, c) == c # "review" /\ KindOf[h] = c /\ Refers(h, Handled(x))
\* What hasExternalMediaReferences finds in a collection: the ticket itself is in
\* there, a content that names the media in its body is not.
Sees(x, h, c) == KindOf[h] = c /\ Refers(h, Handled(x))

CleanAsk(x, c) ==
    /\ cleaner[x].pc = "asking" /\ c \in cleaner[x].unasked
    /\ cleaner' = [cleaner EXCEPT ![x].unasked = @ \ {c},
                                  ![x].found = @ \/ \E h \in Holders : Sees(x, h, c)]
    /\ UNCHANGED <<media, file, holder, uploader, deleter, uploads, faults>>

\* Mutant: the count stays where the decrement left it.
NotReset(m) == media
\* The count of a media that is still referred to starts again at one.
Reset(m) == Counted(m, 1)

CleanReset(x) ==
    /\ cleaner[x].pc = "asking" /\ cleaner[x].unasked = {} /\ cleaner[x].found
    /\ media' = Reset(Handled(x))
    /\ cleaner' = AfterMention(x)
    /\ UNCHANGED <<file, holder, uploader, deleter, uploads, faults>>

CleanDelete(x) ==
    /\ cleaner[x].pc = "asking" /\ cleaner[x].unasked = {} /\ ~cleaner[x].found
    /\ media' = Gone(Handled(x))
    /\ cleaner' = [cleaner EXCEPT ![x].pc = "removing"]
    /\ UNCHANGED <<file, holder, uploader, deleter, uploads, faults>>

CleanRemove(x) ==
    /\ cleaner[x].pc = "removing"
    /\ file' = WithoutFile(Handled(x))
    /\ cleaner' = AfterMention(x)
    /\ UNCHANGED <<media, holder, uploader, deleter, uploads, faults>>

\* The ticket's lists are emptied; after the last ticket the script ends.
CleanMark(x) ==
    LET left == cleaner[x].left \ {cleaner[x].ticket} IN
    /\ cleaner[x].pc = "marking"
    /\ holder' = [holder EXCEPT ![cleaner[x].ticket].pc = "emptied"]
    /\ cleaner' = [cleaner EXCEPT ![x] =
         IF left = {} THEN IdleCleaner
         ELSE [IdleCleaner EXCEPT !.pc = "picking", !.left = left, !.held = cleaner[x].held]]
    /\ UNCHANGED <<media, file, uploader, deleter, uploads, faults>>

-----------------------------------------------------------------------------
(* A call fails, the answer to one is lost, the API dies or the script is killed: *)
(* what was done stays and the rest is not done.  Several at once are several     *)
(* steps.                                                                         *)
Fault ==
    /\ faults < MaxFaults
    /\ faults' = faults + 1
    /\ UNCHANGED <<media, file, uploads>>

UploadDies(u) ==
    /\ uploader[u].pc # "idle" /\ Fault
    /\ uploader' = [uploader EXCEPT ![u] = IdleUploader]
    /\ UNCHANGED <<holder, deleter, cleaner>>

AttachDies(h) ==
    /\ holder[h].pc = "attaching" /\ Fault
    /\ holder' = [holder EXCEPT ![h] = [pc |-> "idle", media |-> NoMedia]]
    /\ UNCHANGED <<uploader, deleter, cleaner>>

DeleteDies(d) ==
    /\ deleter[d].pc # "idle" /\ Fault
    /\ deleter' = [deleter EXCEPT ![d] = IdleDeleter]
    /\ UNCHANGED <<holder, uploader, cleaner>>

CleanDies(x) ==
    /\ cleaner[x].pc # "idle" /\ Fault
    /\ cleaner' = [cleaner EXCEPT ![x] = IdleCleaner]
    /\ UNCHANGED <<holder, uploader, deleter>>

-----------------------------------------------------------------------------
Init ==
    /\ media = [m \in MediaIds |-> NoDocument]
    /\ file = [b \in Blobs |-> FALSE]
    /\ holder = [h \in Holders |-> [pc |-> "idle", media |-> NoMedia]]
    /\ uploader = [u \in Uploaders |-> IdleUploader]
    /\ deleter = [d \in Deleters |-> IdleDeleter]
    /\ cleaner = [x \in Cleaners |-> IdleCleaner]
    /\ uploads = 0
    /\ faults = 0

UploadStep(u) ==
    \/ \E b \in Blobs : UploadFind(u, b)
    \/ UploadCount(u)
    \/ UploadWrite(u)
    \/ UploadInsert(u)
    \/ UploadRecount(u)
    \/ UploadAnswer(u)
    \/ UploadDies(u)

AttachStep(h) ==
    \/ \E m \in MediaIds : AttachCheck(h, m)
    \/ AttachInsert(h)
    \/ AttachDies(h)

DeleteStep(d) ==
    \/ \E m \in MediaIds : DeleteFind(d, m)
    \/ \E c \in Collections : DeleteAsk(d, c)
    \/ DeleteRefuse(d)
    \/ DeleteDocument(d)
    \/ DeleteFile(d)
    \/ DeleteDies(d)

CleanStep(x) ==
    \/ \E due \in SUBSET Holders : CleanStart(x, due)
    \/ \E h \in Holders, lists \in {1, 2} : CleanPick(x, h, lists)
    \/ CleanFind(x)
    \/ CleanDecrement(x)
    \/ CleanReread(x)
    \/ \E c \in Collections : CleanAsk(x, c)
    \/ CleanReset(x)
    \/ CleanDelete(x)
    \/ CleanRemove(x)
    \/ CleanMark(x)
    \/ CleanDies(x)

Next ==
    \/ \E u \in Uploaders : UploadStep(u)
    \/ \E h \in Holders : AttachStep(h)
    \/ \E d \in Deleters : DeleteStep(d)
    \/ \E x \in Cleaners : CleanStep(x)

Spec == Init /\ [][Next]_vars

-----------------------------------------------------------------------------
(* Properties *)

TypeOK ==
    /\ media \in [MediaIds -> MediaRecord]
    /\ file \in [Blobs -> BOOLEAN]
    /\ holder \in [Holders -> HolderRecord]
    /\ uploader \in [Uploaders -> UploaderRecord]
    /\ deleter \in [Deleters -> DeleterRecord]
    /\ cleaner \in [Cleaners -> CleanerRecord]
    /\ uploads \in 0..MaxUploads
    /\ faults \in 0..MaxFaults

\* A document's file can be fetched: an upload never ends up with a document whose
\* file the delete of an earlier document of the same picture takes away, unless two
\* requests deleted that one at once.
DocumentHasFile ==
    \A m \in MediaIds : Stored(m) =>
        \/ file[media[m].blob]
        \/ \E n \in MediaIds : media[n].blob = media[m].blob /\ media[n].removals > 1

\* Without faults a file with no document belongs to somebody who is at work on it.
\* A stray file would make every later upload of the picture fail.
NoStrayFile ==
    \A b \in Blobs : file[b] /\ faults = 0 =>
        \/ WithBlob(b) # {}
        \/ \E u \in Uploaders : uploader[u].pc \in {"inserting", "recounting"} /\ uploader[u].blob = b
        \/ \E d \in Deleters : deleter[d].pc = "removing" /\ media[deleter[d].media].blob = b
        \/ \E x \in Cleaners : cleaner[x].pc = "removing" /\ media[Handled(x)].blob = b

\* A delete spares the media that someone referred to when it began, whatever the
\* kind of the reference and the order of the three queries, unless the reference has
\* gone meanwhile.
DeleteSparesReferences ==
    \A d \in Deleters : deleter[d].pc = "removing" =>
        ~\E h \in deleter[d].held : Refers(h, deleter[d].media)

\* A clean-up spares the media that a ticket or a review, or a content by its list of
\* media, refers to since before it started and still does, even when another clean-up
\* is counting and emptying the same tickets.
CleanupSparesReferences ==
    \A x \in Cleaners : cleaner[x].pc = "removing" =>
        ~\E h \in cleaner[x].held : KindOf[h] # "embedded" /\ Refers(h, Handled(x))

\* Clean-ups that are not killed leave a media that is stored with a positive count,
\* even if they overlap: the next one counts down from there.
CountStaysPositive ==
    \A m \in MediaIds : Stored(m) /\ faults = 0 =>
        \/ media[m].refCount >= 1
        \/ \E x \in Cleaners : cleaner[x].pc \in {"rereading", "asking"} /\ Handled(x) = m

-----------------------------------------------------------------------------
(* What a test's name says and an interleaving breaks. *)

\* What someone refers to exists: deletes are refused while it is referred to.
ReferencedExists == \A h \in Holders, m \in MediaIds : Refers(h, m) => Stored(m)
=============================================================================
