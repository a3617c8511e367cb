----------------------------- MODULE SearchIndex -----------------------------
(***************************************************************************)
(* Services and contents of the HomeCareOps API and the collection          *)
(* search_documents that copies what is published of them.  An edit writes  *)
(* its item, then the synchronisation (searchSyncService.js) reads the item *)
(* and writes or deletes the copy; a weekly clean-up (searchCleanup.js)     *)
(* deletes copies whose item is not published; a start of the API (db.js)   *)
(* seeds its fixtures and makes all copies anew.  Every step ends at an     *)
(* await.                                                                   *)
(***************************************************************************)
EXTENDS Integers, FiniteSets

CONSTANTS
    Services, Contents,     \* ids of items
    Seeds,          \* the services and contents that seedDatabase writes at every start
    Editors,        \* requests that may overlap
    Cleaners,       \* runs of the clean-up, by timer or by hand
    MaxEdits,       \* bound: edits in a behaviour
    MaxVersions,    \* bound: versions of a content
    MaxRestarts,    \* bound: times the API dies
    MaxFaults,      \* bound: calls that fail
    NoItem

Items == Services \cup Contents

ASSUME SetsAssumption ==
    /\ Services \cap Contents = {} /\ Seeds \subseteq Items /\ NoItem \notin Items

ASSUME NumbersAssumption ==
    MaxEdits \in Nat /\ MaxVersions \in Nat \ {0, 1} /\ MaxRestarts \in Nat /\ MaxFaults \in Nat

VARIABLES
    service,    \* documents of services; a title is the number of the edit that gave it
    content,    \* documents of contents; versions are 1..versions, 0 is none
    index,      \* the copy of each item: its _id and the title or version it shows
    nextId,     \* the next _id of a copy
    editor,     \* requests that edit an item
    cleaner,    \* clean-up runs
    api,        \* whether the API is up or at which point of its start
    edits, restarts, faults,    \* counts
    doubtful    \* history: items that were edited again before they were synchronised, or
                \* whose synchronisation failed, since the API started

counts == <<edits, restarts, faults>>
vars == <<service, content, index, nextId, editor, cleaner, api, counts, doubtful>>

-----------------------------------------------------------------------------
ServiceRecord == [exists: BOOLEAN, published: BOOLEAN, title: Nat]
ContentRecord == [status: {"none", "draft", "scheduled", "published"}, versions: 0..MaxVersions,
                  current: 0..MaxVersions, live: 0..MaxVersions, scheduled: 0..MaxVersions]
EntryRecord == [id: Nat, shows: Nat]
EditorRecord == [pc: {"idle", "checked", "syncing", "storing"}, item: Items \cup {NoItem},
                 op: {"none", "schedule", "publish", "rollback"}, version: 0..MaxVersions,
                 visible: BOOLEAN, shows: Nat]
CleanerRecord == [pc: {"idle", "cleaning", "deleting"}, item: Items \cup {NoItem},
                  left: SUBSET Items, ids: [Items -> Nat], steady: SUBSET Items]

NoService == [exists |-> FALSE, published |-> FALSE, title |-> 0]
NoContent == [status |-> "none", versions |-> 0, current |-> 0, live |-> 0, scheduled |-> 0]
NoEntry == [id |-> 0, shows |-> 0]
IdleEditor == [pc |-> "idle", item |-> NoItem, op |-> "none", version |-> 0,
               visible |-> FALSE, shows |-> 0]
IdleCleaner == [pc |-> "idle", item |-> NoItem, left |-> {}, ids |-> [i \in Items |-> 0],
                steady |-> {}]

\* Whether the public may see an item.
Visible(i) == IF i \in Services THEN service[i].exists /\ service[i].published
              ELSE content[i].status = "published" /\ content[i].live # 0
\* What the public sees of it.
Shown(i) == IF i \in Services THEN service[i].title ELSE content[i].live

Listed(i) == index[i] # NoEntry

-----------------------------------------------------------------------------
(* Edits.  Each writes its document once; the synchronisation follows. *)

\* Clean-ups forget what was not published all the time.  A history field.
Steadied(visible) == [x \in Cleaners |->
    [cleaner[x] EXCEPT !.steady = {i \in @ : visible[i]}]]

\* The request e has written the item i, or is about to write its copy.
Synchronising(e, i) == editor[e].pc \in {"syncing", "storing"} /\ editor[e].item = i

\* An item is written while another request has yet to synchronise it.
Doubts(i) == doubtful' = IF \E e \in Editors : Synchronising(e, i) THEN doubtful \cup {i}
                         ELSE doubtful

Syncing(e, i) == [editor EXCEPT ![e] = [IdleEditor EXCEPT !.pc = "syncing", !.item = i]]

\* A service is written and its synchronisation is due.
WriteService(e, s, doc) ==
    /\ api = "up" /\ editor[e].pc = "idle" /\ edits < MaxEdits
    /\ edits' = edits + 1
    /\ service' = [service EXCEPT ![s] = doc]
    /\ editor' = Syncing(e, s)
    /\ cleaner' = Steadied([i \in Items |-> IF i = s THEN doc.published ELSE Visible(i)])
    /\ Doubts(s)
    /\ UNCHANGED <<content, index, nextId, api, restarts, faults>>

CreateService(e, s, published) ==
    /\ ~service[s].exists
    /\ WriteService(e, s, [exists |-> TRUE, published |-> published, title |-> edits + 1])

\* A partial update: published is one of the fields.
UpdateService(e, s, published) ==
    /\ service[s].exists
    /\ WriteService(e, s, [exists |-> TRUE, published |-> published, title |-> edits + 1])

PublishService(e, s) ==
    /\ service[s].exists
    /\ WriteService(e, s, [service[s] EXCEPT !.published = TRUE])

UnpublishService(e, s) ==
    /\ service[s].exists
    /\ WriteService(e, s, [service[s] EXCEPT !.published = FALSE])

\* A content is written and its synchronisation is due.
WriteContent(e, c, doc) ==
    /\ content' = [content EXCEPT ![c] = doc]
    /\ editor' = Syncing(e, c)
    /\ cleaner' = Steadied([i \in Items |-> IF i = c THEN doc.status = "published" /\ doc.live # 0
                                            ELSE Visible(i)])
    /\ Doubts(c)
    /\ UNCHANGED <<service, index, nextId, api, restarts, faults>>

StartEdit(e) == api = "up" /\ editor[e].pc = "idle" /\ edits < MaxEdits /\ edits' = edits + 1

CreateContent(e, c) ==
    /\ StartEdit(e) /\ content[c].status = "none"
    /\ WriteContent(e, c, [NoContent EXCEPT !.status = "draft", !.versions = 1, !.current = 1])

\* pushDraftVersion: the content is a draft again, whatever it was.
PushDraft(e, c) ==
    LET n == content[c].versions + 1 IN
    /\ StartEdit(e) /\ content[c].status # "none" /\ n <= MaxVersions
    /\ WriteContent(e, c, [content[c] EXCEPT !.status = "draft", !.versions = n, !.current = n])

\* findContentOrThrow and the choice of a version, for a schedule, a publication or a
\* rollback.  A version that is not asked for is the current one.
FindContent(e, c, op, version) ==
    /\ StartEdit(e) /\ content[c].status # "none"
    /\ version \in 1..content[c].versions
    /\ editor' = [editor EXCEPT ![e] =
         [IdleEditor EXCEPT !.pc = "checked", !.item = c, !.op = op, !.version = version]]
    /\ UNCHANGED <<service, content, index, nextId, cleaner, api, restarts, faults, doubtful>>

\* Mutant: a rollback has a status of its own.
ChangedNamed(doc, op, version) ==
    CASE op = "schedule" -> [doc EXCEPT !.status = "scheduled", !.scheduled = version]
      [] op = "publish"  -> [doc EXCEPT !.status = "published", !.live = version, !.scheduled = 0]
      [] OTHER           -> [doc EXCEPT !.status = "rolled_back", !.live = version]
\* updateSchedule, publishVersion, rollbackVersion
Changed(doc, op, version) ==
    CASE op = "schedule" -> [doc EXCEPT !.status = "scheduled", !.scheduled = version]
      [] op = "publish"  -> [doc EXCEPT !.status = "published", !.live = version, !.scheduled = 0]
      [] OTHER           -> [doc EXCEPT !.status = "published", !.live = version]

ChangeContent(e) ==
    LET c == editor[e].item IN
    /\ editor[e].pc = "checked"
    /\ WriteContent(e, c, Changed(content[c], editor[e].op, editor[e].version))
    /\ UNCHANGED edits

-----------------------------------------------------------------------------
(* syncServiceSearchDocument, syncContentSearchDocument *)

SyncRead(e) ==
    LET i == editor[e].item IN
    /\ editor[e].pc = "syncing"
    /\ editor' = [editor EXCEPT ![e].pc = "storing", ![e].visible = Visible(i),
                                ![e].shows = Shown(i)]
    /\ UNCHANGED <<service, content, index, nextId, cleaner, api, counts, doubtful>>

\* An upsert keeps the _id of a copy that is there.
SyncWrite(e) ==
    LET i == editor[e].item IN
    /\ editor[e].pc = "storing"
    /\ \/ /\ editor[e].visible /\ Listed(i)
          /\ index' = [index EXCEPT ![i].shows = editor[e].shows]
          /\ UNCHANGED nextId
       \/ /\ editor[e].visible /\ ~Listed(i)
          /\ index' = [index EXCEPT ![i] = [id |-> nextId, shows |-> editor[e].shows]]
          /\ nextId' = nextId + 1
       \/ /\ ~editor[e].visible
          /\ index' = [index EXCEPT ![i] = NoEntry]
          /\ UNCHANGED nextId
    /\ editor' = [editor EXCEPT ![e] = IdleEditor]
    /\ UNCHANGED <<service, content, cleaner, api, counts, doubtful>>

\* A call fails, or its answer is lost: the rest of the request is not done.
EditFails(e) ==
    /\ editor[e].pc # "idle" /\ faults < MaxFaults
    /\ faults' = faults + 1
    /\ editor' = [editor EXCEPT ![e] = IdleEditor]
    /\ doubtful' = doubtful \cup {i \in Items : Synchronising(e, i)}
    /\ UNCHANGED <<service, content, index, nextId, cleaner, api, edits, restarts>>

-----------------------------------------------------------------------------
(* runSearchCleanup *)

\* All copies are loaded.  What is visible from here on is remembered.
CleanStart(x) ==
    /\ cleaner[x].pc = "idle"
    /\ cleaner' = [cleaner EXCEPT ![x] =
         [pc |-> "cleaning", item |-> NoItem, left |-> {i \in Items : Listed(i)},
          ids |-> [i \in Items |-> index[i].id], steady |-> {i \in Items : Visible(i)}]]
    /\ UNCHANGED <<service, content, index, nextId, editor, api, counts, doubtful>>

\* Mutant: contents are looked up among the services.
OrphanUnlessService(i) == ~(i \in Services /\ Visible(i))
\* Mutant: a content that was published once is no orphan.
OrphanUnlessLive(i) == IF i \in Services THEN ~Visible(i) ELSE content[i].live = 0
\* isSearchDocumentOrphan
Orphan(i) == ~Visible(i)

CleanCheck(x, i) ==
    /\ cleaner[x].pc = "cleaning" /\ i \in cleaner[x].left
    /\ cleaner' = IF Orphan(i)
                  THEN [cleaner EXCEPT ![x].pc = "deleting", ![x].item = i]
                  ELSE [cleaner EXCEPT ![x].left = @ \ {i}]
    /\ UNCHANGED <<service, content, index, nextId, editor, api, counts, doubtful>>

\* Mutant: the copy is deleted by the item it is of.
SameItem(x, i) == TRUE
\* The copy is deleted by its _id: another one of the same item stays.
SameCopy(x, i) == index[i].id = cleaner[x].ids[i]

CleanDelete(x) ==
    LET i == cleaner[x].item IN
    /\ cleaner[x].pc = "deleting"
    /\ index' = IF SameCopy(x, i) THEN [index EXCEPT ![i] = NoEntry] ELSE index
    /\ cleaner' = [cleaner EXCEPT ![x].pc = "cleaning", ![x].item = NoItem, ![x].left = @ \ {i}]
    /\ UNCHANGED <<service, content, nextId, editor, api, counts, doubtful>>

\* All copies have been dealt with, or a call fails, or the process is gone.
CleanEnd(x) ==
    /\ cleaner[x].pc # "idle"
    /\ \/ cleaner[x].pc = "cleaning" /\ cleaner[x].left = {} /\ UNCHANGED faults
       \/ faults < MaxFaults /\ faults' = faults + 1
    /\ cleaner' = [cleaner EXCEPT ![x] = IdleCleaner]
    /\ UNCHANGED <<service, content, index, nextId, editor, api, edits, restarts, doubtful>>

-----------------------------------------------------------------------------
(* The API dies, and starts: it takes requests when all copies have been made.   *)
(* The clean-ups of its timer die with it, those that were started by hand go on. *)
Crash ==
    /\ restarts < MaxRestarts
    /\ restarts' = restarts + 1
    /\ api' = "seeding"
    /\ editor' = [e \in Editors |-> IdleEditor]
    /\ \E own \in SUBSET Cleaners :
         cleaner' = [x \in Cleaners |-> IF x \in own THEN IdleCleaner ELSE cleaner[x]]
    /\ doubtful' = {}
    /\ UNCHANGED <<service, content, index, nextId, edits, faults>>

\* seedDatabase: what was done to the fixtures is undone.
Seed ==
    /\ api = "seeding"
    /\ service' = [s \in Services |-> IF s \in Seeds
                     THEN [exists |-> TRUE, published |-> TRUE, title |-> 0] ELSE service[s]]
    /\ content' = [c \in Contents |-> IF c \in Seeds
                     THEN [NoContent EXCEPT !.status = "published", !.versions = 2,
                                            !.current = 2, !.live = 2]
                     ELSE content[c]]
    /\ api' = "clearing"
    /\ UNCHANGED <<index, nextId, editor, cleaner, counts, doubtful>>

\* rebuildSearchDocuments: nobody edits between its reads and its writes, so that the
\* copies to make are those of what is visible.
Clear ==
    /\ api = "clearing"
    /\ index' = [i \in Items |-> NoEntry]
    /\ api' = "inserting"
    /\ UNCHANGED <<service, content, nextId, editor, cleaner, counts, doubtful>>

\* insertMany.  The copies of one rebuild share an _id here: ids are compared per item.
InsertAll ==
    /\ api = "inserting"
    /\ index' = [i \in Items |-> IF Visible(i) THEN [id |-> nextId, shows |-> Shown(i)] ELSE NoEntry]
    /\ nextId' = nextId + 1
    /\ api' = "up"
    /\ UNCHANGED <<service, content, editor, cleaner, counts, doubtful>>

-----------------------------------------------------------------------------
\* A new database, and the API about to start.
Init ==
    /\ service = [s \in Services |-> NoService]
    /\ content = [c \in Contents |-> NoContent]
    /\ index = [i \in Items |-> NoEntry]
    /\ nextId = 1
    /\ editor = [e \in Editors |-> IdleEditor]
    /\ cleaner = [x \in Cleaners |-> IdleCleaner]
    /\ api = "seeding"
    /\ edits = 0 /\ restarts = 0 /\ faults = 0
    /\ doubtful = {}

Edit(e) ==
    \/ \E s \in Services, published \in BOOLEAN : CreateService(e, s, published)
    \/ \E s \in Services, published \in BOOLEAN : UpdateService(e, s, published)
    \/ \E s \in Services : PublishService(e, s)
    \/ \E s \in Services : UnpublishService(e, s)
    \/ \E c \in Contents : CreateContent(e, c)
    \/ \E c \in Contents : PushDraft(e, c)
    \/ \E c \in Contents, op \in {"schedule", "publish", "rollback"}, version \in 1..MaxVersions :
         FindContent(e, c, op, version)

\* A request that was taken goes on to its end.
GoOn(e) == ChangeContent(e) \/ SyncRead(e) \/ SyncWrite(e)

Clean(x) == CleanStart(x) \/ (\E i \in Items : CleanCheck(x, i)) \/ CleanDelete(x) \/ CleanEnd(x)

Start == Seed \/ Clear \/ InsertAll

Next ==
    \/ \E e \in Editors : Edit(e) \/ GoOn(e) \/ EditFails(e)
    \/ \E x \in Cleaners : Clean(x)
    \/ Crash
    \/ Start

Spec == Init /\ [][Next]_vars

\* Requests and a starting API go on; the timer starts a clean-up every week, and its
\* loop goes on.
FairSpec ==
    /\ Spec
    /\ \A e \in Editors : WF_vars(GoOn(e))
    /\ \A x \in Cleaners : WF_vars(Clean(x))
    /\ WF_vars(Start)

-----------------------------------------------------------------------------
(* Properties *)

TypeOK ==
    /\ service \in [Services -> ServiceRecord]
    /\ content \in [Contents -> ContentRecord]
    /\ index \in [Items -> EntryRecord]
    /\ nextId \in Nat \ {0}
    /\ editor \in [Editors -> EditorRecord]
    /\ cleaner \in [Cleaners -> CleanerRecord]
    /\ api \in {"up", "seeding", "clearing", "inserting"}
    /\ edits \in 0..MaxEdits /\ restarts \in 0..MaxRestarts /\ faults \in 0..MaxFaults
    /\ doubtful \subseteq Items

AtRest == api = "up" /\ \A e \in Editors : editor[e].pc = "idle"

\* Once its edits are synchronised, the search shows an item exactly if and as it is
\* published (searchSyncService.js 7-30), whatever clean-ups, other items and restarts at
\* any point do, unless two of its edits overlapped or a synchronisation failed since the
\* API started.
MatchesAtRest ==
    api = "up" =>
        \A i \in Items \ doubtful : (\A e \in Editors : ~Synchronising(e, i)) =>
            /\ Listed(i) <=> Visible(i)
            /\ Listed(i) => index[i].shows = Shown(i)

\* A clean-up removes no copy of an item that was published all the time since the
\* clean-up loaded it, even if other edits are under way.
CleanupSparesPublished ==
    [][\A x \in Cleaners : cleaner[x].pc = "deleting" /\ CleanDelete(x) =>
         cleaner[x].item \notin cleaner[x].steady]_vars

\* However edits overlap and fail, an item that stays unpublished leaves the search in
\* the end, because the clean-up comes every week.
StaleCopyGoes ==
    \A i \in Items : <>[]~Visible(i) => <>[]~Listed(i)

-----------------------------------------------------------------------------
(* Search is what all of this promises.  An edit is due until its             *)
(* synchronisation has written the copy, an item in doubt is lost, and nobody  *)
(* searches while the API is down.                                             *)

Published == [i \in Items |-> IF Visible(i) THEN {Shown(i)} ELSE {}]
Found == [i \in Items |->
    IF api = "up" /\ i \notin doubtful /\ Listed(i) THEN {index[i].shows} ELSE {}]
Due == {i \in Items \ doubtful : \E e \in Editors : Synchronising(e, i)}

Promise == INSTANCE Search WITH
    Versions <- Nat, Fixtures <- Seeds, open <- api = "up", published <- Published,
    found <- Found, due <- Due, lost <- doubtful

\* However edits, clean-ups, failing calls and restarts interleave, what the search shows
\* changes only as Search allows: it follows an item's edits one by one, from what was
\* published before an edit to what is published after it (searchSyncService.js), and a
\* clean-up (searchCleanup.js) takes nothing out but what was withdrawn.
SearchKept == Promise!Spec

-----------------------------------------------------------------------------
(* What a test's name says and an interleaving breaks. *)

\* The search shows nothing that is not published when no edit is under way.
OnlyPublishedIsListed == AtRest /\ faults = 0 => \A i \in Items : Listed(i) => Visible(i)
=============================================================================
