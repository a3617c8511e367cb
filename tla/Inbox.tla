-------------------------------- MODULE Inbox --------------------------------
(***************************************************************************)
(* Announcements and messages (inboxService.js): staff write them for roles  *)
(* or for a recipient and for a time to come, users mark them as read.  The  *)
(* roles of a user are in the token and never change.                        *)
(***************************************************************************)
EXTENDS Integers

CONSTANTS
    Messages, SeedMessage,
    Users, Roles,
    RolesOf,        \* the roles of each user
    SeedReaders,    \* who has read the message of the fixtures
    MaxClock,       \* bound: the clock stops here
    MaxRestarts,    \* bound: restarts in a behaviour
    Nobody

VARIABLES
    clock,
    message,    \* messages
    listed,     \* what each user's inbox page shows: the answer to its last request
    restarts    \* how much of MaxRestarts is used

vars == <<clock, message, listed, restarts>>

Unwritten == [stored |-> FALSE, publishAt |-> 0, roles |-> {}, recipient |-> Nobody, readBy |-> {}]
MessageRecord ==
    [stored : BOOLEAN, publishAt : 0..MaxClock, roles : SUBSET Roles,
     recipient : Users \cup {Nobody}, readBy : SUBSET Users]

-----------------------------------------------------------------------------

\* buildInboxVisibilityFilter: a message to no role is for everybody, even one to a
\* recipient; that of the fixtures has no roles field, which is the same.
Visible(m, u) ==
    /\ message[m].stored
    /\ message[m].publishAt <= clock
    /\ \/ message[m].recipient = u
       \/ message[m].roles = {}
       \/ message[m].roles \cap RolesOf[u] # {}

\* createStaffMessage
Create(m, at, roles, to) ==
    /\ ~message[m].stored
    /\ message' = [message EXCEPT ![m] =
         [stored |-> TRUE, publishAt |-> at, roles |-> roles, recipient |-> to, readBy |-> {}]]
    /\ UNCHANGED <<clock, listed, restarts>>

\* listInbox, when the page opens and after a mark
List(u) ==
    /\ listed' = [listed EXCEPT ![u] = {m \in Messages : Visible(m, u)}]
    /\ UNCHANGED <<clock, message, restarts>>

\* Mutant: $set instead of $addToSet
OnlyHim(m, u) == [message EXCEPT ![m].readBy = {u}]

Marked(m, u) == [message EXCEPT ![m].readBy = @ \cup {u}]

\* markInboxRead from a page that may be old: the filter is part of the update.
MarkRead(m, u) ==
    /\ m \in listed[u]
    /\ Visible(m, u)
    /\ message' = Marked(m, u)
    /\ UNCHANGED <<clock, listed, restarts>>

\* seedDatabase publishes its message anew, and only the fixtures' readers have read it.
Restart ==
    /\ restarts < MaxRestarts /\ restarts' = restarts + 1
    /\ message' = [message EXCEPT ![SeedMessage].publishAt = clock,
                                  ![SeedMessage].readBy = SeedReaders]
    /\ UNCHANGED <<clock, listed>>

Tick ==
    /\ clock < MaxClock
    /\ clock' = clock + 1
    /\ UNCHANGED <<message, listed, restarts>>

-----------------------------------------------------------------------------

Init ==
    /\ clock = 0
    /\ message = [m \in Messages |->
         IF m = SeedMessage
         THEN [Unwritten EXCEPT !.stored = TRUE, !.readBy = SeedReaders]
         ELSE Unwritten]
    /\ listed = [u \in Users |-> {}]
    /\ restarts = 0

Next ==
    \/ \E m \in Messages, at \in 0..MaxClock, roles \in SUBSET Roles, to \in Users \cup {Nobody} :
         Create(m, at, roles, to)
    \/ \E u \in Users : List(u) \/ \E m \in Messages : MarkRead(m, u)
    \/ Restart
    \/ Tick

Spec == Init /\ [][Next]_vars

-----------------------------------------------------------------------------
(* Properties *)

TypeOK ==
    /\ clock \in 0..MaxClock
    /\ message \in [Messages -> MessageRecord]
    /\ listed \in [Users -> SUBSET Messages]
    /\ restarts \in 0..MaxRestarts

\* Users who mark one message at the same time from old pages do not undo each other,
\* and what one of them has read stays read.  Only a restart forgets, of the message of
\* the fixtures, who has read it.
ReadsAreKept ==
    [][\A m \in Messages : \/ message[m].readBy \subseteq message'[m].readBy
                           \/ m = SeedMessage /\ restarts' # restarts]_vars
=============================================================================
