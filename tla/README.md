# HomeCareOps: a TLA+ verification of the API and its pages

HomeCareOps is an Express API over MongoDB, with a React frontend, through which customers book home
services and staff run capacity, tickets, media and content. This directory holds a TLA+ model of
the parts that keep state, TLC configurations that check it on small instances, and TLAPS proofs of
the properties that matter most, for instances of every size.

Paths below are relative to the repository's root (`src/` here); `backend/src` is the API,
`frontend/src` the pages.

## 1. The system

One Node process serves HTTP requests and runs two timers (expiry of pending orders, clean-up of the
search index). Two scripts, `retention:cleanup` and `search:cleanup`, are processes of their own
that an operator starts. All durable state is in MongoDB, except for media files and, when the
database fails, the rate limiter's counters. No operation uses a MongoDB transaction: each call
reaches one document and is atomic there, and every `await` is a place where other requests get in
between. At each start `seedDatabase` writes its fixtures over the documents that have their ids. A
page is a process of its own: it sends calls that overlap, and their answers arrive in any order or
not at all.

| component (code) | state | operations | meets |
|---|---|---|---|
| Orders and slots (`services/orders`, `ordersRepository`) | `orders`, `capacity_slots` | create, cancel, complete an order; create, update, delete a slot; expire pending orders | quote (price of an order), settings, the seeding, the slot form of the frontend |
| Quote and pricing (`services/quote`, `pricing.js`, `services/bundles`) | none | compute and sign a quote | catalogue, orders, the checkout and compare pages |
| Tickets (`services/tickets`, `ticketsRepository`) | `tickets` | create, change status, hold, resolve | SLA calendar, orders, media |
| SLA calendar (`sla.js`) | none | deadline in business minutes | tickets |
| Retention (`scripts/retentionCleanup.js`) | `tickets`, `media_metadata`, files | one pass over old tickets | tickets, media |
| Media (`services/media`, `mediaRepository`) | `media_metadata`, files | upload with deduplication, delete | tickets, reviews, content, retention |
| Content (`services/content`, `contentRepository`) | `content_versions` | draft, schedule, publish, roll back | media, search |
| Catalogue and questions (`services/catalog`) | `services`, `bundles`, `service_questions` | create, update, publish, unpublish; ask, answer, publish | search, quote, reviews, favourites |
| Search (`services/search`, `scripts/searchCleanup.js`, `workers`, `db.js`) | `search_documents` | synchronise one item, rebuild, clean up | content, catalogue |
| Reviews (`services/reviews`, `services/moderation`) | `reviews` | submit, moderate | orders, media, bundles |
| Inbox (`services/inbox`) | `messages` | post, list, mark read | users |
| Sessions (`services/auth`, `authController`) | `users`, `login_attempts`, `refresh_tokens` | register, log in, refresh, log out | every request |
| Middleware (`middleware/`) | rate limit counters | authenticate, limit, validate | every request |
| Customer lists (`customerController.js`) | `favorites`, `compare_lists` | add, remove, list; set the compare list | catalogue, the heart buttons |
| Page session (`api/client.ts`, `useAuth.tsx`) | cookies, the user shown | bootstrap, refresh after each 401, log in, log out | sessions, rate limit |
| Checkout and compare pages (`CheckoutPage.tsx`, `ComparePage.tsx`, `useDebouncedQuote.ts`) | draft, form, quote shown | fill in, ask for a quote after a pause, abort | quote, catalogue |
| Audit, profile, administration, utilities | single documents | append or update | - |

What is hard, by component:

- **Orders and slots.** A seat is a counter in one document and its owner is another document.
  Booking takes the seat two calls before the order exists; cancelling and expiring claim the order
  first and give the seat back in a second call. Customers, several overlapping runs of the worker
  (`setInterval` does not wait for the previous run), staff with an outdated form, failing calls and
  restarts meet on the same two documents. It is correct if no seat is sold twice or given back
  twice, if claims that come late match nothing, and if expired orders and their seats come back on
  sale.
- **Quote and pricing.** Discounts, surcharges and tax are applied in an order, to bundles that
  staff recompose between the two reads. It is correct if a bundle stays a discount.
- **Tickets.** A status request writes what it computed from a ticket it read before; the outcome is
  protected by a filter in one of the writes only. It is correct if outcomes stay, deadlines count
  each pause once, and the SLA clock stands still only while the customer is waited for.
- **SLA calendar.** Closing times, days without hours, summer time, and midnight printed as 24. It
  is correct if a deadline is an open minute, the promised number of them away.
- **Retention.** A pass works through a list made at its start. It is correct if evidence goes only
  when it is old enough and not under a hold.
- **Media.** References are looked for before the delete, documents and files are two stores. It is
  correct if what is referenced exists, and documents and files agree.
- **Search.** The index is a copy that overlapping synchronisations write. It is correct if it ends
  up listing exactly what is published.
- **Sessions and rate limits.** Counters and checks that are read before they are written; a limiter
  that starts again from zero when the database fails. They are correct if the lock and the limit
  are neither late nor early beyond what overlapping requests explain, and a session that was ended
  stays so.
- **Reviews, questions, inbox.** One review per order, in a window of days, with moderators and
  restarts that write the fixtures back. They are correct if nothing is shown that nobody vetted,
  and nobody's reads get lost.
- **Pages.** Several answers 401 start several refreshes with one token; forms change while a quote
  is computed. They are correct if a page comes to rest, neither drops a session that could go on
  nor shows one that is gone, and shows the quote of the form as it is.

`PROJECT.json` lists every hazard at its line, with the properties that cover it or, where the code
does go wrong there or nothing depends on it, a note that says so.

## 2. Modules

| module | models | extends or instantiates |
|---|---|---|
| `Booking` | orders, slots, the expiry worker, the slot form, restarts with seeding | instance of `Seats` |
| `Seats` | what customers and staff are promised about seats: the abstract specification | - |
| `MCBooking` | small instances of `Booking` | `Booking` |
| `BookingProofs` | types; the seat invariant and what follows; what is lost without faults and with them; closed orders, time-outs; that `Booking` implements `Seats` | `Booking` |
| `Tickets` | tickets, status, hold, resolution, the retention script's pass | - |
| `MCTickets` | small instances of `Tickets` | `Tickets` |
| `TicketProofs` | types, outcome, hold, retention, pauses | `Tickets` |
| `Media` | media documents and files: uploads, deletes, the documents that refer to media, the retention script's reference counts | - |
| `MCMedia` | small instances of `Media` | `Media` |
| `MediaProofs` | types, what deletes and clean-ups spare, documents and files, counts | `Media` |
| `SearchIndex` | services and contents, the synchronisation of their copies, the weekly clean-up, the start of the API | instance of `Search` |
| `Search` | what visitors and editors are promised about the search: the abstract specification | - |
| `MCSearchIndex` | a small instance of `SearchIndex` | `SearchIndex` |
| `SearchProofs` | types, what a clean-up spares; that `SearchIndex` implements `Search`; what the search shows at rest | `SearchIndex` |
| `RateLimiter` | the limiter: database, memory, the switch between them | - |
| `Accounts` | registration, login with its lock, refresh tokens, logout | - |
| `AccountProofs` | types, sessions, the lock | `Accounts` |
| `Reviews` | reviews and questions with moderation, and the staff's and restarts' edits around them | - |
| `ReviewProofs` | types, and that nothing unvetted shows | `Reviews` |
| `Inbox` | messages, who sees them, who read them | - |
| `Shortlist` | favourites and the compare list with the buttons that write them | - |
| `Server` | the five parts of the API above, which share no state, in one process | `RateLimiter`, instances of the other four |
| `MCServer` | a small instance of `Server` | `Server` |
| `ServerProofs` | types; the limit, the inbox and the lists; sessions, lock and reviews carried over from the proofs of their parts | `Server`, instances of `AccountProofs` and `ReviewProofs` |
| `SlaCalendar` | the count of business minutes | - |
| `Browser` | a page's session and the API as it meets it | - |
| `Pricing` | the price of a cart: operators only | - |
| `Checkout` | the checkout and compare pages, their hook, the quote handler, edits of the catalogue | `Pricing` |
| `MCCatalogue` | a small catalogue | - |
| `MCCheckout` | `Checkout` with it | `MCCatalogue`, `Checkout` |
| `Pages` | the three parts a customer's pages meet, which share no state: session, prices, deadline | `Browser`, instances of `Checkout` and `SlaCalendar` |
| `MCPages` | a small instance of `Pages` | `Pages`, `MCCatalogue` |
| `PagesProofs` | types, the session, the quote that is shown, the prices of bundles, the deadline | `Pages` |

### How a module corresponds to the code

Node runs one callback at a time, so the code between two awaits is one step. A request is a process
whose `pc` names the call it waits for, with the locals that later code uses: `booking[o]` is the
`createOrder` request that makes order `o`, `sweep[w]` one run of `releaseExpiredPendingOrders` with
the `now` it took when it started, `clerk[c]` one `updateTicketStatus` request with the ticket it
read. Steps are named after the calls:

- `createOrder`: `BookRead` (slot found), `BookReject` (quote invalid, not serviceable, another
  signature or total than the customer saw), `BookDecrement` or `BookUnavailable`, `BookSettings`
  (deadline), `BookInsert`, and after a failed insert `BookRefund`.
- `cancelOrderById`: `CancelRead`, `CancelClaim` (filtered update), `CancelRelease`.
- The worker: `SweepStart`, `SweepFind` (`findOne`, earliest deadline first), `SweepClaim`,
  `SweepRelease`, and again.
- `updateTicketStatus`: `StatusRead`, `StatusWrite`. `resolveTicket`: `ResolveRead`, `ResolveCheck`
  (attachments exist, the outcome is dated), `ResolveWrite`.
- The retention script, as far as tickets see it (`Tickets`): `RunStart` (the list), `RunClean` (one
  ticket), `RunEnd`. The media it releases are `Media`'s: for each ticket `CleanPick`, for each of
  its mentions `CleanFind`, `CleanDecrement`, `CleanReread`, and for a count that is used up
  `CleanAsk` (one query per collection), then `CleanReset` or `CleanDelete` and `CleanRemove` (the
  file); `CleanMark` empties the ticket.
- `uploadMedia`: `UploadFind` (by hash), then `UploadCount`, or `UploadWrite` (the file, which must
  not be there) and `UploadInsert`, and after a duplicate key `UploadRecount`.
- `deleteMediaById`: `DeleteFind`, `DeleteAsk` for each collection in any order (the code asks all
  three at once), `DeleteRefuse` or `DeleteDocument` and `DeleteFile`.
- Whoever refers to media (a ticket, a review, a content by its list, or a content by a picture in
  its body): `AttachCheck` looks the media up, `AttachInsert` stores the reference.
- An edit of a service writes it at once (`CreateService`, `UpdateService`, `PublishService`,
  `UnpublishService`); one of a content writes at once (`CreateContent`, `PushDraft`) or reads first
  (`FindContent`, `ChangeContent`). `SyncRead` and `SyncWrite` follow each of them.
- `runSearchCleanup`: `CleanStart` (all copies), `CleanCheck` and `CleanDelete` per copy,
  `CleanEnd`. A start of the API: `Seed`, `Clear`, `InsertAll`.
- The limiter: `Arrive` (in memory it ends there), `Count` (the database's answer) or `Fallback`
  (the `catch` that switches to memory, with a call that counted or did not).
- Login: `LoginCheck` (the lock), `Compare` (the password), then `Clear` and `Issue`, or `FailRead`
  and `FailWrite`. Refresh: `RefreshFind`, `RotateRevoke`, `Issue`. `Register` and `Logout` are one
  call each.
- `createReview`: `Submit` (order and window), `GatherServices` (the bundle as it is now),
  `InsertReview` under the unique index, or `Refuse`. Moderation, questions and the inbox write with
  one call each, filtered or not as the code does.
- The heart button: `Press`, `Find` (is the service on sale?), `Store`, `Added`; any failure is
  `AddFails`, which sends a removal. The favourites page: `Drop`, `Remove`, `Removed`, `List` and
  `Join`. The compare list: `SetCompare`, `Count`, `Write`.
- `addBusinessMinutes`: `Call`, `Seek` minute by minute to the first open one (`Found` or `GiveUp`),
  `Add` minute by minute, `Return`.
- A page's session: calls are records in a bag, sent with the cookies of that moment, answered by
  the API's actions (`Refuse`, `Turn`, `Serve...`, `Rotate`) or lost, and taken by `AfterRefresh`,
  `AfterMe`, `AfterLogin`, `AfterLogout` and `AfterData`, which send further calls as `useAuth.tsx`
  and the 401 hook of `client.ts` do.
- The checkout and compare pages: one action per answer that arrives and per change of the form,
  each followed by `Render` (the hook's effect: stop the timer, abort, start again); `TimerFires`,
  `AnswerArrives`, `CallFails`. The handler reads bundles (`ReadBundles`) and then services
  (`ReadServices`) and computes `Pricing!Quote`.

In `Booking` a failing call is one of three faults, which a constant switches on: `error` (the call
did nothing), `lostAck` (the write happened, the handler sees an error) and `crash` (the process
dies; `Restart` drops all requests and seeds). Elsewhere a fault (`...Dies`, `...Fails`,
`EditFails`, `CleanEnd`, `Lose`) ends a request or a run between any two of its calls: what a failed
call, a lost answer and a killed process have in common.

History variables record what no document holds, and no action's guard reads them: `granted`,
`drift` and `seat` of `Booking` how many seats staff meant a slot to have, why its counter may no
longer say so, and what became of each order's seat; `promised`, `wait` and `heldSince` of `Tickets`
the deadlines and holds, its `marked` since when a status request said "resolved", and its `crossed`
the tickets that a status request wrote while another was at them; `held` and `removals` of `Media`
the references there were when a delete or a clean-up began and the deletes that a document met;
`steady` of `SearchIndex` the items that stayed published since a clean-up began, and `doubtful`
those that were edited while an earlier edit was yet to be synchronised, or whose synchronisation
failed, since the API started; `made`, `passed`, `turned` and `memories` of `RateLimiter` what was
answered; `guesses`, `tried`, `counted`, `mixed`, `forked` and `ended` of `Accounts` the passwords
tried and the sessions; `told` and `withdrawn` of `Shortlist` what the customer read and the staff
did; `raced`, `limited`, `crossed`, `left` and `killed` of `Browser` which of the page's calls met,
and whether the user left. (One exception is a bound: `Accounts` counts its guesses to stop.)

What the models abstract: in `Booking` the outcome of a quote is left open (`BookReject` may happen
or not), and so is whether signature or total agree with what the customer was shown: both are
compared over values of one request, which nothing else writes. Start times and prices are therefore
not kept; staff who move a slot (`OpsSlotsPage.tsx`) change nothing that `Booking` looks at, since
`decrementCapacitySlot` filters on the id and the remaining capacity only. A ticket's attachments
are present or gone; the deadline of a ticket is a function of its creation time, which
`SlaCalendar` computes; a status is one of a small set. Nothing under `src/` writes the states
"confirmed" and "in_progress" that cancelling and completing expect: `Confirm` is an external
action, switched by `Confirmations`. A picture is the hash of its content; MIME checks and
compression come before `UploadFind`. Each ticket refers to one media, in one or both of its lists,
and which tickets are due is left open in `Media`. The seeded media document, which never had a
file, is left out. A copy in the index is the edit or the version it shows; that a live version is
missing from its content's versions cannot happen, as nothing removes versions and
`assertVersionExists` precedes each change, so that branch of the synchronisation has no action. A
review's or a question's text is whether it contains a sensitive term. Money is in cents and prices
are such that every division is exact, where the program uses floating point. A page's request whose
connection breaks is taken to have ended.

## 3. Runs

All runs disable the deadlock check: the clock stops at its bound, requests are finite in number and
users owe nothing, so a behaviour may really stop.

| run | instance | what it shows |
|---|---|---|
| `booking_faults` | 1 slot of 1 seat, 2 orders, 2 cancellations, 2 overlapping worker runs, confirmations, 2 faults of any kind | no oversell, no double return, no loss without a fault, and with faults no more than one seat for each, or those in hand for a crash; closed orders stay closed, only due pending orders time out |
| `booking_staff` | the seeded slot and order, 1 more order, 2 editors, 1 cancellation, 1 worker run, 2 faults of any kind | every step is one that `Seats` promises, where the stale slot form, the fixtures and an insert whose answer is lost blur the books |
| `booking_liveness` | 2 orders, 1 cancellation, 2 overlapping worker runs, 1 failed call or restart | an unconfirmed order does not stay pending past its deadline for ever; without faults the seat of every cancelled order is on sale again in the end |
| `tickets` | a new ticket and the seeded one, 2 status requests that overlap at the seeded one, "resolved" among the statuses asked for, 2 agents, 2 clean-ups, 1 restart, 4 ticks | outcomes never change; evidence goes only from a ticket with an outcome, the retention period after the outcome or a status request said it was resolved, and not under an earlier hold; the deadline counts each pause once, and a ticket is paused exactly while waiting, unless two status requests were at it at once |
| `tickets_unresolved` | status "resolved" asked for, 1 clean-up | **violated**: the clean-up dies on a resolved ticket without outcome |
| `media` | 1 picture whose document is replaced once, 2 uploads, 2 deletes, 2 clean-ups, 2 tickets, a review and a content with the picture in its body, 1 fault | a document has its file although documents of the same picture come and go, unless one of them was deleted twice at once; no file without a document unless something failed; a delete spares what was referred to when it began, a clean-up what has been since before it started; counts are positive unless a run was killed |
| `media_attach` | 1 delete, a ticket that is just being stored | **violated**: a stored reference to a deleted media |
| `search` | 2 services, 1 content with 2 versions, 2 overlapping edits of 3, 1 fault, 1 restart, 1 clean-up again and again | copies of what is not published go in the end; a clean-up removes no copy of what was published all along; every step is one that `Search` promises, so that of an item whose edits did not overlap or fail since the API started the search shows what is published, or what was until the last edit arrives, whatever happens to other items |
| `search_overlap` | 2 overlapping edits | **violated**: an unpublished service is listed at rest |
| `server` | five subjects, one per behaviour: 2 keys and 5 requests at the limiter, 2 windows, 1 failing call, 1 restart; 2 overlapping requests of one account, 4 guesses and tokens; 2 submissions for 2 orders, 2 edits, verdicts or restarts; 2 readers and 2 messages; 2 services, 2 overlapping clicks, 2 withdrawals, 1 lost call | the limit is exact up to a switch to memory; the lock is exact up to what overlaps; sessions that were ended stay so; nothing unvetted shows; reads are kept; a customer's lists hold what the customer was told |
| `pages` | three subjects, one per behaviour: a page with two clicks of its user, a limit of 2, new windows again and again, a lost answer; the checkout and compare pages with 1 change of the form, 1 of the catalogue, 1 failing call; every deadline from 21 minutes over three days with a change of the clocks | a page comes to rest once a window lasts for as many calls as the limit allows, and otherwise only a page without user and session goes on; it is honest about its session; it shows the quote of the form as it is, and settles on it; a bundle is never dearer than its parts; deadlines count the open minutes |
| `checkout_unplaceable` | the checkout reached from a service's page | **violated**: a page at rest with slot and quote that cannot place the order |

The four violated runs each check a statement of a test, a message or a page of the repository that
a sequence or an interleaving of requests breaks; `PROJECT.json` quotes the lines under "findings".
The first of them is about every clean-up, the last about every customer who comes from the
catalogue; the other two need a race.

**One run, several subjects.** `server` and `pages` check parts that share no state in one run: the
initial state chooses the subject, and only its variables ever move. No interleaving of unrelated
parts is explored, and each part's states are those it has alone. The theorems are about
`ServerSpec` and `PagesSpec`, in which the steps of the parts interleave as they like.

More races that the same models contain, without a run of their own:

- two status requests that overlap leave an open ticket paused (`ticketsService.js:190`:
  `WaitingIsPaused` without the exception for `crossed` tickets);
- a clean-up that finds the copy of a withdrawn item before the withdrawal is synchronised, and is
  slow to delete it, deletes the copy of an item that was published again meanwhile: the upsert
  keeps the `_id` of the copy it finds (`searchSyncService.js:29`; `SearchKept` if an item were
  doubtful only when two edits were between the reading and the writing of its copy at once);
- a status request that read a ticket before its resolution reopens it (`ticketsService.js:203`: the
  outcome stays, the status does not);
- a legal hold set while a clean-up is at work does not stop it (`retentionCleanup.js:101`);
- of two uploads of one picture at once the second fails on the first one's file
  (`mediaService.js:62`: `UploadWrite` with `AlreadyOnDisk`) instead of being deduplicated;
- two refreshes with one token both get a new one (`authService.js:287`: `forked`), and a page whose
  calls overlap may so throw away its own session (`useAuth.tsx:80`: `raced`);
- a page without a session goes on refreshing and logging out until it meets the rate limit
  (`useAuth.tsx:76`), and for ever if each window ends before its calls have used the limit up:
  `SessionComesToRest` with `<>[]Quiet` alone is violated;
- staff move a slot while a customer books it: the order keeps the start time that was read first,
  and no handler reads the slot's again (`ordersService.js:92`).

What reading the pages showed besides, and the models take as it is: a slot's time goes into the
`datetime-local` field in UTC and is read back as local time (`Reread` in `Checkout`); the checkout
shows `data.total` where the API answers `totals.total`; `toApiError` drops the alternatives that a
refused booking offers; the heart button never removes a favourite of a service on sale, since it
only ever adds; the compare buttons keep a list of their own, and no page calls `setCompare`.

**Bounds.** One slot with one seat and two customers is the smallest instance in which customers
compete, and slots do not interact. Two cancellations and two worker runs give every pair of
claimants of one order; three claimants add no new pair. Two faults in `booking_faults` suffice to
fail the refund after a failed insert, or to crash after a lost answer. `MaxClock` of one or two
ticks with a timeout of one gives orders that are due, not due and due again after a confirmation. A
retention period of one tick and a clock of four gives a ticket that is too young, old enough, and
touched again, and pauses that follow each other. One picture is where uploads and deletes meet. A
service and a content are the two kinds of item, and items meet only in a clean-up's list; two
versions allow a draft after a publication and a return to the first. A limit of one for members and
of two for visitors, with windows of two ticks, gives requests before, at and over the limit on both
sides of a border. A login window and a token's life of one tick let failures and tokens grow old
between two steps. `ReviewDays` is 0 and a day has two ticks: the window closes at the end of the
day of completion, and what matters is which of two days a moment is in. Three days of six minutes
contain an open, a half-open and a closed day, midnight and the change of the clocks. Requests,
workers, agents and runs are symmetric where no liveness is checked.

Four state constraints cut what would only multiply states, and each is named in its MC module.
`OneInPlay` (`MCTickets`) lets one ticket be touched per behaviour, as tickets meet only in a
clean-up's list, which treats them one by one, and the last ticks serve pauses only. `FewAtOnce`
(`MCTickets`) lets two status requests overlap once, at the seeded ticket and while nobody else is
at work; what follows, a restart included, is explored. `FewClaims` (`MCTickets`) lets a status
request ask for "resolved" at the customer's ticket, beside one agent and one clean-up: what such a
request does to the clean-up's list needs no second one. `FewAtWork` (`MCMedia`) admits any two
requests or runs at once, of any kinds: every hazard of `Media` is one of a pair; and the third
upload, which it takes for a duplicate key, meets uploads and deletes only. None of them is in a run
with liveness properties. `Accounts` counts guesses and tokens together, `Reviews` edits, verdicts
and restarts together, for the same reason. The limiter of `Browser` begins a new window as often
as it likes, but while calls are under way only after the user's first click and with `MaxCalls`
calls and lost answers at most: the page that breeds calls passes through such states again and
again, so that the bound leaves the endless behaviour in.

**Fairness.** `FairSpec` of `Booking` assumes weak fairness of each step of a request and of a
worker run (the event loop resumes every handler whose call was answered), of `SweepStart`
(`setInterval` fires each minute) and of `Tick` (time passes). Clients and staff owe nothing, and
faults need not happen. `SeatComesBack` speaks of behaviours without faults on purpose: a crash
between the claim of an order and the release of its seat loses the seat for good, because
`capacityReleasedAt` is already set. `Tickets` and `Media` have no fairness: nothing in the
repository schedules the retention script. `FairSpec` of `SearchIndex` assumes that requests that
were taken and a starting API go on, and that clean-ups come again: the scheduler is enabled by
default and fires weekly. `FairSpec` of `Browser` assumes that the API and the page go on with their
calls, not which call is next; that of `Checkout` that the timer of the hook fires and quotes are
answered or aborted. In neither does the user owe anything. That a minute lasts for as many calls as
the limit allows is no fairness but a matter of speed, and nothing in the code ensures it:
`PageComesToRest` therefore has it as a hypothesis of its first half (some window is the last one
for as long as it takes), and its second half says what is left without it: only a page that shows
no user and has no session to refresh goes on. That users stop clicking in the end is the bound
`MaxClicks`. `RateLimiter`, `Accounts`, `Reviews`, `Inbox` and `Shortlist` have no fairness: clients
decide when they come.

**What holds only with a caveat.** `NoOversell` excludes slots whose counter was overwritten
(`drift`): a form that was filled in before the counter changed (`OpsSlotsPage.tsx` sends the
counter it was filled with), the seeding, and an insert that stored the order but reported an error.
`SeatsKept` blurs those slots in `Seats` for the same reasons. `NoSeatLost` is about behaviours
without faults: `findSettings` failing after the decrement is outside the try block and loses the
seat. `DueCountsPauses` and `WaitingIsPaused` leave out tickets that a status request wrote while
another was at them. `EvidenceKeptForRetention` takes a status request that asks for "resolved" at
its word, as the script does: such a ticket is on the clean-up's list by its last update, may be
given its outcome while the clean-up runs, and then loses its evidence although the outcome is
young. Before it has an outcome its lists stay, because the clean-up dies on them
(`RetentionNeverDies`). `DocumentHasFile` excludes pictures of which a document was deleted twice at
once: the slower of the two removes the file of a new upload, even if its `deleteOne` matched
nothing. `NoStrayFile` is about behaviours without faults: a file whose insert failed stays, and
fails every later upload of that picture. A ticket being cleaned still refers to its media when the
script asks who does, so that a run which overlaps no other always resets the count and deletes
nothing: the media of the last ticket that lists it stays for good, and only overlapping runs take
the deleting branch. They may delete what only the body of a content shows, because the script does
not ask for `mediaRefs`; `CleanupSparesReferences` excludes that. `Search` promises nothing of items
that are `doubtful`: a copy that an edit failed to write, or that an overlapping edit overwrote,
comes only with the next edit or restart (from which on nothing is doubtful), and `StaleCopyGoes`
says only that copies which should not be there go. `LockoutIsExact` counts one more guess for each
other login in flight, because the lock is looked at before the password is compared, and speaks of
failures that do not overlap in the database. `SessionsEnd` excludes sessions that two refreshes
renewed at once (`forked`). `LimitIsExact` grants a limit more for each memory store the process
began. `OnlyVettedShows` excludes the fixtures' own review, which every restart approves again.
`SessionIsHonest` excuses a page whose refreshes raced, met the limit or lost an answer, one where a
logout met a login, and one whose user left by a logout that met a refresh. `ListsAreHonest` speaks
of clicks on a service that met no other. `QuoteSettles` ends in the quote of the form or in an
error that is shown.

## 4. Proofs

TLAPS checks the following for every value of the constants that satisfies the named assumptions of
each module: ids and null values are distinct, fixtures are within the sets, `Orders` is finite
(`SetsAssumption`, `KeysAssumption`); bounds, limits and times are numbers, the lock's threshold and
window are not 0 (`NumbersAssumption`, `LimitsAssumption`, `BoundsAssumption`, `BrowserAssumption`,
`CalendarAssumption`); a cart is not empty and what is unset is no id (`CatalogueAssumption`);
prices are whole cents, the components of a bundle are a list, and neither a discount nor the tax
rate is negative (`DocumentsAssumption`: no endpoint writes either of the two, they are what the
seed gives them, 10 %, 8.75 % and 0). What `Accounts`, `Reviews`, `Inbox` and `Shortlist` need of
their constants is assumed where they are put together (`AccountsAssumption`, `ReviewsAssumption`,
`InboxAssumption`, `ListsAssumption` of `Server`); the proofs about `Accounts` and `Reviews` by
themselves have it as hypotheses (`NumbersAreNumbers`, `LimitsArePositive`, `FixturesFit`). The runs
satisfy all of them: TLC evaluates the assumptions at each start.

| theorem | statement |
|---|---|
| `BookingTypes` | `Spec => []TypeOK` |
| `SeatSafety` | `Spec => [](TypeOK /\ SeatInv)` |
| `SlotsNeverOversold` | `Spec => []NoOversell` |
| `SeatsReturnedOnce` | `Spec => []SeatReturnedOnce` |
| `SeatsNeverLost` | `Spec => []NoSeatLost` |
| `ClosedForGood` | `Spec => ClosedStaysClosed` |
| `TimeoutsAreDue` | `Spec => OnlyDuePendingTimesOut` |
| `FaultsCostLittle` | `Spec => FaultsCostTheirSeatsOnly` |
| `BookingKeepsThePromise` | `Spec => SeatsKept`, that is, `Booking` implements `Seats` |
| `TicketTypes` | `Spec => []TypeOK` |
| `OutcomeIsImmutable` | `Spec => OutcomeNeverChanges` |
| `HoldProtects` | `Spec => HoldBeforeRunProtects` |
| `EvidenceIsRetained` | `Spec => EvidenceKeptForRetention` |
| `PausesAreCounted` | `Spec => []DueCountsPauses` |
| `WaitingStopsTheClock` | `Spec => []WaitingIsPaused` |
| `MediaTypes` | `Spec => []TypeOK` |
| `DeletesSpare` | `Spec => []DeleteSparesReferences` |
| `CleanupsSpare` | `Spec => []CleanupSparesReferences` |
| `DocumentsHaveFiles` | `Spec => []DocumentHasFile` |
| `FilesAreClaimed` | `Spec => []NoStrayFile` |
| `CountsStayPositive` | `Spec => []CountStaysPositive` |
| `SearchTypes` | `Spec => []TypeOK` |
| `CleanupSpares` | `Spec => CleanupSparesPublished` |
| `SearchKeepsThePromise` | `Spec => SearchKept`, that is, `SearchIndex` implements `Search` |
| `PromiseIsTruthful` | `SearchKept => []Promise!Truthful` |
| `SearchMatches` | `Spec => []MatchesAtRest` |
| `LimiterTypes` | of `RateLimiter`: `Spec => []TypeOK` |
| `LimitIsKept` | of `RateLimiter`: `Spec => []LimitIsExact` |
| `AccountTypes` | of `Accounts`: `Spec => []TypeOK` |
| `SessionsAreBounded` | of `Accounts`: `Spec => []SessionsEnd` |
| `LocksAreEarned` | of `Accounts`: `Spec => [](LockIsEarned /\ FailuresAllCount)` |
| `LocksAreExact` | of `Accounts`: `Spec => []LockoutIsExact` |
| `ReviewTypes` | of `Reviews`: `Spec => []TypeOK` |
| `OnlyTheVettedShow` | of `Reviews`: `Spec => []OnlyVettedShows` |
| `ServerTypes` | `ServerSpec => []AllTypesOK` |
| `LimitStaysExact` | `ServerSpec => []LimitIsExact` |
| `LockoutStaysExact` | `ServerSpec => []LockoutIsExact` |
| `SessionsStayBounded` | `ServerSpec => []SessionsEnd` |
| `VettedStayAlone` | `ServerSpec => []OnlyVettedShows` |
| `ReadsStay` | `ServerSpec => ReadsAreKept` |
| `ListsStayHonest` | `ServerSpec => []ListsAreHonest` |
| `PagesTypes` | `PagesSpec => []AllTypesOK` |
| `SessionStaysHonest` | `PagesSpec => []SessionIsHonest` |
| `PagesStayTruthful` | `PagesSpec => []PageIsTruthful` |
| `BundlesNeverDearer` | `PagesSpec => []BundleNeverDearer` |
| `DeadlinesCount` | `PagesSpec => []DeadlineCounts` |

*The seat argument.* `NoOversell` is not inductive: that the counter may go up in `CancelRelease`
depends on the order having been claimed once and its seat not having been given back. `SeatInv`
says so. `Phases` ties the request's progress, the stored state and the fate of the seat of each
order; `OneClaimant` says that at most one cancellation or worker run holds a claim on an order, and
that the order is then cancelled with its seat still out; `Targets` says that processes act on
stored orders, and worker runs on ones that were due; `Ledger` says that free seats and taken seats
add up to what was granted, for slots without drift. The proof has one lemma per action. `Ledger`
moves one element in or out of the set `Taken(s)`, whose cardinality is handled by the library's
theorems on finite sets. `NoOversell` follows because occupants and requests in hand are disjoint
subsets of `Taken(s)`; `NoSeatLost` because without faults they are all of it (`NoneStranded`: a
seat that is out belongs to somebody who will use it or give it back). That closed orders stay so
and time-outs are due needs a look at every step that moves an order (`AllMoves`). What faults cost
is an account of the stranded seats, which are out with nobody to use them or give them back: by
`SeatInv` they are just the seats that a slot's books miss (`BooksShowStranded`), a step without a
fault strands none, a fault the one of the request or run that it hits, and a restart those in the
hands of the processes it ends (`StepStrands`, one lemma per group of actions); and the slot of a
seat that is out does not change (`SeatedStay`).

*The refinement.* `SeatsKept` is `Seats!Spec` under a mapping that reads `status`, `free`, `holders`
and `spent` off the slots, the orders' seats and the drift. Each action of `Booking` takes a seat,
gives one back, is an act of staff, blurs the slots whose books are lost, or changes nothing that
`Seats` sees. `SeatInv` supplies what the abstract guards ask: that a seat given back was held, and
that nobody has two.

*The ticket argument.* The outcome is written under its own filter, and the other writes leave it
alone (`UpdatedKeeps`). A hold protects because a ticket on a clean-up's list was not held when the
list was made (`HeldLater`). Retention needs `CleanupInv`: the status "resolved" comes from an
outcome or from a status request, whose date is not later than the last update, so that both dates
of the script's filter bound the age of one of the two, and what is on a list stays old enough. A
slow request may write an old `updatedAt`, but then the mark it leaves is as old (`ClosedStep`). The
pauses need `SlaInv`, which speaks of the tickets that are not `crossed`: a request that is about to
write read the deadline that is still there (`UpToDate`), and a ticket's pause is the wait that goes
on (`Counted`); then each way to write, `WriteCounted`, moves both alike, and makes the ticket
crossed for whoever is still at it. A restart may forget that the seeded tickets were crossed,
because it writes them anew and drops all requests.

*The media argument.* That a delete spares a reference is not inductive, as the three queries are
answered one by one. `DeleteInv` adds that a reference from the beginning has been found or its
collection has yet to be asked, and that whoever holds such a reference is stored and never refers
to another media. `CleanInv` says the same of clean-ups, which ask only once the count is used up
and may find a ticket emptied by another run. Documents and files are tied by *claims*: the document
of a picture, an upload that has written the file and not yet stored the document, and whoever has
deleted a document and not yet removed the file all claim the file. `OneClaim` says that, while no
document of the picture was deleted twice, there is at most one claim and the file is there for it;
`FileClaimed` says that without faults a file has a claim. A step lays the first claim, passes it
on, gives it up, or leaves the claims alone (`Happens`). `CountStaysPositive` is inductive once a
clean-up at work is known to have a ticket whose media does not change (`CleanInv`, `KnownInv`).

*The search argument.* `SteadyInv`: what a clean-up remembers as published all along is published,
and is not the item it is about to delete. Each edit takes what it hides out of the memory in the
step that hides it, and the check that precedes a deletion saw the item hidden. That the search can
be trusted needs `RestInv`: ids of copies are never given twice, so that a clean-up which is slow to
delete cannot hit a newer copy; no edit outlives the start of the API; and every item that is not
doubtful is `Settled`: it matches its copy unless an edit is at it, that edit has read what is still
true, and no clean-up has the copy of something published in hand. Each item is settled by itself
(`Undisturbed`), so that doubt about one says nothing against the others.

*The search's refinement.* `SearchKept` is `Search!Spec` under a mapping that reads `published` off
the documents and `found` off the copies, takes an edit for `due` from the write of the document to
the write of the copy, and an item in doubt for `lost`. Besides `RestInv` it needs `OneAtATime`: of
an item that is not in doubt one request at most has yet to write the copy, so that the edit that
arrives is the one that is due, and nothing is in doubt while the API starts. Then a write of a
document is an `Edit`, or `Lose` if another was on its way (`WriteKept`); a write of the copy is
`Arrive`, because the request has read what is still published (`SyncWriteKept`); a deletion by a
clean-up is `TakeOut` or concerns a lost item (`CleanKept`); the reads, the checks and the steps of
lost items are not seen. `SearchMatches` is a corollary: what `Search` promises is truthful
(`PromiseIsTruthful`), and `MatchesAtRest` is that, seen through the mapping. The run checks the
refinement, which says more than `MatchesAtRest`: also what the search shows while an edit is on its
way.

*The limiter's argument.* `QuotaInv`: what was let through in a window, plus what the memory store
would still let through, is at most what the database counted up to the limit, plus the limit for
each memory store so far. `RowInv` and `BucketInv`: neither store counts a request that was not
made, where those that wait for the database are counted as made already. A request that finds
another's memory store is not let through, so `QuotaInv` survives the switch. The proof needs some
arithmetic of windows.

*The argument about accounts.* `SessionInv`: in a session that no two refreshes renewed at once
(`InLine`) only the newest token is not revoked, one request at most renews it, and it is revoked
before the next is issued; a session that was ended (`IsOver`) has no good token and no request to
go on with. Tokens are numbered as they are issued (`FirstsKnown`), so the token of a logout that
finds itself newest is the last one. `LockIsEarned` and `FailuresAllCount` need `AttemptInv`, that a
request about to write holds all failures of the window unless another write came in between, and
`OrderInv`, that failures are counted in the order of their times. That guesses are few is an
account of what may be in the window when a login gets past the lock (`BoundAtLogin`): less than the
threshold was registered (`LastInv`), each guess that was not (`Lost`) cost a fault (`LostInv`), and
the others are in flight, a request each; from there on `FewInv` counts the guesses together with
the requests that are yet to compare.

*The argument about reviews.* `VettedInv`: no order has two reviews (`OnePerOrder`); whatever a
request has checked of its order still holds when it stores the review and afterwards
(`CheckHolds`), since completed orders stay completed but for the fixtures' one, and `CompletedStay`
shows that of each step; nobody but a moderator approves a flagged text (`Moderated`); and a
question that shows was answered by one (`AnswersKnown`).

*The inbox and the lists.* What has been read only grows (`Kept`), except for the seeded message at
a restart, because nobody reads a message before it is stored (`InboxInv`). `HeartInv` keeps apart
the clicks that met another on the same service: one that did not finds the service in the
favourites, or gone from them, just as it is about to tell. `CompareInv` follows what a request
found on sale, less what was withdrawn since, to the list it writes.

*From the parts to the server.* `ServerProofs` takes `AccountProofs` and `ReviewProofs` as
instances, under the substitutions that `Server` makes. Every step of the server is a step of each
part or leaves its variables alone, so that `ServerSpec` implies each part's specification, and with
it each part's theorem.

*The session's argument.* That a session is not thrown away needs what the calls in flight may still
do: as long as nothing happened that excuses its end (`Calm`), it is `Usable` (the hook is not
logging out, whoever refreshes has the jar's token, and is refused only if that token is dead) or it
is `Over` (only dead tokens are sent, in a cycle of refreshes and logouts). `BringsInv` says that
whoever brings new cookies is the only one to have their token; `LiveInv` that the jar's token is
live unless something in flight explains why not, or nobody is shown; `AnswerInv` and `RaceInv`
which answers and histories a call can have.

*The argument about the quote shown.* `PageIsTruthful` is about a page at rest, when nothing is in
flight; `HookInv` prepares it: while the timer runs nothing is in flight, and whatever is in flight
asks what the page would ask now (`Now`), because each change of the form runs the hook's effect in
the same step.

*The argument about prices.* A cart with a bundle and the cart with its components each come to a
sum over the components: the former as one line (`WholeCart`), the latter as one line each
(`LooseCart`). The sums of `Pricing` are folds over sets, which are recursive functions, and the
carts have any length: `SumExists` and `SumUnique` say that such a function exists on the subsets of
any finite set and is the only one, so that sums of equal terms are equal. Both need an induction
over the size of a set. The library's induction theorems cannot be instantiated here, as they take
an operator for the predicate; the lemma `Inductive` takes the set of the numbers for which the
claim holds instead, and follows from the well-foundedness of the natural numbers. Then the minutes
of both carts are equal, and the labor differs by the discount. What comes later in the computation
(the share of the labor that falls after hours, the travel fee, the priority surcharge and the tax)
keeps the order of two labors, although every division rounds (`LessLaborCostsLess`), as long as the
tax rate is not negative. That the bundle can be bought at all where its components can is part of
the statement: without a choice of the client its selection is what the loose lines say
(`PartIsDefault`).

*The calendar's argument.* `SeekInv`: no minute between the ticket's creation and the cursor is
open. `AddInv`: the open minutes after the first one, up to the cursor, and those that remain add up
to the promise, and the cursor is open when nothing remains. `EndInv` keeps both past the return.

*Found while proving.* That a page at rest never throws a session away without an excuse held only
because the run had two clicks: with more, the user's own logout may meet the refresh of a call that
came before it, so `left` was added to the history. `Render` of `Checkout` took one input of the
hook from before the step, so that its effect came a step late. The three-party race of the search
(section 3) was a counterexample to a first, weaker definition of `doubtful`. In each case the model
or the property was corrected and the run repeated.

*Model-checked only.* `SeatComesBack`, `ExpiredIsCancelled`, `StaleCopyGoes`, `SessionComesToRest`
and `QuoteSettles` are liveness under fairness, which TLAPS does not do. Every other property of a
passing run is stated by a theorem. That `Booking` implements `Seats`, and `SearchIndex` `Search`,
is all that the two promises state: they have no liveness. The theorem about prices speaks of
integers with division that rounds down, as `Pricing` does; what floating point may add to it is not
modelled.

## 5. What could come next

In this order:

1. bundles and contents' listings in the catalogue, with the search page's cursor;
2. `OpsSlotsPage` and `CheckoutPage` composed with `Booking`, once the checkout can place an order
   (run `checkout_unplaceable`).

## 6. Not modelled

Ownership checks, role checks, validation, the blacklist, masking and compression look at one
request and keep nothing. The audit log and the logger are only written. The customer's profile is
one document that its owner reads and updates. The administration's pages and the internal fixtures
read, or exist outside production only. Routing, CSRF protection, TLS and the creation of indexes
happen before the first request or inside one. Listings and filters of the catalogue, of the inbox
and of orders are read-only. Image compression and type sniffing act on one upload. Of the frontend,
pages that only show and submit are left out; so is the code of the checkout that places the order
(`CheckoutPage.tsx:137-169`), which no customer reaches, and the compare page's Checkout button
(`ComparePage.tsx:418-463`), which puts a slot and a signature into the draft: no page calls
`setCompare`, so that a customer's compare list is empty there, although `Checkout` fills it to look
at the quotes shown beside it. `Pricing` takes the add-ons of a line as a set and the offset from
UTC as fixed, and leaves out the `serviceIds` that stand in for the components of a bundle without
any. MongoDB is taken to apply single-document operations atomically and to answer, fail, or lose
the answer; replication is not modelled.
