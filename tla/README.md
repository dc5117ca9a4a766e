# TLA+ models of My University

These modules model the parts of *My University* (Angular app, NestJS API, PostgreSQL, S3 storage,
Meilisearch) whose correctness depends on the order in which requests, replicas, background jobs and
failures happen. Paths below are relative to `src/`.

## The system

The API (`backend/src`) runs as several replicas of one process. A replica keeps almost nothing in memory:
state is in PostgreSQL, files are in S3-compatible storage, search documents are in Meilisearch. Replicas
meet in the database (row locks, unique indexes, advisory locks), in the bucket and in the search engine.
Every `await` in a handler is a point where another request, another replica or a crash can come in between.

### Components, their state and their operations

| Component (source) | State | Operations | What must hold |
| --- | --- | --- | --- |
| Private PDF attachments (`backend/src/paper-attachments`, `storage`) | `paper_attachment`, `paper_attachment_version`, `storage_deletion`; the bucket; per replica the readers that are uploading | upload, scan, approve/reject, open, remove, drain, maintain | the served file is in storage; no stored object is forgotten; quota; one served version |
| Reading groups (`backend/src/paper-groups`) | groups, members with roles, invitations, group papers, posts, shares into groups | create, update, remove, invite, revoke, accept, decline, leave, removeMember, setRole, addPaper, removePaper, post, removePost, removeAnnotation | one owner; limits on members and invitations; what a reader shares leaves with them |
| Discussions (`backend/src/discussion`) | threads (root comments), replies, votes, accepted reply, notifications | createThread, postRoot, reply, edit, remove, vote, accept, unaccept, feed | resolution points at a live reply; removed text is gone; rate limit |
| Notifications (`discussion/notification.service.ts`) | notification rows with read marks | notifyReply, unreadCount, list, markRead | nobody is told of their own reply, one row per reply and recipient |
| Annotations and their shares (`backend/src/paper-annotations`) | annotations anchored to a file checksum; shared copies, their recipients and groups | create, update, remove, share, unshare | an annotation on a replaced file is shown as stale |
| Paper library and collections (`backend/src/papers/paper-library*`, `paper-collections*`) | library entries, collections, items | add, update, remove, create, rename, take | a collection holds only entries of the library; a day of completion only with the status "read" |
| Private papers (`backend/src/private-papers`) | rows of `paper` with an owner | create (row, upload, library entry; undone on failure) | a refused upload leaves nothing; no paper is hidden from its owner |
| Experience points (`backend/src/xp`, `achievements`) | XP entries, awards, streak | grantUnitXp, grantSkillCheckXp, syncAchievements | each unit pays once; achievements are announced once |
| Exams (`backend/src/exam`) | attempts | startAttempt, submitAttempt, getAttempt | a finished attempt is a closed record |
| Progress (`backend/src/progress`) | progress rows | upsert | - |
| Sessions and accounts (`backend/src/auth`) | users, profile slugs, signed cookies | GitHub callback, profile updates | the OAuth state is checked; a slug names one user |
| Audit trail (`backend/src/paper-audit`) | audit rows | record (best effort), purge | - |
| Search (`backend/src/search`) | Meilisearch index, fingerprint in a meta index | rebuildOnBoot, search | the index matches its fingerprint |
| Public papers (`backend/src/papers/papers-catalog*`, `papers.service.ts`, `papers-search.ts`) | files parsed at boot | list, search, read | - |
| Paper import (`paper-import.service.ts`, `crossref.client.ts`, `papers-full-text.service.ts`, `throttle.ts`) | caches and a sliding window per process | import by DOI, by hand, full-text lookup | no paper twice; limits hold up to one per call at once |
| Boot (`main.ts`, `shared/boot-lock.ts`, `seed`, `migrations`) | an advisory lock | migrate, seed | one replica at a time |
| Curriculum (`backend/src/curriculum`, `course`, `lesson`, `progress`) | graph of concepts read from files | mastery, unlocking, resume | prerequisites are acyclic |
| Concept readers (`*-concepts`, `*-minute`, `concept-lookup`, `books`, `sitemap`, `og-image`, `shared`) | none (files) | read a page | - |
| Animation engine (`packages/algorithmator`) | current step, playing or paused, timers | start, prev, next, play, pause, replay, destroy; a step's layout, its transitions | one timer at most; the screen becomes what the step implies |
| Book shelf (`packages/book-shelf`) | none (layout of spines) | render | - |
| Paper reader (`app/src/app/pages/papers/paper-reader.ts`, `pdf-engine.ts`) | the paper asked for, loads, the document, pages drawn, search, the panel of marks | load, add, change, drop, go to, zoom, search | file, title and marks are those of the paper asked for |
| Search palette (`app/src/app/components/search-palette`) | query, filter, results, spinners | type, filter, more, open, close | results are of one search, the last one |
| Rest of the web app (`app/src/app`) | signals in services: notifications, XP, discussions | calls the API, shows answers | - |

Readers call the API over HTTP. Deleting a row cascades in PostgreSQL: a paper takes its attachments, library
entries, annotations, shares and group papers with it; a trigger hands the keys of deleted versions to
`storage_deletion`. Private papers call attachments and the library; annotations read the attachment's
checksum; groups withdraw a leaving reader's shares; every paper feature writes to the audit trail.


### What is hard here

* **Attachments.** An upload is eight awaits long and holds a row, an object and a place in memory. Meanwhile
  another replica may retire its version, the reader may remove the attachment or the paper, and the queue is
  drained by every replica at once. Storage may fail before or after it has stored, and a replica may die anywhere.
* **Groups.** Each route reads the caller's role, then more rows, then writes. Only `create`, `invite`, `accept`
  and `addPaper` take a lock; the rest rely on what a DELETE or a foreign key finds when it runs.
* **Discussions.** No route uses a transaction. What keeps threads right is that rows only ever change one way.
* **XP.** A user's lock orders units and syncs, but not skill checks, progress of other kinds or the clock; during
  a deployment two catalogs are in use.
* **Search.** Every replica rebuilds the whole index on boot, through an engine that runs its tasks later, in
  order, whether the replica that sent them still lives or not.
* **Library.** A paper of one's own is a row, then a file, then an entry, each its own statement. Limits are counted
  before the insert, an entry is read, changed and saved whole, and a replica may die in between.
* **Marks.** A mark is anchored to the file that is served when it is saved, which need not be the one on the screen.
* **Reader and palette.** Loads, answers, the drawing of pages and two kinds of search overlap; a token, a
  subscription or nothing at all decides whose late answer still counts.
* **Figures.** A step is rendered while the transitions of the one before are half done; timers outlive clicks.

`PROJECT.json` lists each hazard at its line, with the properties that cover it or the reason none does.

## The modules

| Module | Models | Status |
| --- | --- | --- |
| `PaperAttachments` | paper-attachments, the deletion queue, the bucket | done |
| `PdfShelf` | what attachments promise; `PaperAttachments` refines it | done |
| `ReadingGroups` | paper-groups and the shares into groups of paper-annotations | done; without board posts and renaming |
| `Discussion` | threads, replies, acceptance, reply notifications, the thread view | done; without votes and read marks |
| `XpLedger` | units, awards, progress, exam attempts of one user | done; without watched episodes |
| `SearchRebuild` | the rebuild on boot, on Meilisearch's task queue | done; without queries |
| `VizPlayer` | an animated figure on its page: extends `VizScenes` (what scripts mean), has `Stepper` (timers and buttons) as an instance; `Figure` holds their constants | done for rows, grids, binary trees, B-trees |
| `PaperReader` | the page of a paper, composed of `PaperAnnotations` (the server's marks) and `PdfPages` (drawing and text search) | done |
| `PaperLibrary` | library entries, private papers, import, collections | done |
| `SearchPalette` | the search of the whole site in the browser | done |
| `*MC` | constants, symmetry and initial choices of the runs | |
| `*Proofs` | theorems about the module of that name | attachments, groups, discussions, XP, figures, library, the reader (`PaperReaderProofs`: server, page and pages together); `SearchProofs` has those of `SearchRebuild` and of `SearchPalette` |

Every module that has requests gives each of them a record or a program counter: one action per statement (or per
transaction, where its statements cannot be told apart from outside), so any two requests interleave at every
`await`. What a handler has read stays in its record until it uses it.

### PaperAttachments

| In the model | In the code |
| --- | --- |
| `pc`, `at`, `slot`, `size` | one call of `upload`: where it is, its replica, reader and paper, bytes |
| `uploading` | the `Set` of that name in each replica |
| `row`, `version`, `attached`, `paperRows` | `paper_attachment_version`, `paper_attachment`, private `paper` |
| `queuedAs`, `serial` | `storage_deletion` with its ids |
| `claimed`, `done`, `failed` | the rows an open `drain` has locked, deleted, failed to delete |
| `store`, `put` | the bucket and the PutObject requests under way (external) |
| `Begin` .. `Finish` | `upload` from its guards to `finally`; `DbError` is a statement that throws |
| `RetireStale` | the statement of `maintain`; any pending version may be ten minutes old |
| `DrainSelect` .. `DrainAbort` | `drain` |
| `OpenSelect`, `OpenFetch` | `open` |

Left out: the `attempts` counter, which nothing reads; how `scanPdf` decides (both verdicts are possible); the
number of keys a batch holds (`Batch`). `NextVersion` and the INSERT are one step: two replicas that read the same
maximum differ only in which of them the unique index refuses, and that is `RefuseVersion` or `DbError`. A replica
has one drain open: two drains of one replica lock different rows, as two replicas' do. A key whose delete always
fails is always in the next batch, and `DELETE_BATCH` of them would hold up the rest for ever: the fairness below
assumes that this ends.

### ReadingGroups

A request is a record: call, caller, group, argument, what it has read (`role`, `rows`, `last`). Each route is a
`Call..` (the role is read), possibly `ReadTarget`, and one step that writes. Reads that follow each other are one
step when nothing in between can change the answer's use. Row locks are guards: a DELETE waits for rows another
transaction is deleting (`RowLocked`), and then finds what is left. `withdrawShares` is two DELETEs under READ
COMMITTED, hence two steps, and what they delete becomes visible with the commit. `Locked` is the advisory lock of
a group's invitations. `Refuse` covers a refusal, an error and the death of the replica: nothing is written before
the last step. `Calls` restricts a run to the routes it studies.

### Discussion

`post`, `text`, `deleted`, `accepted` are `discussion_comment`; `told` is `notification`; `recent` holds the comments
of the last minute and `Age` lets the oldest leave. Each route is its list of statements: `reply` reads the comment it
answers, its root, counts posts, inserts and notifies. A thread is viewed in two ways: `assembleThreads` shows live
replies and the answer only if it is one of them (`Shown`, `Answer`, `Resolved`); `summary` and the feed count the
rows that name an accepted reply (`CountedResolved`). A block's marker is written once and never removed, so it is
part of the thread's name. Whether a user wants notifications does not change during a run.

### XpLedger

One user: rows, locks and unique keys all carry the user's id. `entry` is `user_xp_entry`; `Commit` inserts the
unit, the progress row and the awards `Decide` found, since nobody sees them before. A row's day is that of the
transaction's begin (`now()`). `InsertOnce` is ON CONFLICT DO NOTHING. Builds differ in their catalogs; `CatalogsGrow`
is what `compatProblems` checks before a build is shipped. Attempts are submitted in three statements, the last of
which pays and overwrites what was paid before.

### SearchRebuild

`queue` is Meilisearch's task queue, run in order by `NextTask`; `sender` says who still waits. The tables `Done` and
`Failed` say which task follows which, as `rebuild` orders them. `GiveUp` is a request that fails or a wait that times
out, `Crash` the end of the replica: the task stays queued. A staging index is named by the boot instead of by
`Date.now()`, so two rebuilds in the same millisecond are not modelled. The generation itself stands for its sha256.
Creating `content_meta` is part of recording.

### VizPlayer

| In the model | In the code |
| --- | --- |
| `page`, `chunk`, `life` | the directive: the page it is on, the engine it imports, the figure mounted and destroyed |
| `playTimer`, `pending` | the variable that can cancel the callback of `scheduleNext`, and the callbacks there are |
| `caption`, `buttons` | what `renderAt` and `updateButtons` last wrote |
| `scene` | one script: the slots of each step, or the commands of a row or tree |
| `At`, `TreeAt`, `BTreeAt`, `Drawn` | the layout a step implies, replayed from the first step as the renderers do |
| `fade`, `tokenEl`, `lit` | what is seen of each element: D3's join by key, transitions half done, classes |
| `FadeEnds`, `Frame`, `Slide` | the browser: transitions end, a first frame comes, in any order |

`pending` may exceed `playTimer` only if a callback were lost; `Tick` covers such a stray so that a player that
loses one would show it. `hurried` remembers that a step came before everything was at rest; `ghosts` are elements
that no later step can remove. Graphs, charts and formulas draw a step from scratch and have no state.

### PaperReader, PaperAnnotations, PdfPages

`loads[l]` is one run of the pipeline in `PaperReader`'s constructor, from the paper's record to its first page;
`token` the latest. `IsCurrent` is asked exactly where the code compares its token. `crossed` is history: which awaits
*without* such a check a new load has overtaken, whether another tab made a call, whether two calls on one mark
overlapped (`"again"`), and whether a call was answered by an error although its mark was saved or was yet to be
(`"lost"`); the properties name these exceptions. A lost answer (`AnswerLost`: a statement after the save threw, or
the connection broke) is shown as an error (`Losing`) while the request goes on at the server; it is forgotten when a
paper is opened with no call under way, since the marks are then read again. In `drawing`, `late`, `left` and `broken`
are the same for pages: overtaken by a zoom, of a document that was never closed, impossible to draw. A request of
`PaperAnnotations` has read (`cur`, `row`) what it later saves; `mine` says that a panel still waits for its answer,
and `Serving` is one statement of it. `drawing` is the pump of `PdfPages`: it waits for a page and for its drawing
while the reader scrolls, zooms, searches or leaves. `searches` are loops of `onSearch`; `text` is the cache that
outlives them. Rectangles, colours, quotes and layout are left out.

### PaperLibrary

A request is a row of statements (`at` names the next one): `count`, `insert`, `upload`, `place` add; `read`,
`compare`, `save` change an entry as TypeORM does, which reads the row again and writes the columns that differ or
inserts a row that is gone; `undo`, `unlist`, `delete`, `find`, `put`, `take` and those of collections are single
statements. `AddPrivate` is one step because it runs under an advisory lock in one transaction. Rows of `papers`
and `entries` are numbered in the order they were made. What an upload does in between is `PaperAttachments`; here
it is stored or refused. `CutOff` is a crash or a statement that fails.

### SearchPalette

A page of results is named by the search it answers and its offset. `timer` is the debounce, `requests` the
subscriptions that count, `flags` the two spinners and the error. `dropped` is history: a search or a request for more
that the other one dropped, and that nothing has answered since.

## Runs

| Run | What it checks | Bounds |
| --- | --- | --- |
| `attachments_safety` | the served file is in storage; nothing forgotten; versions advance; `PdfShelf` is refined | 2 replicas, 2 uploads and 1 download of one private paper, batch of 1 |
| `attachments_liveness` | the quota on one replica; uploads are answered unless storage never answers their put, pending versions settle, the queue drains | 1 replica, uploads of 1 and 2 bytes to two public papers, quota 2, batch of 1 |
| `groups` | size, members were invited, audiences do not mix, withdrawals spare others | 3 readers, 2 groups of 2, 2 invitations, 1 annotation, 2 requests; all three readers only where there is one group and nothing in it (`ThreeOnlyInOne`) |
| `discussion_threads` | who resolves, who is told, posting limit | 2 users, 2 blocks, 3 comments, 2 requests, 1 post a minute |
| `xp_ledger` | awards recorded and earned, progress with XP, paid attempts | 3 units, 2 sessions, 2 tracks, 2 builds, 2 days, 2 requests, 1 attempt and grade (what grades pay is proved, `SkillXpFacts`) |
| `search_rebuild` | the live index is whole, keeps answering, records what it held, comes up | 2 replicas, 3 boots, 2 builds, 3 pages, 1 fault |
| `player` | controls; only ghosts stay behind; a patient reader sees the step; scripts are right; playing ends | every script of 4 steps over 2 slots or 3 tree nodes |
| `reader` | file, title and marks shown; the panel, with lost answers; pages drawn; text search; anchors; it comes to rest | 2 papers, 2 files, 2 pages, 2 scales, 1 term, 2 marks, 2 calls, 3 loads, budgets |
| `library` | no paper hidden, none twice, limits, rows and collections consistent | 2 calls at once of 4, 1 public and 3 own papers, limits of 1, 3 collection names, 1 cut-off |
| `palette` | results of one search, the last one; waiting ends | 2 queries, 2 filters, 3 pages of results, 8 acts |
| `discussion_resolution` | counts of resolved threads agree with the threads: violated | as `discussion_threads` |
| `reader_mark` | a mark is of the file it was made on: violated | 1 load, 2 marks, 2 acts of another tab |

Why the bounds are enough to be worth it: two uploads of one slot meet in every table and index, a third only repeats;
two drains contend for the queue; an annotation's two groups and two withdrawals make the one race of
`withdrawShares`; three comments are a root, a reply and a reply to the reply (or two threads); three readers and a
group of two are one too many; two units complete a session together, the third completes a track; three boots are two
rebuilds at once and a boot after both. Two loads are one that overtakes the other, a third overtakes both at
different awaits; two pages are one to draw while the other is; two marks are one touched while another is added. Four
requests of the library are an add that is repeated, removed and changed at once; a limit of one is passed by the
second call. Four steps of a script are two placements and a command with one after it, or a tree of three nodes with
a rotation. Every counter that could grow is bounded by the identities there are (uploads, comments, invitations) or
by a constant whose declaration says "bound".

`MCBudget` of the reader says how often each kind of act may happen in one behaviour: papers opened, pages read,
marks made, acts of another tab, faults. A behaviour does a lot of one kind or some of two; all of everything at once
is out of reach. `First` picks one of the alike starts: papers and files are interchangeable. `OneIsLarge` gives the
two uploads their sizes. `SYMMETRY` permutes identities nothing orders, and only where no liveness is checked.
`CHECK_DEADLOCK FALSE` stands where a system may come to rest: uploads are answered, groups deleted, no replica
boots any more, the reader puts the figure or the page away.

### Fairness

*Attachments.* A running upload goes on (`Advance`): each of its awaits returns or throws, except `storage.put`. Its
client has no request timeout (`storage.service.ts:54-58`) and the call no abort signal (66), so a put may never be
answered: `UploadsSettle` says that nothing but that leaves an upload unanswered. Deletes of a drain and statements of
the database have no timeout either; that they are answered sooner or later is assumed. `maintain` runs every few
minutes on every replica, so a version that stays pending is retired, the queue is selected, deleted and committed.
Faults of the background work (a crash, an aborted drain, a failing delete) may happen any number of times but not for
ever: `<>[][~Fault]_vars`. Without this nothing would drain. Nothing makes a client upload, and storage need never
answer a put.

*Search.* Meilisearch works off its queue and a replica that runs goes on. Booting, failing, crashing and deploying
are not fair. `SearchComesUp` says that a rebuild that reaches its first task ends with the site searchable unless
something is cut short later.

*Figures.* `setTimeout` fires: `Tick` and `DoneFires` are weakly fair. Frames and the ends of transitions are not:
a tab in the background gets none. A figure that is replayed for ever never ends, which `PlaysToTheEnd` excepts.

*Reader.* The responses a load waits for arrive and the PDF engine answers (`Loading(l)` for each load, `Drawing`).
Nothing makes the reader act, calls need never be answered, and their answers may be lost.

*Palette.* The debounce ends and each request is answered or fails. Without that a spinner may turn for ever.

## What does not hold

Two runs refute a statement of the repository each.

`discussion_resolution`: "An accepted reply that goes away takes the thread's resolution with it"
(`discussion.service.ts:478`). Two statements without a transaction: the second may fail, or an accept come after both.
The thread's readers then see it open; `summary` (169-171) and the feed (255-257) count it as resolved.

`reader_mark`: a mark "sends `version`, the PDF version the reader had open ...
so a mark is never saved on a file other than the one it was made on" (`paper-annotations/README.md:39-41`). The
reader does not know the version of the bytes it opened: it fetches them first and takes the version from the list of
marks it asks for afterwards. When the PDF is replaced between the two, the old file stays on the screen, the panel has
the new version, and a mark made on the old file is saved with the new checksum. There is a second way: version numbers start
at 1 again once a PDF was removed, and `create` compares numbers only (`paper-annotations.service.ts:108`). A PDF that is
removed and attached again while the old one is open has the old one's number, and the mark gets its checksum.

Known from modelling, without a run of their own.

*Attachments.* A put may land after its request gave up and its key was drained, although "an object never exists
without a record" (`paper-attachments/README.md:36`). "Bytes of PDFs one reader may hold" (76) are counted in one
statement and added in another, and what keeps the reader's next upload out in between (`uploading`,
`paper-attachments.service.ts:153`) is in the memory of one replica: uploads to two replicas both pass. A put that is
never answered keeps the reader's turn on that replica: their uploads are refused there with 429 until it restarts.
Maintain keeps an expired version beside the last refusal, where `paper-attachments/README.md:40` speaks of one.

*Groups.* "A share left with no group at all is deleted" (`paper-groups/README.md:92`), but `withdrawShares` deletes
one only if it deleted a row of it itself and sees no other: two withdrawals from two groups at once each see the
other's, and a share written between `withdrawShares` and the DELETE of its group loses its row to the cascade. The
share is left with no group. A reader may join on an invitation taken back while `accept` waits for the lock; a share
checked before its author left is still written; limits counted outside a transaction (shares, an invitee's inbox
across groups) can be passed by the number of requests at once; a moderator may remove someone promoted since the role
was read.

*Discussions.* Text edited after its removal stays stored, unseen.

*XP and exams.* Two submissions of an attempt both pass the check that it is open; XP of a finished attempt is lost
when the grant fails; a retaken exam moves its entry to the day of the retake.

*Search.* The recorded fingerprint need not be "the fingerprint of what that index was last built from"
(`meilisearch.client.ts:8`): swap and record are separate tasks, and in a rolling update an old build's swap can come after
the new one's and its replica be stopped before it records. A staging index
stays when the wait for its creation times out; a replica whose search engine is not healthy in time does not rebuild
until its next boot.

*Figures.* In a row, a token moved before its first frame is sent back to its first slot. One that is removed before
it stays as a ghost: it is dropped from `tokenEl` (`engine.ts:138`), but its exit is replaced by the transition the
frame starts (153-159), and no later step takes the element out, although a step "re-derives the slot/token layout
that state implies" (27-29). `OnlyGhostsStay` excepts it by name. In a tree, a click within 380 ms replaces the
fade-in by a slide that leaves the element dim (`"dim"`). In a grid, leaving and re-entering within 380 ms loses the
token (`engine.ts:108`). All of these need a reader faster than the animation (`PatientReaderSeesTheStep`). `move` and
`remove` of a script do not update the array a later `swap` reads (`moves.ts:31`), so such a swap exchanges other
tokens than its positions say. A rejected import of the engine is cached and `rendered` prevents a retry.

*Reader.* A zoom while `getPage` is awaited leaves that page at the old scale (`paper-reader.ts:555-559`). The
answer of an `add` lands in the panel of the paper switched to meanwhile (395). Title (417) and document (433) are
set without a look at the token, so those of an overtaken load may show. Text is cached before the token is compared
(226), so a search may find text of the document before. The search loop ends at a page whose text cannot be read
(231-232) although its comment says the page is skipped. On the server a concurrent edit brings a removed mark back,
or an anchor that was given up (`paper-annotations.service.ts:167`); the page can send both calls, since any answer
clears `busyId` (370, 383, 401) and so enables the buttons of a mark whose own call is still under way. A document that is
put in the place of another without `dispose` (433) leaves the pages drawn of the first. A call may be answered by an error
although its mark was saved (`sharesOf` throws after the save, `paper-annotations.service.ts:168`, or the answer is lost):
the panel then differs from the server until the paper is opened again, an `add` that is repeated makes a second mark,
and a removed mark that is still listed answers its next removal with 404.

*Library.* An update that overlaps a removal inserts the public entry again; of two updates one may undo the other's
columns. An import that matched a paper whose own upload is then refused goes with the undo. A crash leaves a private
paper without a file or an entry that still counts; importing its DOI lists it again. `throttle.ts:25` forgets its
oldest key beyond 10,000.

*Palette.* Typing or filtering while more results load leaves their spinner on (`search-palette.ts:258`); asking for
more while a filter's search runs drops that search and appends pages of the new filter to the old list (241); closing
within the debounce leaves the spinner on at the next opening (192). These are the exceptions `dropped` names.

*Web feeds* (not modelled): a late count of unread notifications overwrites a newer one.

## Proofs

`tlapm` checks every theorem for all values of the constants, under the assumptions the modules name (sets are
finite where sizes are compared, `Nil` and `None` are no values: no row, scale, document, slot or node, limits are
positive numbers, a document has a page, the scale starts at 1, the items of a row differ, `CatalogsGrow`).

**PaperAttachmentsProofs.** `TypeOK` and the properties on files are not inductive: an approved version keeps its
object because no queue entry of a *row* names a key that a row still holds (`HeldNotQueued`), because an entry of
a *late* upload exists only once its version is settled against it (`Settlement`), because what a drain has claimed
is queued (`ClaimsAreQueued`), and because a version is approved only after its object landed (`HeldIsStored`).
`Fresh` says that an upload that has not started owns nothing. With `DownloadsAreSettled`, `Inv` implies
`ServedHasObject`, `OneServedFile`, `MissingOnlyIfReplaced`; `NeverForgotten` and the refinement of `PdfShelf` are
step properties under it: approve is `Publish`, replacing and removing are `Withdraw`, a drained object is
`Discard`, allowed because the slot does not serve it.

*Quota:* what a reader holds is a sum over versions, which changes by what one step adds or takes away; the call that
has counted holds the reader's turn, so nobody adds between its check and its insert, and what it counted bounds what is
held by then. This is for one replica, as the property is. *Versions:* numbers of the rows of a slot differ, and the
next one is above each row there is; so whatever becomes the served version while the attachment stays is above the
one it replaces, although refused rows are deleted.

**ReadingGroupsProofs.** `Inv` is `Shape` (types), the properties of the tables, and `Good(q)`: what each request
in flight has read that can no longer become false, e.g. that the target of a removal is not the owner, since roles
never change to or from owner; that the rows a withdrawal has deleted are still there for everybody else; that an
accept's invitation names its reader. `OneDeleter` says that two requests never delete the same row.

**DiscussionProofs.** Rows never lose what a request relies on: a comment keeps its marker, parent and author for
ever, so what a request read is true when it writes. `Good(q)` collects these per step of each route. `Room` counts:
posts of the last minute plus requests past the check stay below the limit plus the number of requests, which gives
`FloodIsBounded`.

**XpLedgerProofs.** The user's lock has one holder (`OneHolder`), and what it decided to insert is what would still
be found pending when it commits (`Decided`): only a skill check writes the ledger without the lock, and no award
asks for one (`PendingDepends`). So a commit inserts whatever its build offers and is complete, and `CatalogsGrow`
carries that over to every later build; `EarnedIsRecorded` needs an award to be offered by every build so far,
because two builds serve the user while one replaces the other.

**SearchProofs.** *Rebuild:* A staging index belongs to one boot (`Own`) and its replica waits for at most one task
(`Senders`). As long as a rebuild may still swap, nothing abandoned is queued for its staging index (`Alone`), and
nothing queued before a task touches the staging index it is for (`Ordered`): so the swap finds exactly what settings and
documents left there. Whoever records has swapped (`Swapped`). *Palette:* at most one subscription of a kind counts, and it
is for the filter chosen; what was typed waits for the pause, is being searched or is shown, or `dropped` says
that it was dropped. The pages shown follow each other because the request for more asks for the offset after them. Both
properties of the run are consequences.

**VizPlayerProofs.** Of all actions only those of the controls touch them, and each first cancels what is due or is
itself the one callback due: `Timed` says that every callback can be cancelled (so `Tick` is never a stray), `Told`
that caption and buttons are the step's. With `LeftIsOff` (a figure whose page was left is not mounted) this is
`ControlsMatch`, for scripts of any kind and length.

*Picture:* `OnlyGhostsStay` is nearly inductive, since every step joins what it implies with what is there.
`PictureInv` adds what a patient reader relies on: what is still to move, fade or wait for its first frame leads to where
the step has it (`Toward`), unless a step came meanwhile, which `hurried` records.

*Scripts:* a fold is reasoned about by the results it passes through, one per step (`FoldRuns`, `Runs`). A row's script is
written from an array that the commands permute (`Written`), and replaying it has every item where that array has it
(`ReplayAgrees`). For trees the property is not inductive: it does not say that going up ends at the root, nor that
links of removed nodes, which the renderer keeps, lead nowhere new. `Tree` does, by a rank that falls on the way down
(`Ranked`); inserting, rotating and removing give each a new rank (`TurnedRank` leaves room for the node that comes
up). With a rank the recursion of `InOrder` has one solution (`OrderExists`, `OrderIsUnique`), it has exactly the
tree's nodes (`DrawnIsIn`), and both shapes of a rotation spell the same sequence (`TurnedOrder`).

**PaperLibraryProofs.** All four properties of the run, for any number of tabs, papers and limits. *Limits:* a call
that has counted and not yet inserted is as good as a paper; papers and such calls together stay within the limit less
one plus the number of calls (`PapersBounded`, and the same of collections), and every other step is `Quiet`. *Rows:*
`Kept` says that an entry keeps its paper for ever, and that all calls that have read it (`RefKept`, `Agree`) know the
same one; so a late save of the whole row lists no paper twice, and what it merges passes the check of the table.
*Duplicates:* `PapersMade` says that rows are numbered as they are made and never change, so the one an insert adds
under the lock has been compared with all the others. *Listing:* `Listed` says that whoever takes an entry away, or has
not made it yet, still holds the paper's id (`Cares`); each step of a call carries that on (`Carries`), except a cut-off.
`ValuesAssumption` keeps `Nil`, slugs and ids apart and gives the bodies of PATCH their type.

**PaperReaderProofs.** All the safety properties of the run, for any number of papers, files, marks, calls, loads and
pages. `ReaderInv` is about the marks. *Anchors:* a late save writes the row it read, so what is invariant is not the
row alone: the row and every copy an update still holds agree on the mark's paper and on the one anchor it may have
(`OneAnchor`). *Loads:* the load of the latest token is of the paper asked for, and one that is not stands before an
await with a token check or is recorded in `crossed` (`LoadsInv`); the file it read is the one served as long as the
PDF does not change (`FileInv`). *Panel:* `PapersInv` and `HonestInv` carry paper and file of a mark from the list or
the answer to the panel. `PanelInv` says of each mark that the panel is right about it, or that the one call about it
has been handled and its answer will make it right, unless an answer was lost (`Calm`); no count of calls and no order
of answers comes in. `PagesInv` is about the pages. *Drawing:* unless another round was asked for, every page near the
screen is drawn, broken, in the queue or in hand, and every page kept is near (`Covers`, `Keeps`); each caller of the
pump either runs a round or asks for one. After a close the pump may hold a page of the old document: it is told apart
from a later one only because no load opens two documents (`FreshInv`). *Search:* while the cache has only text of the
open document, so have the searches that count, and while a load is waited for none counts (`SearchInv`). TLC checked
both invariants on instances of the run's size before they were proved; `"again"` and `left` came out of attempts to
prove them without.

Where a proof needs induction over data (there is an order of the wanted pages, nearest first; a script is replayed step
by step; a tree has one in-order), it is done by the smallest counterexample: `LeastNumber` follows from the library's
theorem that `<` on numbers is well founded.

Theorems about properties that no run checks any more (types, `OneServedFile`, `MissingOnlyIfReplaced`,
`TurnsAreExact`, `OneOwner`, `NothingOutlivesItsGroup`, `OneLevelDeep`, `AcceptedIsInThread`, `AwardsMakeNoActivity`)
stay, since the invariants above are made of them.

Left to TLC: liveness, which is out of the prover's reach. Every safety property of a passing run has its theorem.

## Plan

1. `PaperReader` over `PaperAttachments` itself instead of a file per paper that may be replaced at any time: the
   latter allows more, so nothing checked is lost.
2. `Throttle` (window per key, eviction at the limit) and the pure algorithms: `computeStreak` against a definition
   over sets of days, `getLevelForXp` against the largest level reached, unlocking in the curriculum graph.
3. `Badge`: the unread count of the web app under answers in any order.

## Not modelled

Public papers, concept readers, books, sitemap and images are files read at boot. Sessions and accounts are signed
cookies and single-row updates. The audit trail is written after the fact and decides nothing. Migrations and seed run
under one session lock. Board posts, votes, read marks and renaming are single statements on a keyed row. The badge of
unread notifications, pages that show what one request answered, layout, keyboard and styles of the web app keep
nothing that outlives an answer, or only the badge of the plan. Most of the repository is content and presentation:
lists of lessons and achievements, drawing code of graphs and charts, templates, DTOs and clients. The share of its
lines that decides something over time, and that a model can say something about, is small. Deleting an account
cascades through every table at once; the model has the cascades of papers and groups.
