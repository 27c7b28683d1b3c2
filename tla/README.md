# A TLA+ verification of linkding (Go port)

This directory holds TLA+ models of the parts of linkding that carry its own
logic under concurrency and failure, the TLC configurations that check them on
small instances, and TLAPS proofs about them for every instance. Every model is
translated from the Go source; each definition's lines are in `PROJECT.json`
under `map`.

## The system

linkding is one server binary (`cmd/linkding`) on SQLite or PostgreSQL with a
data directory. An HTTP server (`internal/httpserver`) runs every request in a
goroutine of its own against the database; three worker goroutines
(`internal/jobs`) run jobs that requests queued. Several processes may share a
PostgreSQL database. The only state in memory that requests share is a metadata
cache: what components tell each other goes through rows and files, and so do
the hazards.

| Component | State | Operations | Interaction | What makes it correct |
|---|---|---|---|---|
| Job queue and workers (`jobs/queue.go`, `jobs/worker.go`) | `linkding_job`: status, attempts, lease token and deadline, due time; the worker's locals | enqueue (in the caller's transaction), claim, renew, complete, fail; poll, dispatch, renew in a second goroutine, finalise | requests enqueue; handlers are the media processor's | one claim at a time can settle a row; the attempts limit; every job ends |
| Snapshots and asset files (`media/snapshot.go`, `lock.go`, `recover.go`, `httpserver/bookmark_assets.go`, ...) | asset rows, `latest_snapshot_id`, the row of the snapshot lock, files in `data/assets` | process a snapshot job, acquire and release the lock, requeue at start, upload, delete | is a job handler; requests delete what it works on | R5 of `docs/specs/linkding-parity.md`: serial SingleFile, no completed asset without its file, jobs survive failures |
| Bookmarks (`bookmarks/*.go`) | bookmark rows, tag links | create or update by normalised URL, edit, bulk changes, delete | enqueues jobs in its transactions | no duplicates of one URL, tags and jobs commit with the bookmark |
| Tags (`httpserver/tags_*.go`) | tag rows | create, rename, merge, delete | against requests that assign tags | merges lose no link, no duplicate tags |
| Bundles (`httpserver/bundles_*.go`, `admin_bundle.go`) | bundle rows with an order | create, edit, move, delete | concurrent requests, the admin site; filters of searches | no two bundles of an owner in one place, moves keep the order of the others |
| Media files of bookmarks (`media/media.go`, `wayback.go`) | favicon, preview and archive columns, files in `data/favicons` and `data/previews`, titles | load favicon, preview and archive link, refresh metadata, queue the missing ones | job handlers against edits of the URL, deletions and the settings form | results of an old URL do not reach a new one |
| Sessions, tokens, passwords (`auth`, `settings/tokens.go`, `httpserver/login.go`, `oidc.go`, ...) | accounts, sessions with their data, hashes, API and feed tokens | log in with a password, a provider or a proxy, log out, change the password, create, show and delete tokens | concurrent requests of one browser or user | a changed password ends sessions; a token is shown once; one session for a login |
| Admin site (`httpserver/admin_*.go`) | all tables, the admin log | forms, deletions with what refers to the row, actions on selections, the page that asks | against owners and other administrators | no dangling references; the log, the files and the rows agree |
| Settings (`settings/*.go`) | profiles, the global settings row | update, with follow-up jobs; stored search preferences | enqueues jobs | an update and its jobs agree |
| Search (`search`, `bookmarks/search.go`) | none | parse, turn into conditions, add and remove tags | pure; links carry queries from page to page | the parsed tree is the one the grammar gives; links narrow the search |
| Lists (`bookmarks/search.go`, `httpserver/bookmark_list_page.go`, `bookmarks_api.go`, `feeds.go`) | the query of a page | submit the form, count, select and load a page, follow its link | rows, profiles and preferences change between statements and pages | a walk shows what stayed, and nothing foreign |
| Import and export (`importexport`) | rows, one transaction for each item | import, export | against other requests and imports | what is reported as imported is there, once |
| Backup (`backup/backup.go`) | the archive | database snapshot, then files | against requests and jobs | rows in the archive have their files in it |
| Metadata cache (`metadata/cache.go`) | the last pages loaded | load | concurrent requests | one answer for each page while it is cached |
| Migration from Python, web pages, process start | | | | sequential or stateless; not modelled |

The behaviours that are hard are leases that run out under live workers,
processes that stop between two steps, the unrenewed snapshot lock, files that
are renamed and removed outside transactions, values read in one transaction and
used in the next, handlers that are chains of single statements, and PostgreSQL's
weaker isolation. `PROJECT.json` lists them
as `hazards`, at the line where each bites.

## Modules

| Module | Role |
|---|---|
| `JobQueue` | the table `linkding_job` and the workers, with leases, tokens, the clock, stalls, stops and database errors |
| `TaskLifecycle` | abstract: what the queue promises, without leases, tokens and workers |
| `JobQueueRefines` | the refinement mapping from `JobQueue` to `TaskLifecycle` |
| `JobQueue_proofs` | TLAPS proofs of `JobQueue`'s invariants, and that each of its steps is one of `TaskLifecycle` or none |
| `Snapshots`, `Snapshots_proofs` | snapshot jobs of several server processes, the lock, requeueing, uploads and deletions, the files; TLAPS proofs about them |
| `Bookmarks`, `Bookmarks_proofs` | the statements that write one owner's bookmarks, tags and links, and the jobs queued with them, on SQLite and on PostgreSQL; TLAPS proofs about both |
| `WholeRequests` | abstract: what the requests of `Bookmarks` promise, one step each, without statements, transactions and locks |
| `BookmarksRefines` | states that `Bookmarks` on SQLite implements `WholeRequests`; the tables are the same, the requests in progress are hidden |
| `MediaFiles`, `MediaFiles_proofs` | favicon, preview and archive jobs against edits, deletions and the settings that enable them; TLAPS proofs about them |
| `Bundles` | the order of each owner's bundles |
| `Accounts`, `Accounts_proofs` | logins, sessions, password changes, tokens; TLAPS proofs about them |
| `Admin`, `Admin_proofs` | the forms, deletions, bulk actions and the log of the admin site; TLAPS proofs about them |
| `Search` | the grammar of queries, their conditions, and the links of the tag cloud |
| `Lists` | walks from page to page through lists that change, and the search form |
| `Import` | imports beside other imports and requests |
| `Backup` | the full backup of a server that works on |
| `MetadataCache` | the cache of loaded pages |
| `Server` | composes `Bundles`, `Accounts`, `Admin`, `Lists`, `Import`, `Backup` and `MetadataCache`, and states what is checked and proved of them |
| `Parts_proofs` | TLAPS proofs about `Bundles`, `Lists`, `Import`, `Backup` and `MetadataCache`, as `Server` instantiates them |
| `Server_proofs` | TLAPS proofs of the properties of `Server`, from the proofs about its parts |
| `MCJobQueue`, `MCJobQueueRefines`, `MCSnapshots`, `MCBookmarks`, `MCMediaFiles`, `MCMediaRequests`, `MCServer` | instances for TLC |

`Bookmarks` is the detailed module of the statements on bookmarks and tags;
`Import`, `Admin` and `Lists` have the same requests as one step each, which is
what `RequestsAreWhole` says of `Bookmarks` on SQLite. In the same way `MediaFiles` and
`Snapshots` use of the queue what `JobQueue` shows.

### JobQueue

`row[j]` is the row of `linkding_job`, `worker[w]` the locals of one
`Worker.ProcessOne` call: the job it claimed with the *copies* of `attempts` and
`lease_token` that the claim returned, the handler's result, and whether a
failed renewal has cancelled the handler. The copies matter: `Complete`, `Renew`
and `Fail` compare the token, and `Fail` compares the copied attempts with the
limit. `Enqueue`, `Claim`, `Renew`, `Complete`, `Fail` are the statements of
`queue.go`; `HandlerReturns`, `RenewLost`, `RenewError`, `Abandon`,
`FailUnhandled`, `FinalizeError`, `Stop` the paths through `ProcessOne`. Renewals
may come at any moment until the handler's return is noticed. `claims` is the
supply of fresh tokens (the code draws 16 random bytes, taken to be distinct).

Times are relative to the clock, and `Tick` moves it by a minute. Overdue jobs
are ordered for `Window` units only. Time passes a lease that is still kept only
as a fault: the code renews every third of the lease, so a lease runs out under
a working renewal only if the process or the database stalls. `faults` counts
stalls, stops and database errors; `MaxFaults` bounds them.

Definitions marked *Broken on purpose (mutant)* are not part of the system: they
are plausible bugs, each named in `PROJECT.json` with the property that catches
it.

### Snapshots

`asset`, `latest`, `deleted`, `files` and `lock` are the tables and the
directory; `run[s]` is the position of the one `ProcessSnapshot` call of server
`s`, `request[r]` that of an upload or deletion. Each database statement or
transaction, each rename and each removal is a step; a crash may come between
any two. `Load` .. `ReleaseLock` follow `ProcessSnapshot` line by line,
including what its deferred functions do: an error before the deferred mark is
registered (a busy lock, a failed reload) never marks the asset. `Interrupt` is
the next use of a cancelled context. Of the queue the module keeps what
`TaskLifecycle` promises: a claim silences an earlier one, only the latest claim
settles the job. A lost worker's lease is taken to end at once, which only adds
behaviours. Jobs are claimed in any order.

An asset's number is its place in the order of creation dates; its file name is
`NameOf`, because the code derives the name from the date, in whole seconds, and
the page. Runs that are about something else give every asset a name of its own.

Not in the model: the admin form that lets an administrator write any status and
file name into an asset row; the two extensions (`html.gz`, `pdf.gz`) an asset's
file may get in different attempts; commits whose outcome is unknown; a
SingleFile process that survives the server that started it.

### Bookmarks

`bookmark`, `tag`, `link` and `job` are committed rows. `call[r]` holds the local
variables of request `r` and its place between two statements, `patch[r]` what
its transaction has written: a statement reads the committed rows of the moment
with its own patch over them (`Rows`, `Tags`, `Links`), `Commit` installs the
patch, `Abort` drops it. One action is one SQL statement, or one round of a loop
over tags.

`Engine` decides how transactions exclude each other. On SQLite every
transaction takes the write lock when it begins (`_txlock=immediate`), which is
`Turn`; requests that read outside a transaction, such as the tag pages, need no
lock. On PostgreSQL, at READ COMMITTED, `ReadRow` and `DeleteRow` lock the row
they select `FOR UPDATE`, updates lock what they write (`FreeRow`, `FreeTag`,
`FreeLink` wait for it), and everything else interleaves. A `DELETE` takes the
rows that were committed when it started, so it is two steps (`StartClear`,
`Clear`). Foreign keys are deferred to `Commit` in both schemas. A request that
can only fail (a duplicate URL, a second link, a broken foreign key, a
deadlock) is left to `Abort`.

The model takes names up to case, as the lookups do, and gives one owner all
rows. It leaves out rows without a normalized URL, which only old databases
have, bulk calls with several tag names (each is one more round of the same
loop), and the assets of a bookmark, which `Snapshots` has. Every integration is
enabled, which queues the most jobs.

The names of a save pass through text: `replaceTags` joins them with commas and
`ParseTagString` splits the text again. `Parsed` is that round trip, `Parts[n]` the
names that `n` comes back as. The tag page makes names with a comma, and an edit
of a bookmark by the REST API without tags splits them: the link of "x," becomes
one of "x". `KeepsTags` therefore says that the parsed old names are kept, which for a
name without comma or space is the name itself. A form or a bulk call sends names
that have been parsed already (`Plain`).

`WholeRequests` says what all this is for: a creation, an edit, a bulk change, a
deletion, a merge each change the tables in one step that is right for the rows,
tags and links of that moment. It has no properties of its own that the
statements lack; it says what is meant to be left of them. The check for the name of a new or
renamed tag is not part of the promise: the code makes it in a
statement of its own, without a transaction. Nor is the list of bookmarks whose
date a bulk call changes, and which of its ids it skips.

### MediaFiles

`row` has the URL and the three columns that jobs fill in, `files` the images on
disk, `run[w]` the locals of a handler between the read of the bookmark
(`Begin`, with `bookmarkForJob`), the end of the transfer (`LoadFavicon`,
`LoadPreview`, `LoadArchive`) and the write (`Save`, with `updateFile`). A file
is named after its column and its URL, a favicon after its host, as in the code;
the image type is left out, and so is the age below which a favicon is not
loaded again, since the file and the result are the same either way. Of the queue
the module keeps what lets runs overlap: a failed job waits again or is given
up, and a run that lost its lease may work on while the next one begins.

Creation and edits are one step with the jobs they queue: `Bookmarks` shows that
they commit together. That is SQLite's behaviour with respect to the profile,
too: on PostgreSQL a creation may read the profile before the settings form
writes it and commit after the form has looked for bookmarks. The settings form
is four steps and a loop, as `UpdateProfileWithTasks` and `EnqueueMissingMedia`
have no common transaction, and `CutShort` may end any request between two.

An import makes bookmarks without jobs and queues the missing images of what the
profile enables when it ends (`StartImport`, `ImportOne`, `ScheduleImport`, then
the loop of the settings form). A bookmark whose normalized URL is in the file
gets the URL of the file, keeps its columns and has no job queued (`ImportAgain`,
the UPDATE of `importBookmark`): after that it may show the page of its old URL.

The administrators' pages queue no jobs either. `ReadForm` is the page of a
bookmark, with the columns of that moment; `SaveForm` writes any URL and these
columns back, perhaps after jobs have filled in others. `AdminCreate` is the form
for a new bookmark, `AdminProfile` the profile in the form of a user. Names of
files that an administrator types, and a change of the owner, are left out: the
module has one profile.

`asked`, `excused` and `missed` are history variables for the properties. They
name the exceptions. A column may show an old page only if its job was given up
or turned away, the integration was off when the URL changed, or an import or an
administrator's form changed the URL or the column. A bookmark of an enabled
integration may never have had a job only if a settings request or an import was
cut short, a settings request wrote over a profile that had changed since it was
read, or an administrator's form made the bookmark or enabled the integration.

### Bundles

`bundle` is the table, a row reduced to its owner and its order. Creation, a
move and a deletion are transactions and one step each; an edit reads the row
(`ReadBundle`) and writes all of it back in a later step, with the order it read unless
the request names one, so it can put back a place that a move has since given to
another bundle. The admin form writes any owner and any order. `given` remembers
these bundles: for all others places are distinct.

### Accounts

One action is one SQL statement with the comparison it makes (`UPDATE ... WHERE
password = ...`, `WHERE session_data = ...`), because the handlers have no
transactions; a password change has one, but reads and writes in two steps, as on
PostgreSQL. `call[r]` holds what a request has read, a browser its cookie. Hashes,
keys and tokens are numbers that are never given out twice. `mode` is the set of
operations a server offers, fixed for a behaviour: one with passwords, one with a
provider, one behind a proxy. `faults` counts statements that fail; what the handler
then undoes is in the model: a login that cannot be recorded takes its session
back. Both statements have the context of the request, so a client that goes away
between them fails both; `OneSessionPerLogin` excepts a login whose removal fails too. History variables say which sessions a change of password ended, how often
a token was shown, and which sessions came of one login with the provider.
Expiry, CSRF, the hashing and the checks of a provider's signatures are left out.

### Admin

`db.rows` has the rows of five kinds with what each belongs to, `db` also the tag
links, the log and the guest of the global settings, `files` the asset files. A
request reads first (`call[r]`: that its actor may do it, that the rows it names
exist, what a selection matches) and then writes in one transaction, whose commit
checks foreign keys (`Commit`); the deletion of users must not need that
check, because the rows it leaves would fail it and the page with it. What a
deletion takes along is written out as in the code, statement by statement, and
so is the page that asks for confirmation (`GraphIsDeletion` compares the two).
Files are removed after the commit, or between the commits of an action on
several bookmarks.
Only interleavings with other requests come between the two: a removal that fails, or a
server that stops before it, leaves a file without a row, and no property excludes
such files.

### Search and Lists

`Search` has queries as sequences of tokens. `Parse` and the operators it calls
are the recursive descent of `parser.go`, then come the conditions of
`bookmarks/search.go` for the expression and for the legacy search, `Rendered`
and the links of the tag cloud are `tag_query.go`. The grammar is stated a second
time, as the ways to divide a sequence of tokens, and every query that the
constants allow is compared with it on every bookmark that queries can tell apart.
`TagLinksNarrow` follows any links from any query. What the links get wrong is in
the model and excepted by name. `Plain` excepts queries: `renderTagQuery` quotes a
term again only if it has a space, a parenthesis or a quote in it, so that a quoted
operator, `"#foo"`, `"!unread"` and the empty term come back as an operator, a tag, a
keyword and nothing, and `"a#b"` as a term and a tag (`Bare`); a quote left open takes in what a link appends; the
cloud parses operators that the legacy search takes for words. `Linkable` excepts
tags: a link appends "#" and the name as it is, and a name with a space, a parenthesis
or a quote is read as several tokens (`names`).
The module has RECURSIVE operators and is only model-checked.

`Lists` has a reader who submits the form, and pages that count, select and load in
three statements, with changes of rows, profiles and preferences between any two. A
number stands for a bookmark with its date, and `Date` need not tell two apart: the
query orders by the date alone, so `Slices` has every page that `LIMIT` and `OFFSET` may
select. An import or an edit that dates a row anew moves it to another number. A feed
selects the first `FeedLimit` rows (100, or its `limit`), and `WalkShowsAll` says
of it that what it leaves out is older than as many others that it shows.
`slipped` names when the list moved under the reader, or when a page began or ended
between two rows of one date (`Tears`): paging may then show a row twice or not at
all. `SubmittedIsApplied` excepts visitors whose guest
profile differs from the standard: the form leaves the standard value out of the
query, and the page takes the guest's preference for it. The list pages ignore an
unknown `user`, the feeds and the API do not; the readers of the instance have
known ones. A row that vanishes between the selection and the load fails the
request, as in the code.

### Import

`Preload` reads the ids of the owner's tags, `InsertTag` makes those the file
lacks, one statement each, `ImportItem` is one item's transaction, with the
foreign keys checked at its end. Other requests save and delete bookmarks and
rename, delete and merge tags at any time; an import that stops is begun again.
`disturbed` collects the URLs that others changed meanwhile, for which no import
can answer. This is SQLite: on PostgreSQL an item's read and write are two
statements, and two imports may insert one URL twice, as `bookmarks_twice` shows
for two creations.

### Backup and MetadataCache

In `Backup` an item goes through the stages of a stored file: temporary, named,
its row committed, its row deleted, its file removed. `TakeDatabase` copies the
rows at one moment; folders are listed and files added after that, and a listed
file that is gone fails the backup. Rows deleted meanwhile are the one exception
of `BackupIsWhole`; `docs/backups.md` asks to stop writes for more.

In `MetadataCache` a load is its two critical sections; the page it loaded is a
number. `given` holds what callers got since a page has been cached.

### Server and MCServer

Bundles, Accounts, Admin, Lists, Import, Backup and MetadataCache share no state
in these models, so `Server` joins them without a product of their states: a behaviour is
of the part that its first state names, and the other parts' variables hold
`Elsewhere`, or, for `Accounts`, which the module extends, one first state. Its
properties are the ones that the run `server` checks, and the ones that the theorems of
`Server_proofs` state. Accounts is extended, not instantiated, and its properties are
checked under their own names; `PartsTypeOK` has the type invariants of the parts.

`MCServer` gives `Server` small constants and adds `Search`, with its two properties:
the parser is recursive, which no module with proofs may reach.
`r1` and `r2` are requests (or imports, or callers of the cache) in every part that
has them, and nothing tells them apart, so they are symmetric; all properties are
invariants or properties of one step.

## Runs

| Run | Instance | Question |
|---|---|---|
| `queue` | 2 jobs, 3 kinds (one unhandled), 2 workers and a snapshot lane, 2 attempts, 2 faults | can a superseded worker reach a row; are the attempts right |
| `queue_refines` | 2 workers and a snapshot lane, 1 fault, with fairness | does the queue implement `TaskLifecycle`, and does every job end |
| `snapshots` | 2 processes, 2 assets, 2 attempts, 1 crash, 1 stall | is SingleFile serial; do duplicate runs settle an asset once |
| `snapshots_restart` | 1 process, 3 attempts, 1 crash or shutdown, with fairness | does a pending asset always have a job, and is it settled in the end |
| `snapshots_files` | 1 process, 2 concurrent requests, 1 crash, 1 database error | do completed assets keep their files, is `latest_snapshot_id` valid |
| `snapshots_names` | two assets of one page created in the same second | violation of R5, see below |
| `bookmarks` | SQLite, 2 requests, 2 bookmarks, 2 spellings of one URL and another URL, 2 tags, the name of one with a comma | do the tables change as `WholeRequests` says; is a URL bookmarked once; do jobs commit with their bookmark; do edits, get-or-create and merges keep tags and links |
| `bookmarks_postgres` | PostgreSQL, 2 requests, 1 bookmark, 2 URLs, 2 tags | do edits undo concurrent changes |
| `bookmarks_twice` | PostgreSQL, two creations | violation of R1, see below |
| `media_pages` | 1 bookmark with 2 URLs of 2 hosts, one integration enabled; 2 workers, 2 jobs of a kind and 1 fault, or a worker, an import and an administrator's form | does a bookmark show another page's icon, image or archive |
| `media_requests` | 2 bookmarks of one host, a request of several steps, and a worker, a worker and an administrator's form, or an import; images on or off, 1 fault but with the form | do named images exist; does an enabled integration reach every bookmark, imported ones too |
| `server`: bundles | 2 owners, up to 3 bundles, an edit, moves to places 0, 1 and 3 | are places distinct; is a move one |
| `server`: accounts | 2 users, 1 browser, 2 requests, 2 sessions, 3 hashes, 1 token, 2 logins with a provider, 1 fault | do changed passwords end sessions; is a token shown once; is a login one session; does the proxy sign in |
| `server`: admin | 2 users, 2 bookmarks, 2 tags, an asset and an item, owned in two ways, 2 requests | are deletions whole; does the page count them |
| `server`: search | queries up to 3 tokens of everything, up to 5 of the operators and parentheses, up to 3 legacy, 2 with a bundle, quoted terms, tags with odd names; 3 links | does the parser follow the grammar; do links narrow |
| `server`: lists | 4 bookmarks, 2 of one date, pages of 1, feeds of 2, 6 readers, 1 change | does a walk show what stayed; does the page apply the form |
| `server`: import | a file with an invalid item and 2 URLs in 2 spellings, 2 imports, 3 bookmarks, 3 tags, 1 change, 1 stop | is an import whole |
| `server`: backup | an asset and an image | has each archived row its file |
| `server`: cache | 3 pages, 2 callers, 2 entries, 5 transfers | is the answer one while a page is cached |

Bounds. Two jobs let one overtake the other, and in `queue` two faults and a
snapshot lane let a superseded worker come back; a lease of 2 can be renewed
before and after its half; two attempts have a first, a last and, with faults,
one beyond. Two faults allow a stop during the recovery from a stall. For snapshots the proportions of the real
times are kept: the lock lease (10 minutes) is longer than the capture limit and
longer than the first retry delay (1 minute), and shorter than the sum of the
delays (341 minutes), which is what `PendingHasJob` and `EverySnapshotSettles`
rest on. `Copies` bounds the jobs of one asset: one at first, one more for each
start. For bookmarks two requests at a time make every pair of interleaved
calls; each may make any number of calls one after the other until the ids are
used up. Requests are symmetric in the passing runs, whose properties are
all safety. `bookmarks` has the requests of several statements, but for the removal
of a tag from a selection or of a tag itself; `RequestsStayWhole` has those and the requests of one
statement too. For media files two URLs let an edit go back
and forth under two overlapping runs, and a fault makes a third; the columns of a
bookmark are independent of each other, so `media_pages` enables one at a time.
Its two URLs have one normalized form, so that an import takes one for the other;
imports and forms rewrite the bookmark in behaviours of their own, with one worker
and no fault. In `media_requests` an import's jobs wait, so that its interleavings
with the settings form, edits and administrators' profiles are checked without
those of a worker, which other behaviours of the run have: one kind with the
settings form, and one with the form of a bookmark that is deleted meanwhile. The
views of the two runs have only whether a variable is empty that no guard and no property
of the run reads: `excused` in `media_requests`, `asked` and `files` in `media_pages`.

In `server` two requests make every pair of interleaved handlers, and a fault or a
stop hits one of them between any two statements. Three bundles have a first, a
middle and a last place, and an id that is used again is not. Two users are one
who acts and one whose rows are borrowed. Two hashes for each change of password
and one more for another's. An import needs a URL twice with different items
between, a tag that it has to make, and one bookmark and tag of another request.
Two items of a backup are one that is there and goes, and one that comes, in
different folders. Three pages evict one from a cache of two.
Four bookmarks fill more than one feed of two and four pages of one, and two of them
share a date, on one page or at its end. Of the quoted terms the instance has an
operator, a tag, a keyword and the empty one, of tags with odd names one for each
way in which the appended name is read.

Deadlock is not checked in the runs of `Snapshots`, `Bookmarks`, `MediaFiles` and
the server, which stop when all ids, links or changes are used up. Type
invariants are checked in one run of each module; those of `JobQueue`,
`Bookmarks` and `MediaFiles` are proved and in no run.

Fairness. Workers poll in a loop and every handler step has a timeout, so
claims, handler returns and finalisation are weakly fair for each worker; the
clock moves; a stopped process exits and is started again. Renewals, lost
leases, requests and faults need no fairness. `EveryJobSettles` and
`EverySnapshotSettles` hold for any finite number of faults within their bounds.

Finding (`snapshots_names`). Asset file names are built from the kind, the
creation time in seconds and the page or upload name, and nothing makes them
unique. Two snapshots of one page requested within a second share one file; when
one of them is deleted its file is removed, and the other stays complete without
a file. R5 says "A completed asset record must not point to a missing file." With
distinct names the same property holds (`snapshots_files`).

Finding (`bookmarks_twice`). R1 says "On creation, an existing bookmark owned
by the user is found by normalized URL and follows the update path." On
PostgreSQL two creations at once both find none and both insert. The repository
tests concurrent creation on SQLite, where `bookmarks` shows that it holds.
REST edits are not part of that statement: they compare the exact URL and can
give two bookmarks one normalized URL, as R1 says.

`MergeKeepsTaggings` and `KeepsTags` are properties of SQLite too. On PostgreSQL
the copy of a merged tag's links and their deletion are two statements with a
snapshot each: a bookmark that gets the tag between them loses it and does not
get the target, although the tag page says "The target tag is added to all
bookmarks that have any of the merge tags". And an edit without tags that
interleaves with a rename gives the bookmark a new tag of the old name. With
`Engine = "postgres"`, one bookmark and `Kinds` of `"create"`, `"tag"`,
`"merge"`, or of `"create"`, `"rest"`, `"rename"`, `MCBookmarks.cfg` shows them.

## Proofs

Each theorem module proves that an inductive invariant holds of every state,
with one lemma for each action or group of alike actions, and then each theorem
from the invariant. The assumptions about the constants are those the modules
name (`QueueAssumption`, `SnapshotAssumption`, ...), which every run evaluates; a
hypothesis beyond them is in the statement of its theorem. The properties of
the parts that one run checks together are theorems of `Server`; `ServerAssumption`
is the conjunction of those parts' assumptions.

### JobQueue

`JobQueue_proofs` proves, for every set of jobs, kinds and workers, every lease,
limit and bound on faults, that `QueueInv` is an invariant, and from it
`TypeOK`, `OneOwner`, `NoDoubleRunUnlessFault`, `AttemptsPaidFor`,
`FailedOnlyWhenExhausted` and the action property `SettledByLatestClaim`. The
only assumption is `QueueAssumption` about the constants.

The safety properties are not inductive. `QueueInv` adds: tokens in use are
distinct and at most `claims` (else a fresh token could equal an old one);
a worker that owns its row has copied the attempts the row still has (else
`Fail` would compare a stale number with the limit); a pending row has attempts
left, and a running row that nobody keeps has them after paying one fault (else
a claim could exceed the limit); without faults every busy worker owns its row
under a running lease (which makes double runs impossible). Each part is a lemma
of its own, `TypeNext`, `TokensNext`, `CopiesNext`, `AttemptsNext`,
`FaultFreeNext`, with one step per action of `Next`; the lemmas before them say
what an action does to rows and workers.

### The refinement of TaskLifecycle

`JobQueue_proofs` also proves `QueueKeepsItsPromise`: under the mapping of
`JobQueueRefines`, the first states of the queue are first states of
`TaskLifecycle`, and every step of the table, of a worker or of the clock is a
step of one abstract task or of none, for all jobs, workers, leases and faults.
`QueueInv` supplies what a step alone does not show: the worker whose answer
settles a job is the one that the mapping takes for its try. This is
`KeepsItsPromise`, the safety of the abstract specification; its fairness, and so
that every task ends, is checked by `queue_refines` only.

### Snapshots

`Snapshots_proofs` has six theorems, for any assets, servers, requests and
bounds:

- `TypesHold`, from `TypeInv`, the types together with those of the locals.
- `SettledForGood` (`SettledOnce`) and `LatestSnapshotValid` (`LatestValid`), from
  `RowsInv`: an upload's asset is unborn and its own until it is inserted, every
  job and run is for an asset that was born, a living asset has its bookmark, and
  finitely many assets have been born, so that the latest of the complete ones
  exists.
- `CompleteAssetsHaveFiles` (`CompleteHasFile`), from `FilesInv`: a run that has
  renamed its file and is about to complete the row still has it, and what a
  request is about to remove are files of deleted assets. The hypothesis
  `NamesDiffer`, that assets have different file names, is not idle: the run
  `snapshots_names` violates the property without it.
- `CapturesAreSerial` (`SerialCapture`), from `LockOK`: without a stall the age of a
  capture and the rest of its lock's lease add up to the lease, and a capture may
  not get that old (`CaptureLimit < LockLease`, in `SnapshotAssumption`).
- `NoSnapshotForgotten` (`PendingHasJob`), from `WorkerOK` (a running job is in the
  hands of its worker; a run that was cancelled has its server going down) and
  `PendingOK`: each pending asset has a job that waits with attempts to spare, or
  that a worker holds and will fail or complete with the row. The hard case is a
  lock that a crashed process left behind: runs that find it busy use up
  attempts, and the last attempt must come after the lock's lease. Hence the hypothesis
  `DelaysOutlast`: at least two attempts, and the last delay no shorter than the
  lock's lease (in the code the sixth attempt comes 256 minutes after the fifth;
  the lease is the larger of 10 minutes and what a capture needs). The other
  hypothesis is `OneServer`: an interrupted run of one process may be requeued by
  the start of the same process only.

### Bookmarks

`Bookmarks_proofs` proves in two layers.

`BaseInv` holds on both engines. Beside the types it has one part for each way in
which requests keep out of each other's way: new ids are ahead of all in use
(`Fresh`); a row is written under its lock and no two requests have one lock
(`RowLocks`); links that one request adds or deletes no other does, and every
committed link has its bookmark and tag (`LinkLocks`). For each request it says
where a call of each kind can be (`Where`), what its locals stand for there
(`Locals`), that nothing is uncommitted outside a transaction (`Clean`), and that
the fields it leaves out are still as they were committed last (`Keeps`). From it
follow `TypesHold` and `UpdatesLoseNothing` (`NoLostUpdate`), on PostgreSQL the
work of the row locks.

`SqliteInv` adds what the write lock gives: at most one request is in a
transaction (`Alone`), and its patch over the committed rows has one bookmark for
a URL, the jobs of a new bookmark when it commits, no second tag of a name, the parsed
old names of an edit among those attached and those still to attach, and for a merge
the target on each bookmark that the other tag is taken from (`Mine`). That is
true of the transaction's own view, not of the tables, which is why it is
inductive: other requests cannot move the tables under it. From it follow
`NoURLTwice`, `TagsCreatedOnce`, `MergesLoseNothing`, `EditsKeepTags` and
`JobsComeWithRows`, each with the hypothesis `Sqlite`; `NoURLTwice` also with
`FormURLsOnly`, no edit by the REST API that gives a URL, as those compare the
exact URL (R1) and may give two bookmarks one normalized URL.

`RequestsStayWhole` is the refinement of `WholeRequests` (`RequestsAreWhole`), under
`Sqlite` alone. All steps of a request but its commit stutter, and so does `Abort`;
what a commit does was put together by many statements. `WholeInv` therefore says of
each open transaction what its patch makes of the committed tables at the place it
has reached, by the kind of the request (`Going`): for a creation or an edit the row
(`SavesRow`), the tags and links (`SavesTags`) and the jobs (`SavesJobs`), for a
merge how far it is, namely the set of tags that are done with (`Merges`). For the
tags, `Attached` and `Asked` follow the loop: what is linked has a name that was asked
for and is no longer to be attached, one link for each name, and a new tag is
linked. When no name is left, `CommitsTags` picks the tag of each name that `Tagged` wants.
`Alone` makes the invariant inductive: no other request commits while one is in a
transaction, so the tables that it speaks of stay. TLC found no violation of `WholeInv` on
the instance of `bookmarks` with fewer URLs and more kinds of requests.

### MediaFiles

`MediaFiles_proofs` proves `TypeOK`, `ShowsItsPage`, `EnabledMeansAsked` and, for
bookmarks with different URLs (`URLsApart`), `NamedFilesExist`, for any bookmarks,
pages, workers, requests, imports and administrators' forms. `ShowsItsPage` excuses a wrong column while
any job for it is `Expected`; that is not inductive, because a job at work may
have read an old URL, or find nothing to do. `PagesInv` says which jobs count: one
that waits and will load the page (`Waits`, not a plain archive job, which leaves
a link alone), or a run that has read the present URL and a column that it will
write, and still owns its job (`Mends`). `FilesInv` says the same of files: what a
handler has written for a bookmark that is not deleted is there (`Made`), what an
administrator's page shows of it too (`FormsMade`), and what a request is about to
remove are previews of a deleted bookmark (`Doomed`). `JobsAsked` and `ImagesAsked`
follow a request that enables a feature through its selection and its loop, and an
import to its end; `FilesAsked` says that an image in a column or on a page had a
job, so that a form which takes it away leaves no bookmark that was never asked
for. `RewriteKeeps` is the step that an import and a form have in common. `URLsApart` is needed as two
bookmarks may otherwise have one preview file, and the deletion of one removes
it, which the comment of `NamedFilesExist` quotes. `Worker` is finite, since
jobs at work are counted.

### Accounts

`Accounts_proofs` proves `TypeOK`, `ChangeEndsSessions`, `TokensShown`,
`OneSessionPerLogin` and the action property `ProxySignsIn`, for any names,
browsers, requests, configurations and bounds. `AccountsInv` has the tables
(`Tables`), a statement about each property's tables, and what each request has
read (`Fit`, in parts named for the table: `Registered`, `Owns`, `Reveals`,
`Feeds`, `Signs`):

- An ended session does not hold its user's present password (`Ended`). When
  `ChangePassword` writes, the password and the session are those it read, and it
  had checked one against the other; so the session that it renews is none of
  the ended ones.
- A token that was not shown yet is in one session at most, and a request that is
  to store one has a token that is in no session (`Unshown`, `Reveals`); two
  requests do not have the same (`Apart`).
- A flow whose row is there made no session, and neither did one whose callback
  is under way (`Flows`, `Signs`), of which there is one (`Apart`).
- A session that a login under way has made is in no browser yet (`Owns`), so that
  no logout, provider's callback or proxied request can delete it, as these delete
  what a cookie names. That is why a failed login removes its own session only, and why
  the session of a proxied request is there when its response carries it.

A proxied request whose account was made by another request looks again
(`CreateAccount`), so `ProxiedEnds` leaves only the response and the inactive user
as its last step.

### Bundles and Lists

`Parts_proofs` proves `TypeOK`, `PlacesDistinct` and the action property
`MovePlaces` for every set of owners and requests, all orders and positions and
any number of bundles, from `BundlesAssumption`. The inductive invariant is
`TypeOK` with `PlacesDistinct`. `PlacesDistinct` needs that a creation's place,
`MAX + 1`, is above all others: `MaxIsGreatest` shows that the maximum of a finite
set of integers is what its definition says, and `FinitelyMany` that there are
finitely many bundles. For the renumbering of moves and deletions `RanksRise`
shows that the places a list gets rise strictly with the order and, for one
owner, fill `0 .. n - 1`, so that no two coincide; `MovePlacesEach` says of each
bundle where a move leaves it.

For `Lists` it proves `WalkShowsAll` and `SubmittedIsApplied`, for any rows, dates, users,
readers, sizes of pages and feeds and number of changes. `WalkShowsAll` speaks of walks
that have ended. What makes it inductive is `Deep`: none of the bookmarks shown has left the list;
each one that stayed and was not shown is older than all that were; and at least as many
rows as the pages so far can have held are newer than it, counted down to the last one shown. A
bookmark that leaves and is older than that one, or joins anywhere, changes none of this;
any other departure is a slip, and so is a page that parts two rows of one date: that is
why what comes after is older. `PageDeepens` shows that the next page takes `Deep` one page
further: if something that stayed is still behind it, the page was full, and the row
at its last place (`PlaceTaken`) has enough others before it. The end of a walk compares the
page with a count that is older than its rows, so `Walk` also has that the list is no longer
than the count until a page is selected, and that, while something that stayed is still to
come, the count is above what the pages so far can have held. A number behind the last page
leads back to that one, which `LessIsDeep` allows. `Applies` follows the submitted value to
the page.

### Admin

`Admin_proofs` proves `TypeOK`, `References`, `LoggedDeletionIsReal`, `FilesFollowRows`
and `GraphIsDeletion`, for any rows, staff, permissions, requests and bounds. The only
hypothesis is `AdminAssumption`: there are finitely many rows and the kinds are
disjoint.

A deletion is a chain of statements, and that of several users a chain of those, folded
over the set of users. The first part of the module says what each chain amounts to:
the tables `Without` the rows that go, and without all that names them
(`AssetsDeletedIs`, `BookmarkDeletedIs`, `UserDeletedIs`; for sets of bookmarks and users
by induction on the finite set, `UsersDeletedIs`: what is left is `After`). Which rows go
is `Gone`: the users, what belongs to them, and what belongs to that. From that follow
soundness, as nothing that stays names a row that goes, and, with `TagsAreCounted`,
`BookmarksAreCounted` and `RelationsAreCounted` about the folds of the
confirmation page, `GraphIsDeletion`: different users have different tags and bookmarks, and a link
between two of the users' rows is counted once though it belongs to a tag and to a bookmark.

`AdminInv` has the tables (`Tables`, `Sound`), the log (`LogOK`), the files (`FilesOK`)
and, for each request, that what it holds was read from these tables (`CallOK`). Two parts
make it inductive. An entry of the log speaks of no row that is there *and of no
identifier still to be given out*, so that no later row makes it false; the same holds
of the files a request is about to remove, so that no new asset loses its file. And
files that have no row are those some request is about to remove (`ToRemove`). The
properties that need no request to be at work follow when there is none.

### Import

`Parts_proofs` proves `ImportIsWhole`, which speaks of imports that have ended, from
an invariant about those under way, for any files, imports and requests. The only
hypothesis is `ImportAssumption`: files are sequences of items. `ImportInv` has

- `RowsOK`: one bookmark for each normalized URL, both ends of each link there, and
  no id above the last one given out, so that a new id is none that an import
  remembers;
- `Progress` of each import: the items still to come are the end of its file
  (`Suffix`); the first valid item of each URL among those passed is merged, or its
  URL disturbed (`Merged`); it has seen the URLs of the valid items passed and has an id for
  each name of an item to come (`Remembers`); and such an id is still that of its
  name, or its tag is gone for good, unless the item's URL is disturbed (`Knows`).
  The last part is what a rename of a tag between `Preload` and `ImportItem` would
  break, and the reason for the exception of `disturbed`.

An import's progress is proved against the steps of everybody else in two stages.
`Sees` states what a step may do to the rows without an import noticing: the
bookmark, links and tag names of each URL stay (`Intact`) unless the import calls it
disturbed, and ids keep their names (`Keeps`). `SeesKeeps` shows that such a step
keeps `Progress`; what remains for each action is to be such a step. Other imports
only add (`Grows`), so they disturb nothing.

### Backup and MetadataCache

`Parts_proofs` also proves `TypeOK` and `BackupIsWhole` of `Backup` for any items in
any of the folders, from `BackupAssumption`. `BackupIsWhole` speaks of published backups
only; the inductive invariant is `TypeOK` with `RowsHaveFiles`, which says where
the file of each copied row is before that: in the archive, in the list of the
current folder, or in a folder still to be listed, and then its row is complete,
so the file is on disk when the list is made. It needs that each item is in one
of the folders of the walk and that a deletion commits before it removes a file.
`ServerSteps` says what the server's steps leave alone; `BackupTypeNext` and `RowsNext`
have one step per action.

And it proves `OneValueWhileCached` of `MetadataCache` for any callers, URLs, size of
the cache and number of transfers, from `CacheAssumption`. The property relates what
callers got to the entry that is there now; the invariant adds that a page that is not
cached has been given to nobody since it left (`NothingStale`), or the next entry could differ
from what an earlier caller got. The entry that the second critical section finds
when two callers load one page at once is the case that matters (`FoundKeeps`):
it is the answer, and the caller's own page is dropped.

### Server

`Server_proofs` has a theorem about each property of `Server`: `PartsTypeOK`,
`PlacesDistinct`, `MovePlaces`, `DeletionsAreWhole`, `GraphIsDeletion`, `WalkShowsAll`,
`SubmittedIsApplied`, `ImportIsWhole`, `BackupIsWhole` and `OneValueWhileCached`. The
theorems about the parts are about the instances of `Server`, and no step leaves its part
(`OnePart`). So a behaviour of `Server` is either one of the part all the time and a behaviour of
that part's own specification, or never one of it, and then its property says
nothing (`BundlesRun`, `AdminRun`, ...; `AccountsRun` holds of all
behaviours, since the variables of `Accounts` begin as they should in each). The rest is
temporal logic. An instance has operators of the library of its own: `SizesOfBundles`,
`SizesOfAdmin` and `SameCardinality` say that its sizes of sets are the library's.

### Only model-checked

Liveness: `EveryJobSettles`, `EverySnapshotSettles` and the fairness of
`TaskLifecycle`. The prover has no rules for fairness that use `ENABLED`.
`Search`, whose operators are recursive: what a parser computes for every input
needs an induction over data that the provers cannot instantiate. Of `Bookmarks` on
PostgreSQL only what `BaseInv` gives is proved: `OneBookmarkPerURL`,
`MergeKeepsTaggings`, `KeepsTags` and `RequestsAreWhole` do not hold there, see `bookmarks_twice` and
what follows it. So of the properties of the passing runs `EveryJobSettles`,
`EverySnapshotSettles`, `GrammarHolds` and `TagLinksNarrow` have no theorem; all others
have one that states the definition which the run checks.

## Plan

What could be added: models of notifications and their acknowledgment, of the global
settings row, of the tokenizer of queries character by character, and of the titles that a
refresh writes.

## Not modelled

The migration from the Python server is a sequential copy with the source
stopped. Templates, translations, histories, filters of the admin lists, and
feeds as XML render without state. The configuration, the schema migrations, the
HTTP client's address checks and the conversions of text (Netscape HTML, URLs,
quoting of characters, timestamps, password hashes) are sequential functions of
their input, for which the repository has tests of recorded cases; where a model
depends on one it is a constant (`Norm`, `NormOf`, `HostOf`, `NameOf`, `Parts`, and in
`Search` the `names` of tags and `Bare`). The export reads one
list. `PROJECT.json` gives the reason for each component.
