----------------------------- MODULE MediaFiles -----------------------------
(***************************************************************************)
(* Favicons, preview images and web archive links: the columns that jobs    *)
(* fill in (internal/media/media.go, wayback.go), the files below           *)
(* data/favicons and data/previews, and the requests that queue such jobs,  *)
(* edit the URL they work for, or delete the bookmark.                      *)
(*                                                                          *)
(* A job reads the bookmark, talks to another server for up to minutes, and *)
(* then writes one column.  Of the queue this module keeps that a job is    *)
(* tried again after a failure or a lost lease, that a job's earlier run    *)
(* may still be at work then, and that jobs are given up in the end.  That  *)
(* creating or editing a bookmark queues its jobs in one transaction is     *)
(* what the module Bookmarks is about; here it is one step.                 *)
(*                                                                          *)
(* The titles that refresh_metadata writes are left out.                    *)
(***************************************************************************)
EXTENDS Integers, FiniteSets

CONSTANTS
  Bookmark,
  URL,
  HostOf,      \* the host of a URL, which names its favicon
  URLsOf,      \* the URLs that a bookmark may have
  NormOf,      \* the normalized form of a URL, by which an import finds bookmarks
  Worker,      \* goroutines that run normal jobs, of all processes
  Request,     \* concurrent requests of several steps
  Importer,    \* imports
  Admin,       \* pages with an administrator's form of a bookmark
  Profiles,    \* sets of integrations that the profile enables
  Copies,      \* bound: jobs of one kind for one bookmark
  MaxFaults    \* bound: failed loads and lost leases

Image == {"favicon", "preview"}
Column == Image \cup {"archive"}
JobKind == Column \cup {"rearchive"}    \* an archive job with force_update

ASSUME MediaAssumption ==
  /\ DOMAIN HostOf = URL /\ DOMAIN NormOf = URL
  /\ IsFiniteSet(Worker)
  /\ URLsOf \in [Bookmark -> SUBSET URL]
  /\ Profiles \subseteq SUBSET Column
  /\ Copies \in Nat /\ MaxFaults \in Nat

VARIABLES
  row,        \* bookmarks_bookmark
  enabled,    \* the integrations that the profile enables
  files,      \* the files in data/favicons and data/previews
  queued,     \* how many jobs wait, for each bookmark and kind
  run,        \* the local variables of each worker's handler
  request,    \* the local variables of each request, and what a page shows
  asked,      \* history: the images that a bookmark ever had a job for
  excused,    \* history: columns whose job was given up, turned away, or never queued
  missed,     \* history: images that no request was to ask for, or did not get to
  faults

vars == <<row, enabled, files, queued, run, request, asked, excused, missed, faults>>

NoFile == <<>>
ColumnOf(k) == IF k = "rearchive" THEN "archive" ELSE k

\* A file, or an archive link: its column and the host or URL it is named
\* after.  Its type is left out.
File(c, url) == <<c, IF c = "favicon" THEN HostOf[url] ELSE url>>

New(url) == [url |-> url, favicon |-> NoFile, preview |-> NoFile, archive |-> NoFile]
Unborn == [url |-> "unborn"]
Gone == [url |-> "gone"]
Live == {b \in Bookmark : row[b] \notin {Unborn, Gone}}

Idle == [at |-> "idle"]
Actor == Request \cup Importer \cup Admin

Init ==
  /\ row = [b \in Bookmark |-> Unborn]
  /\ enabled \in Profiles
  /\ files = {}
  /\ queued = [j \in Bookmark \X JobKind |-> 0]
  /\ run = [w \in Worker |-> Idle]
  /\ request = [r \in Actor |-> Idle]
  /\ asked = {} /\ excused = {} /\ missed = {} /\ faults = 0

Busy(w) == run[w].at # "idle"
Held(j) == {w \in Worker : Busy(w) /\ run[w].job = j /\ run[w].held}
Room(j) == queued[j] + Cardinality(Held(j)) < Copies
Enqueue(js) ==
  /\ \A j \in js : Room(j)
  /\ queued' = [j \in DOMAIN queued |-> IF j \in js THEN queued[j] + 1 ELSE queued[j]]
  /\ asked' = asked \cup {j \in js : j[2] \in Image}

-----------------------------------------------------------------------------
(***************************************************************************)
(* Jobs.                                                                    *)
(***************************************************************************)
Ends(w) == run' = [run EXCEPT ![w] = Idle]

\* The claim, and bookmarkForJob.  The job of a deleted bookmark is done, and
\* so is one that would archive a page again without force_update.
Begin(w) ==
  \E j \in DOMAIN queued :
    LET b == j[1]
        c == ColumnOf(j[2])
    IN
    /\ ~Busy(w) /\ queued[j] > 0
    /\ queued' = [queued EXCEPT ![j] = @ - 1]
    /\ IF b \in Live /\ ~(j[2] = "archive" /\ row[b].archive # NoFile)
       THEN run' = [run EXCEPT ![w] = [at |-> "loading", job |-> j, held |-> TRUE, result |-> NoFile,
                                       url |-> row[b].url, current |-> row[b][c]]]
       ELSE UNCHANGED run
    /\ UNCHANGED <<row, enabled, files, request, asked, excused, missed, faults>>

Loading(w, c) == run[w].at = "loading" /\ ColumnOf(run[w].job[2]) = c
Loads(w, file) == run' = [run EXCEPT ![w].at = "loaded", ![w].result = file]

\* loadFavicon: the file is loaded, or a fresh one of the same host is used.
LoadFavicon(w) ==
  LET file == File("favicon", run[w].url) IN
  /\ Loading(w, "favicon")
  /\ files' = files \cup {file}
  /\ Loads(w, file)
  /\ UNCHANGED <<row, enabled, queued, request, asked, excused, missed, faults>>

\* loadPreview: a page may have no image that can be used.
LoadPreview(w) ==
  LET file == File("preview", run[w].url) IN
  /\ Loading(w, "preview")
  /\ \/ Loads(w, NoFile) /\ UNCHANGED files
     \/ Loads(w, file) /\ files' = files \cup {file}
  /\ UNCHANGED <<row, enabled, queued, request, asked, excused, missed, faults>>

\* The request of SaveWebArchive; when the service turns it away (429, 509) the
\* job is done.
LoadArchive(w) ==
  /\ Loading(w, "archive")
  /\ \/ Loads(w, File("archive", run[w].url)) /\ UNCHANGED excused
     \/ Ends(w) /\ excused' = excused \cup {<<run[w].job[1], "archive">>}
  /\ UNCHANGED <<row, enabled, files, queued, request, asked, missed, faults>>

\* updateFile, unless the column is as it was read.
Saves(w, anyURL) ==
  LET b == run[w].job[1]
      c == ColumnOf(run[w].job[2])
      written == /\ b \in Live /\ (anyURL \/ row[b].url = run[w].url)
                 /\ c = "archive" \/ run[w].result # run[w].current
  IN
  /\ run[w].at = "loaded"
  /\ row' = IF written THEN [row EXCEPT ![b][c] = run[w].result] ELSE row
  /\ Ends(w)
  /\ UNCHANGED <<enabled, files, queued, request, asked, excused, missed, faults>>
\* Mutant: the UPDATE without AND url = ....
SaveAnyURL(w) == Saves(w, TRUE)
Save(w) == Saves(w, FALSE)

\* The job waits to be tried again, or is given up.
Retried(w) ==
  \/ queued' = [queued EXCEPT ![run[w].job] = @ + 1] /\ UNCHANGED excused
  \/ /\ excused' = excused \cup {<<run[w].job[1], ColumnOf(run[w].job[2])>>}
     /\ UNCHANGED queued

\* Another server's error or the handler's own.  Only the worker that still
\* holds the lease says so to the queue.
Fail(w) ==
  /\ Busy(w) /\ faults < MaxFaults
  /\ faults' = faults + 1
  /\ Ends(w)
  /\ IF run[w].held THEN Retried(w) ELSE UNCHANGED <<queued, excused>>
  /\ UNCHANGED <<row, enabled, files, request, asked, missed>>

\* The lease runs out while the handler works on, until it notices.
Loses(w, held) ==
  /\ Busy(w) /\ run[w].held /\ faults < MaxFaults
  /\ faults' = faults + 1
  /\ run' = [run EXCEPT ![w].held = held]
  /\ Retried(w)
  /\ UNCHANGED <<row, enabled, files, request, asked, missed>>
\* Mutant: the earlier run still passes for the holder of the lease.
LoseNothing(w) == Loses(w, TRUE)
LoseLease(w) == Loses(w, FALSE)

Cancel(w) ==
  /\ Busy(w) /\ ~run[w].held
  /\ Ends(w)
  /\ UNCHANGED <<row, enabled, files, queued, request, asked, excused, missed, faults>>

-----------------------------------------------------------------------------
(***************************************************************************)
(* Requests that are one transaction.                                       *)
(***************************************************************************)
\* CreateData and its task effects.
Create(b) ==
  \E url \in URLsOf[b] :
    /\ row[b] = Unborn
    /\ row' = [row EXCEPT ![b] = New(url)]
    /\ Enqueue({b} \X enabled)
    /\ UNCHANGED <<enabled, files, run, request, excused, missed, faults>>

\* UpdateData and its task effects.  A new URL makes every column stale until
\* its job is done; one that is not enabled gets no job.
Edits(b, archiveJob) ==
  \E url \in URLsOf[b] :
    /\ b \in Live
    /\ row' = [row EXCEPT ![b].url = url]
    /\ Enqueue({b} \X ((enabled \cap Image)
                       \cup {k \in {archiveJob} : "archive" \in enabled /\ url # row[b].url}))
    /\ excused' = IF url = row[b].url THEN excused
                  ELSE (excused \ ({b} \X enabled)) \cup ({b} \X (Column \ enabled))
    /\ UNCHANGED <<enabled, files, run, request, missed, faults>>
\* Mutant: a new URL without force_update.
EditUnforced(b) == Edits(b, "archive")
Edit(b) == Edits(b, "rearchive")

\* The administrator's form for a new bookmark queues nothing.  Names of files
\* that an administrator makes up are left out.
AdminCreate(b) ==
  \E url \in URLsOf[b] :
    /\ row[b] = Unborn
    /\ row' = [row EXCEPT ![b] = New(url)]
    /\ missed' = missed \cup ({b} \X (enabled \cap Image))
    /\ UNCHANGED <<enabled, files, queued, run, request, asked, excused, faults>>

\* The profile in the administrator's form of a user, which queues nothing.
AdminProfile ==
  \E new \in Profiles :
    /\ enabled' = new
    /\ missed' = missed \cup (Live \X ((new \ enabled) \cap Image))
    /\ UNCHANGED <<row, files, queued, run, request, asked, excused, faults>>

\* bulk_refresh of one bookmark, whatever the profile enables.
Refresh(b) ==
  /\ b \in Live
  /\ Enqueue({<<b, "preview">>})
  /\ UNCHANGED <<row, enabled, files, run, request, excused, missed, faults>>

-----------------------------------------------------------------------------
(***************************************************************************)
(* Requests of several steps.                                               *)
(***************************************************************************)
Free(r) == request[r].at = "idle"
Sets(r, local) == request' = [request EXCEPT ![r] = local]

\* DeleteData; then serveBookmarkDelete removes the preview, if there is one.
Deletes(r, b, doomed) ==
  /\ Free(r) /\ b \in Live
  /\ row' = [row EXCEPT ![b] = Gone]
  /\ Sets(r, [at |-> "removing", doomed |-> doomed])
  /\ UNCHANGED <<enabled, files, queued, run, asked, excused, missed, faults>>
\* Mutant: the favicon is removed too, though other bookmarks of the host use it.
DeleteBoth(r, b) == b \in Live /\ Deletes(r, b, {row[b].favicon, row[b].preview})
Delete(r, b) == b \in Live /\ Deletes(r, b, {row[b].preview})

RemoveFile(r) ==
  /\ request[r].at = "removing"
  /\ files' = files \ request[r].doomed
  /\ Sets(r, Idle)
  /\ UNCHANGED <<row, enabled, queued, run, asked, excused, missed, faults>>

\* UpdateProfileWithTasks: the profile is read, then written, and then the
\* bookmarks without the newly enabled images are queued.
ReadProfile(r) ==
  \E new \in Profiles :
    /\ Free(r)
    /\ Sets(r, [at |-> "saving", before |-> enabled, new |-> new])
    /\ UNCHANGED <<row, enabled, files, queued, run, asked, excused, missed, faults>>

\* What was enabled before may have changed since it was read: an image that
\* this write enables and that was enabled at the read is not noticed.
Updates(r, before) ==
  LET new == request[r].new
      kinds == (new \ before) \cap Image
      unnoticed == (new \ enabled) \cap request[r].before \cap Image
  IN
  /\ request[r].at = "saving"
  /\ enabled' = new
  /\ missed' = missed \cup (Live \X unnoticed)
  /\ Sets(r, IF kinds = {} THEN Idle ELSE [at |-> "selecting", kinds |-> kinds])
  /\ UNCHANGED <<row, files, queued, run, asked, excused, faults>>
\* Mutant: the profile is read after it is written, so nothing is newly enabled.
UpdateAfterRead(r) == Updates(r, request[r].new)
UpdateProfile(r) == Updates(r, request[r].before)

\* EnqueueMissingMedia, first for favicons and then for previews.
SelectMissing(r) ==
  LET kind == IF "favicon" \in request[r].kinds THEN "favicon" ELSE "preview" IN
  /\ request[r].at = "selecting"
  /\ Sets(r, [at |-> "queueing", kinds |-> request[r].kinds, kind |-> kind,
              todo |-> {b \in Live : row[b][kind] = NoFile}])
  /\ UNCHANGED <<row, enabled, files, queued, run, asked, excused, missed, faults>>

\* ImportNetscape: bookmarks without jobs, each in a transaction of its own, and
\* then the missing images of what the profile enables by then.
StartImport(r) ==
  /\ Free(r)
  /\ Sets(r, [at |-> "importing", imported |-> {}])
  /\ UNCHANGED <<row, enabled, files, queued, run, asked, excused, missed, faults>>

\* The bookmarks that an import takes for the one of a URL.
Twins(url) == {b \in Live : NormOf[row[b].url] = NormOf[url]}

ImportOne(r, b) ==
  \E url \in URLsOf[b] :
    /\ request[r].at = "importing" /\ row[b] = Unborn /\ Twins(url) = {}
    /\ row' = [row EXCEPT ![b] = New(url)]
    /\ Sets(r, [request[r] EXCEPT !.imported = @ \cup {b}])
    /\ UNCHANGED <<enabled, files, queued, run, asked, excused, missed, faults>>

\* A bookmark that is there gets the URL of the file: its columns stay, and no
\* job is queued for them.
ImportAgain(r, b) ==
  \E url \in URLsOf[b] :
    /\ request[r].at = "importing" /\ b \in Twins(url)
    /\ row' = [row EXCEPT ![b].url = url]
    /\ excused' = IF url = row[b].url THEN excused ELSE excused \cup ({b} \X Column)
    /\ UNCHANGED <<enabled, files, queued, run, request, asked, missed, faults>>

ScheduleImport(r) ==
  LET kinds == enabled \cap Image IN
  /\ request[r].at = "importing"
  /\ Sets(r, IF kinds = {} THEN Idle ELSE [at |-> "selecting", kinds |-> kinds])
  /\ UNCHANGED <<row, enabled, files, queued, run, asked, excused, missed, faults>>

\* serveAdminBookmark: a page with the row, and later the form on it, which
\* writes any URL and the columns as the page showed them, and queues nothing.
ReadForm(r, b) ==
  /\ request[r].at \in {"idle", "form"} /\ b \in Live
  /\ Sets(r, [at |-> "form", b |-> b, shown |-> row[b]])
  /\ UNCHANGED <<row, enabled, files, queued, run, asked, excused, missed, faults>>

SaveForm(r) ==
  LET b == request[r].b
      shown == request[r].shown
      stale(url) == {c \in Column : url # row[b].url \/ shown[c] # row[b][c]}
  IN
  /\ request[r].at = "form"
  /\ IF b \in Live
     THEN \E url \in URLsOf[b] : /\ row' = [row EXCEPT ![b] = [shown EXCEPT !.url = url]]
                                /\ excused' = excused \cup ({b} \X stale(url))
     ELSE UNCHANGED <<row, excused>>
  /\ Sets(r, Idle)
  /\ UNCHANGED <<enabled, files, queued, run, asked, missed, faults>>

\* EnqueueRefreshFavicons: all bookmarks, if favicons are enabled.
RefreshFavicons(r) ==
  /\ Free(r) /\ "favicon" \in enabled
  /\ Sets(r, [at |-> "queueing", kinds |-> {}, kind |-> "favicon", todo |-> Live])
  /\ UNCHANGED <<row, enabled, files, queued, run, asked, excused, missed, faults>>

QueueOne(r) ==
  /\ request[r].at = "queueing"
  /\ \E b \in request[r].todo :
       /\ Enqueue({<<b, request[r].kind>>})
       /\ Sets(r, [request[r] EXCEPT !.todo = @ \ {b}])
  /\ UNCHANGED <<row, enabled, files, run, excused, missed, faults>>

QueuedAll(r) ==
  LET rest == request[r].kinds \ {request[r].kind} IN
  /\ request[r].at = "queueing" /\ request[r].todo = {}
  /\ Sets(r, IF rest = {} THEN Idle ELSE [at |-> "selecting", kinds |-> rest])
  /\ UNCHANGED <<row, enabled, files, queued, run, asked, excused, missed, faults>>

\* An error, a client that is gone, or the end of the process.
CutShort(r) ==
  /\ ~Free(r) /\ faults < MaxFaults
  /\ faults' = faults + 1
  /\ missed' = IF request[r].at \in {"selecting", "queueing"}
               THEN missed \cup (Live \X request[r].kinds)
               ELSE IF request[r].at = "importing"
               THEN missed \cup (request[r].imported \X (enabled \cap Image)) ELSE missed
  /\ Sets(r, Idle)
  /\ UNCHANGED <<row, enabled, files, queued, run, asked, excused>>

Next ==
  \/ \E w \in Worker : \/ Begin(w) \/ LoadFavicon(w) \/ LoadPreview(w) \/ LoadArchive(w)
                       \/ Save(w) \/ Fail(w) \/ LoseLease(w) \/ Cancel(w)
  \/ \E b \in Bookmark : Create(b) \/ Edit(b) \/ Refresh(b) \/ AdminCreate(b)
  \/ AdminProfile
  \/ \E r \in Request :
       \/ \E b \in Bookmark : Delete(r, b)
       \/ RemoveFile(r) \/ ReadProfile(r) \/ UpdateProfile(r) \/ RefreshFavicons(r)
  \/ \E r \in Importer : \/ StartImport(r) \/ ScheduleImport(r)
                         \/ \E b \in Bookmark : ImportOne(r, b) \/ ImportAgain(r, b)
  \/ \E r \in Admin : SaveForm(r) \/ \E b \in Bookmark : ReadForm(r, b)
  \/ \E r \in Request \cup Importer :
       SelectMissing(r) \/ QueueOne(r) \/ QueuedAll(r) \/ CutShort(r)

Spec == Init /\ [][Next]_vars

-----------------------------------------------------------------------------
(***************************************************************************)
(* Properties.                                                              *)
(***************************************************************************)
\* Every variable has its type, and no step makes more jobs of one kind for a
\* bookmark than requests made: a job is not queued again by two of its runs.
TypeOK ==
  /\ \A b \in Live : /\ row[b].url \in URLsOf[b]
                     /\ \A c \in Column :
                          row[b][c] \in {NoFile} \cup {File(c, url) : url \in URLsOf[b]}
  /\ enabled \in Profiles
  /\ files \subseteq {File(c, url) : c \in Image, url \in URL}
  /\ \A j \in Bookmark \X JobKind : queued[j] + Cardinality(Held(j)) \in 0..Copies
  /\ asked \subseteq Bookmark \X Image /\ missed \subseteq Bookmark \X Image
  /\ excused \subseteq Bookmark \X Column
  /\ faults \in 0..MaxFaults

\* Some job for this column of this bookmark waits or is at work.
Expected(b, c) ==
  \/ \E k \in JobKind : ColumnOf(k) = c /\ queued[b, k] > 0
  \/ \E w \in Worker : Busy(w) /\ run[w].job[1] = b /\ ColumnOf(run[w].job[2]) = c

\* What a bookmark shows is of the page it links to: once no job for a column
\* is left, the favicon, preview or archive link in it is of the bookmark's own
\* URL, whatever edits the URL had while jobs of its old URLs were at work, and
\* however often those were tried again.  It may be of an old URL only if its
\* job was given up, the integration was off at the edit, or an import or an
\* administrator's form wrote the row: those change a URL without jobs, and the
\* form brings back the columns that its page showed
\* (media.go updateFile, AND url = ...; tasks.go, force_update).
ShowsItsPage ==
  \A b \in Live, c \in Column :
    row[b][c] \in {NoFile, File(c, row[b].url)} \/ <<b, c>> \in excused \/ Expected(b, c)

\* The images that bookmarks name are there: deleting a bookmark takes no file
\* from another one, even when both are of one host, and even when it happens
\* between the writing of the file and of the column.  For bookmarks of
\* different URLs (bookmark_delete.go; delete.go, "Favicon files remain shared").
NamedFilesExist ==
  \A b \in Live, c \in Image : row[b][c] = NoFile \/ row[b][c] \in files

\* An image that the profile enables reaches every bookmark: those that were
\* there when it was enabled, and those created or edited while the request that
\* enables it is at work: each had a job for it, or a request is to queue one.
\* Only a request that is cut short, one that wrote its profile over another's,
\* and an administrator's form leave bookmarks that never had a job
\* (profile.go UpdateProfileWithTasks, media_schedule.go, tasks.go).
EnabledMeansAsked ==
  \A b \in Live, c \in enabled \cap Image :
    \/ <<b, c>> \in asked \cup missed
    \/ \E r \in Actor :
         \/ request[r].at \in {"selecting", "queueing"} /\ c \in request[r].kinds
         \/ request[r].at = "importing" /\ b \in request[r].imported
=============================================================================
