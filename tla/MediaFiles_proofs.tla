-------------------------- MODULE MediaFiles_proofs --------------------------
(***************************************************************************)
(* Proofs about MediaFiles, for any bookmarks, URLs, workers, requests and *)
(* imports: the types, what a column shows, the files that columns name,   *)
(* and the reach of an integration.                                        *)
(***************************************************************************)
EXTENDS MediaFiles, FiniteSetTheorems, TLAPS

Job == Bookmark \X JobKind
FileOrNone == {NoFile} \cup {File(c, u) : c \in Column, u \in URL}
ImageFiles == {File(c, u) : c \in Image, u \in URL}
Row == [url : URL, favicon : FileOrNone, preview : FileOrNone, archive : FileOrNone]
Run == [at : {"loading", "loaded"}, job : Job, held : BOOLEAN, result : FileOrNone,
        url : URL, current : FileOrNone]

\* What a column of a bookmark may hold, of the URLs it has or had.
Shown(b, c) == {NoFile} \cup {File(c, u) : u \in URLsOf[b]}
IsRow(b, x) == x \in Row /\ x.url \in URLsOf[b] /\ \A c \in Column : x[c] \in Shown(b, c)
IsRun(x) ==
  /\ x \in Run /\ x.url \in URLsOf[x.job[1]]
  /\ x.at = "loaded" => x.result \in {NoFile, File(ColumnOf(x.job[2]), x.url)}
IsLocal(x) ==
  /\ x.at \in {"idle", "removing", "saving", "selecting", "queueing", "importing", "form"}
  /\ x.at = "form" => x.b \in Bookmark /\ IsRow(x.b, x.shown)
  /\ x.at = "saving" => x.new \in Profiles
  /\ x.at = "selecting" => x.kinds \subseteq Image
  /\ x.at = "queueing" =>
       x \in [at : {"queueing"}, kinds : SUBSET Image, kind : Image, todo : SUBSET Bookmark]
  /\ x.at = "importing" => x \in [at : {"importing"}, imported : SUBSET Bookmark]

RowsOK ==
  /\ DOMAIN row = Bookmark
  /\ \A b \in Bookmark : row[b] \in {Unborn, Gone} \/ IsRow(b, row[b])
RunsOK ==
  /\ DOMAIN run = Worker
  /\ \A w \in Worker : run[w] = Idle \/ IsRun(run[w])
LocalsOK ==
  /\ DOMAIN request = Actor
  /\ \A r \in Actor : IsLocal(request[r])
TablesOK ==
  /\ queued \in [Job -> Nat] /\ enabled \in Profiles /\ faults \in 0..MaxFaults
  /\ files \subseteq ImageFiles
  /\ asked \subseteq Bookmark \X Image /\ missed \subseteq Bookmark \X Image
  /\ excused \subseteq Bookmark \X Column

\* The workers that count for a job, of the locals f.
HeldOf(x, j) == x.at # "idle" /\ x.job = j /\ x.held
HeldIn(f, j) == {w \in Worker : HeldOf(f[w], j)}
Bound == \A j \in Job : queued[j] + Cardinality(HeldIn(run, j)) <= Copies

Types == RowsOK /\ RunsOK /\ LocalsOK /\ TablesOK /\ Bound

-----------------------------------------------------------------------------
(***************************************************************************)
(* Records and files.                                                       *)
(***************************************************************************)
\* A file is named after its column, and but for favicons after one URL.
LEMMA FileNames ==
  ASSUME NEW c, NEW d, NEW u, NEW v
  PROVE  /\ File(c, u) # NoFile
         /\ File(c, u) = File(d, v) => c = d
         /\ c # "favicon" /\ File(c, u) = File(c, v) => u = v
  BY DEF File, NoFile

\* A bookmark that is there is neither unborn nor gone.
LEMMA RowsDiffer ==
  /\ Unborn # Gone
  /\ \A x \in Row : x \notin {Unborn, Gone}
  <1>1. Unborn.url = "unborn" /\ Gone.url = "gone"
    BY DEF Unborn, Gone
  <1>2. DOMAIN Unborn = {"url"} /\ DOMAIN Gone = {"url"}
    BY DEF Unborn, Gone
  <1>3. \A x \in Row : "favicon" \in DOMAIN x
    BY DEF Row
  <1> QED BY <1>1, <1>2, <1>3

\* A new bookmark's columns are empty.
LEMMA NewRow ==
  ASSUME NEW b \in Bookmark, NEW url \in URLsOf[b]
  PROVE  /\ IsRow(b, New(url)) /\ New(url).url = url
         /\ \A c \in Column : New(url)[c] = NoFile
  <1>1. url \in URL
    BY MediaAssumption
  <1>2. \A c \in Column : New(url)[c] = NoFile
    BY DEF New, Column, Image
  <1>3. New(url) \in Row /\ New(url).url = url
    BY <1>1 DEF New, Row, FileOrNone
  <1> QED BY <1>2, <1>3 DEF IsRow, Shown

WithURL(x, url) == [x EXCEPT !.url = url]
\* An edit of the URL keeps the columns.
LEMMA EditedRow ==
  ASSUME NEW b \in Bookmark, NEW url \in URLsOf[b], NEW x, IsRow(b, x)
  PROVE  /\ IsRow(b, WithURL(x, url)) /\ WithURL(x, url).url = url
         /\ \A c \in Column : WithURL(x, url)[c] = x[c]
  <1>1. url \in URL
    BY MediaAssumption
  <1>2. WithURL(x, url) \in Row /\ WithURL(x, url).url = url
    BY <1>1 DEF IsRow, Row, WithURL
  <1>3. \A c \in Column : WithURL(x, url)[c] = x[c]
    BY DEF IsRow, Row, WithURL, Column, Image
  <1> QED BY <1>2, <1>3 DEF IsRow

WithColumn(x, c, file) == [x EXCEPT ![c] = file]
\* A job writes its column.
LEMMA SavedRow ==
  ASSUME NEW b \in Bookmark, NEW c \in Column, NEW x, IsRow(b, x), NEW file \in Shown(b, c)
  PROVE  /\ IsRow(b, WithColumn(x, c, file)) /\ WithColumn(x, c, file).url = x.url
         /\ WithColumn(x, c, file)[c] = file
         /\ \A d \in Column \ {c} : WithColumn(x, c, file)[d] = x[d]
  <1>1. file \in FileOrNone
    BY MediaAssumption DEF Shown, FileOrNone
  <1>2. WithColumn(x, c, file) \in Row /\ WithColumn(x, c, file).url = x.url
    BY <1>1 DEF IsRow, Row, WithColumn, Column, Image
  <1>3. /\ WithColumn(x, c, file)[c] = file
        /\ \A d \in Column \ {c} : WithColumn(x, c, file)[d] = x[d]
    BY DEF IsRow, Row, WithColumn, Column, Image
  <1> QED BY <1>2, <1>3 DEF IsRow

Begun(j, x) ==
  [at |-> "loading", job |-> j, held |-> TRUE, result |-> NoFile,
   url |-> x.url, current |-> x[ColumnOf(j[2])]]
\* The locals of a handler that has read its bookmark.
LEMMA BegunRun ==
  ASSUME NEW j \in Job, NEW x, IsRow(j[1], x)
  PROVE  /\ IsRun(Begun(j, x)) /\ Begun(j, x).at = "loading" /\ Begun(j, x).job = j
         /\ Begun(j, x).held /\ Begun(j, x).url = x.url
         /\ Begun(j, x).current = x[ColumnOf(j[2])]
  <1>1. ColumnOf(j[2]) \in Column
    BY DEF Job, JobKind, ColumnOf, Column
  <1>2. x[ColumnOf(j[2])] \in FileOrNone
    BY <1>1, MediaAssumption DEF IsRow, Shown, FileOrNone, Job
  <1>3. x.url \in URL /\ x.url \in URLsOf[j[1]] /\ NoFile \in FileOrNone
    BY DEF IsRow, Row, FileOrNone
  <1> QED BY <1>2, <1>3 DEF IsRun, Run, Begun

WithResult(x, file) == [x EXCEPT !.at = "loaded", !.result = file]
\* The locals of a handler whose transfer has ended.
LEMMA LoadedRun ==
  ASSUME NEW x, IsRun(x), NEW file \in {NoFile, File(ColumnOf(x.job[2]), x.url)}
  PROVE  LET y == WithResult(x, file) IN
         /\ IsRun(y) /\ y.at = "loaded" /\ y.result = file /\ y.job = x.job
         /\ y.held = x.held /\ y.url = x.url /\ y.current = x.current
  <1>1. ColumnOf(x.job[2]) \in Column
    BY DEF IsRun, Run, Job, JobKind, ColumnOf, Column
  <1>2. file \in FileOrNone
    BY <1>1 DEF IsRun, Run, FileOrNone
  <1>3. LET y == WithResult(x, file) IN
        /\ y \in Run /\ y.at = "loaded" /\ y.result = file /\ y.job = x.job
        /\ y.held = x.held /\ y.url = x.url /\ y.current = x.current
    BY <1>2 DEF IsRun, Run, WithResult
  <1> QED BY <1>3 DEF IsRun

Orphan(x) == [x EXCEPT !.held = FALSE]
\* The locals of a handler that has lost its lease.
LEMMA OrphanRun ==
  ASSUME NEW x, IsRun(x)
  PROVE  LET y == Orphan(x) IN
         /\ IsRun(y) /\ y.at = x.at /\ y.result = x.result /\ y.job = x.job
         /\ ~y.held /\ y.url = x.url /\ y.current = x.current
  <1>1. LET y == Orphan(x) IN
         /\ y \in Run /\ y.at = x.at /\ y.result = x.result /\ y.job = x.job
         /\ ~y.held /\ y.url = x.url /\ y.current = x.current
    BY DEF IsRun, Run, Orphan
  <1> QED BY <1>1 DEF IsRun

One(x, j) == IF HeldOf(x, j) THEN 1 ELSE 0
\* Counting the holders of a job when one worker moves.
LEMMA Counting ==
  ASSUME NEW w \in Worker, \A v \in Worker \ {w} : run'[v] = run[v], NEW j \in Job
  PROVE  /\ Cardinality(HeldIn(run, j)) \in Nat /\ Cardinality(HeldIn(run', j)) \in Nat
         /\ Cardinality(HeldIn(run', j)) = Cardinality(HeldIn(run, j)) + One(run'[w], j) - One(run[w], j)
  <1> DEFINE Others == {v \in Worker \ {w} : HeldOf(run[v], j)}
  <1>1. IsFiniteSet(Worker)
    BY MediaAssumption
  <1>2. Others \in SUBSET Worker
    OBVIOUS
  <1>3. IsFiniteSet(Others) /\ w \notin Others
    BY <1>1, <1>2, FS_Subset
  <1>4. HeldIn(run, j) = IF HeldOf(run[w], j) THEN Others \cup {w} ELSE Others
    BY DEF HeldIn
  <1>5. HeldIn(run', j) = IF HeldOf(run'[w], j) THEN Others \cup {w} ELSE Others
    BY DEF HeldIn
  <1> HIDE DEF Others
  <1>6. Cardinality(Others) \in Nat /\ Cardinality(Others \cup {w}) = Cardinality(Others) + 1
    BY <1>3, FS_AddElement, FS_CardinalityType
  <1> QED BY <1>4, <1>5, <1>6 DEF One

-----------------------------------------------------------------------------
(***************************************************************************)
(* What holds beyond the types.                                             *)
(***************************************************************************)
Shows(x, c) == x[c] \in {NoFile, File(c, x.url)}
\* A job that will write the column waits.  A plain archive job would leave a
\* link as it is, so it is not one of them.
Waits(q, b, c) == \E k \in JobKind : ColumnOf(k) = c /\ k # "archive" /\ q[<<b, k>>] > 0
\* A worker that will write the column of the row y, or hand its job on: it
\* has read the present URL, and the column was already wrong.
Mends(x, y, b, c) ==
  /\ x.at # "idle" /\ x.held /\ x.job[1] = b /\ ColumnOf(x.job[2]) = c /\ x.job[2] # "archive"
  /\ x.url = y.url
  /\ c = "archive" \/ x.current \notin {NoFile, File(c, y.url)}
PagesInv ==
  \A b \in Bookmark, c \in Column :
    \/ row[b] \in {Unborn, Gone} \/ Shows(row[b], c) \/ <<b, c>> \in excused
    \/ Waits(queued, b, c) \/ \E w \in Worker : Mends(run[w], row[b], b, c)

\* The files that columns name, that handlers are about to write into a column,
\* and that deletions are about to remove.
Named == \A b \in Bookmark, c \in Image : row[b] \in {Unborn, Gone} \/ row[b][c] \in {NoFile} \cup files
Made ==
  \A w \in Worker : run[w].at = "loaded" /\ ColumnOf(run[w].job[2]) \in Image
                    /\ row[run[w].job[1]] # Gone => run[w].result \in {NoFile} \cup files
Doomed ==
  \A r \in Actor : request[r].at = "removing" =>
    \E b \in Bookmark : row[b] = Gone /\ request[r].doomed \subseteq Shown(b, "preview")
\* The files that pages of administrators show.
FormsMade ==
  \A r \in Actor : request[r].at = "form" /\ row[request[r].b] # Gone =>
    \A c \in Image : request[r].shown[c] \in {NoFile} \cup files
URLsApart == \A b, c \in Bookmark : b # c => URLsOf[b] \cap URLsOf[c] = {}
FilesInv == Doomed /\ (URLsApart => Named /\ Made /\ FormsMade)

\* A request that will ask for an image of a bookmark, if it is missing.
Covers(x, b, c) ==
  \/ x.at = "selecting" /\ c \in x.kinds
  \/ x.at = "queueing" /\ c \in x.kinds /\ (c # x.kind \/ b \in x.todo)
  \/ x.at = "importing" /\ b \in x.imported
JobsAsked ==
  /\ \A j \in Job : j[2] \in Image /\ queued[j] > 0 => j \in asked
  /\ \A w \in Worker : run[w].at # "idle" /\ run[w].job[2] \in Image => run[w].job \in asked
ImagesAsked ==
  \A b \in Bookmark, c \in enabled \cap Image :
    \/ row[b] \in {Unborn, Gone} \/ <<b, c>> \in asked \cup missed \/ row[b][c] # NoFile
    \/ \E r \in Actor : Covers(request[r], b, c)

\* An image in a column, or in a page of an administrator, had a job.
FilesAsked ==
  /\ \A b \in Bookmark, c \in Image :
       row[b] \in {Unborn, Gone} \/ row[b][c] = NoFile \/ <<b, c>> \in asked
  /\ \A r \in Actor : request[r].at = "form" =>
       \A c \in Image : request[r].shown[c] = NoFile \/ <<request[r].b, c>> \in asked

MediaInv == Types /\ PagesInv /\ FilesInv /\ JobsAsked /\ ImagesAsked /\ FilesAsked

\* The first state.
LEMMA InitMedia == Init => MediaInv
  <1> SUFFICES ASSUME Init PROVE MediaInv
    OBVIOUS
  <1>0. Idle.at = "idle"
    BY DEF Idle
  <1>1. RowsOK /\ RunsOK
    BY DEF Init, RowsOK, RunsOK
  <1>2. LocalsOK
    BY <1>0 DEF Init, LocalsOK, IsLocal
  <1>3. TablesOK
    BY MediaAssumption DEF Init, TablesOK, Job
  <1>4. Bound
    <2> SUFFICES ASSUME NEW j \in Job PROVE queued[j] + Cardinality(HeldIn(run, j)) <= Copies
      BY DEF Bound
    <2>1. HeldIn(run, j) = {} /\ queued[j] = 0
      BY <1>0 DEF Init, HeldIn, HeldOf, Job
    <2> QED BY <2>1, FS_EmptySet, MediaAssumption
  <1>5. PagesInv
    BY DEF Init, PagesInv
  <1>6. FilesInv
    BY <1>0 DEF Init, FilesInv, Named, Made, FormsMade, Doomed
  <1>7. JobsAsked
    BY <1>0 DEF Init, JobsAsked, Job
  <1>8. ImagesAsked
    BY DEF Init, ImagesAsked
  <1>9. FilesAsked
    BY <1>0 DEF Init, FilesAsked
  <1> QED BY <1>1, <1>2, <1>3, <1>4, <1>5, <1>6, <1>7, <1>8, <1>9 DEF MediaInv, Types

-----------------------------------------------------------------------------
(***************************************************************************)
(* What steps leave alone.                                                  *)
(***************************************************************************)
\* Jobs are added, and what was excused stays so.
LEMMA PagesKept ==
  ASSUME TablesOK, PagesInv, UNCHANGED <<row, run>>, excused \subseteq excused',
         \A j \in Job : queued'[j] \in Nat /\ queued'[j] >= queued[j]
  PROVE  PagesInv'
  <1>1. \A b \in Bookmark, c \in Column : Waits(queued, b, c) => Waits(queued', b, c)
    <2> SUFFICES ASSUME NEW b \in Bookmark, NEW c \in Column, Waits(queued, b, c)
                 PROVE  Waits(queued', b, c)
      OBVIOUS
    <2>1. PICK k \in JobKind : ColumnOf(k) = c /\ k # "archive" /\ queued[<<b, k>>] > 0
      BY DEF Waits
    <2>2. <<b, k>> \in Job
      BY DEF Job
    <2>3. queued[<<b, k>>] \in Nat
      BY <2>2 DEF TablesOK
    <2>4. queued'[<<b, k>>] > 0
      BY <2>1, <2>2, <2>3
    <2> QED BY <2>1, <2>4 DEF Waits
  <1> QED BY <1>1 DEF PagesInv

\* Files are added, and no request begins to remove any.
LEMMA FilesKept ==
  ASSUME FilesInv, UNCHANGED <<row, run>>, files \subseteq files',
         \A r \in Actor : request'[r] = request[r] \/ request'[r].at \notin {"removing", "form"}
  PROVE  FilesInv'
  <1>1. Doomed'
    BY DEF FilesInv, Doomed
  <1>2. ASSUME URLsApart PROVE Named' /\ Made' /\ FormsMade'
    <2>1. Named /\ Made /\ FormsMade
      BY <1>2 DEF FilesInv
    <2>2. Named' /\ Made'
      BY <2>1 DEF Named, Made
    <2>3. FormsMade'
      BY <2>1 DEF FormsMade
    <2> QED BY <2>2, <2>3
  <1> QED BY <1>1, <1>2 DEF FilesInv

\* Images had jobs, and no page with a form is loaded.
LEMMA AskedKept ==
  ASSUME FilesAsked, row' = row, asked \subseteq asked',
         \A r \in Actor : request'[r] = request[r] \/ request'[r].at # "form"
  PROVE  FilesAsked'
  BY DEF FilesAsked

\* A step of a request that leaves all to its locals.
LEMMA LocalStep ==
  ASSUME MediaInv, NEW r \in Actor, NEW x, IsLocal(x), x.at \notin {"removing", "form"},
         request' = [request EXCEPT ![r] = x],
         UNCHANGED <<row, run, queued, asked, excused, files, faults>>,
         enabled' \in Profiles, missed \subseteq missed', missed' \subseteq Bookmark \X Image,
         \A b \in Bookmark, c \in enabled' \cap Image :
           \/ row[b] \in {Unborn, Gone} \/ <<b, c>> \in asked \cup missed' \/ row[b][c] # NoFile
           \/ Covers(x, b, c)
           \/ c \in enabled /\ ~Covers(request[r], b, c)
  PROVE  MediaInv'
  <1>0. Types /\ RowsOK /\ RunsOK /\ LocalsOK /\ TablesOK /\ Bound
    BY DEF MediaInv, Types
  <1>1. /\ DOMAIN request' = Actor /\ request'[r] = x
        /\ \A q \in Actor \ {r} : request'[q] = request[q]
    BY <1>0 DEF LocalsOK
  <1>2. RowsOK' /\ RunsOK' /\ Bound'
    BY <1>0 DEF RowsOK, RunsOK, Bound
  <1>3. LocalsOK'
    BY <1>0, <1>1 DEF LocalsOK
  <1>4. TablesOK'
    BY <1>0 DEF TablesOK
  <1>5. PagesInv'
    BY DEF MediaInv, PagesInv
  <1>6. FilesInv'
    BY <1>1, FilesKept DEF MediaInv
  <1>7. JobsAsked'
    BY DEF MediaInv, JobsAsked
  <1>8. ImagesAsked'
    <2> SUFFICES ASSUME NEW b \in Bookmark, NEW c \in enabled' \cap Image, row[b] \notin {Unborn, Gone},
                        <<b, c>> \notin asked \cup missed', row[b][c] = NoFile, ~Covers(x, b, c)
                 PROVE  \E q \in Actor : Covers(request'[q], b, c)
      BY <1>1 DEF ImagesAsked
    <2>1. c \in enabled /\ ~Covers(request[r], b, c)
      OBVIOUS
    <2>2. PICK q \in Actor : Covers(request[q], b, c)
      BY <2>1 DEF MediaInv, ImagesAsked
    <2>3. request'[q] = request[q]
      BY <1>1, <2>1, <2>2
    <2> QED BY <2>2, <2>3
  <1>9. FilesAsked'
    BY <1>1, AskedKept DEF MediaInv
  <1> QED BY <1>2, <1>3, <1>4, <1>5, <1>6, <1>7, <1>8, <1>9 DEF MediaInv, Types

-----------------------------------------------------------------------------
(***************************************************************************)
(* Steps of requests between the tables.                                    *)
(***************************************************************************)
Selecting(kinds) == [at |-> "selecting", kinds |-> kinds]
Queueing(kinds, kind, todo) == [at |-> "queueing", kinds |-> kinds, kind |-> kind, todo |-> todo]
Importing(imported) == [at |-> "importing", imported |-> imported]
Saving(before, new) == [at |-> "saving", before |-> before, new |-> new]
Removing(doomed) == [at |-> "removing", doomed |-> doomed]

\* An idle request asks for nothing.
LEMMA IdleCovers == ASSUME NEW x, x.at \in {"idle", "saving", "removing", "form"}, NEW b, NEW c PROVE ~Covers(x, b, c)
  BY DEF Covers

\* The reads, and an import's begin.
LEMMA BeginsKeep ==
  ASSUME MediaInv, NEW r \in Actor,
         ReadProfile(r) \/ StartImport(r) \/ RefreshFavicons(r)
  PROVE  MediaInv'
  <1>0. {} \in SUBSET Image /\ Live \in SUBSET Bookmark /\ {} \in SUBSET Bookmark /\ "favicon" \in Image
    BY DEF Live, Image
  <1>1. PICK x : /\ request' = [request EXCEPT ![r] = x] /\ IsLocal(x) /\ x.at \notin {"removing", "form"}
                 /\ \A b, c : c \in enabled /\ Covers(x, b, c) => c \in Image
    <2>1. CASE ReadProfile(r)
      <3>1. PICK new \in Profiles : request' = [request EXCEPT ![r] = Saving(enabled, new)]
        BY <2>1 DEF ReadProfile, Sets, Saving
      <3>2. IsLocal(Saving(enabled, new)) /\ Saving(enabled, new).at = "saving"
            /\ \A b, c : ~Covers(Saving(enabled, new), b, c)
        BY DEF Saving, IsLocal, Covers
      <3> QED BY <3>1, <3>2
    <2>2. CASE StartImport(r)
      <3>1. request' = [request EXCEPT ![r] = Importing({})]
        BY <2>2 DEF StartImport, Sets, Importing
      <3>2. IsLocal(Importing({})) /\ Importing({}).at = "importing"
            /\ \A b, c : ~Covers(Importing({}), b, c)
        BY <1>0 DEF Importing, IsLocal, Covers
      <3> QED BY <3>1, <3>2
    <2>3. CASE RefreshFavicons(r)
      <3>1. request' = [request EXCEPT ![r] = Queueing({}, "favicon", Live)]
        BY <2>3 DEF RefreshFavicons, Sets, Queueing
      <3>2. IsLocal(Queueing({}, "favicon", Live)) /\ Queueing({}, "favicon", Live).at = "queueing"
            /\ \A b, c : ~Covers(Queueing({}, "favicon", Live), b, c)
        BY <1>0 DEF Queueing, IsLocal, Covers
      <3> QED BY <3>1, <3>2
    <2> QED BY <2>1, <2>2, <2>3
  <1>2. /\ request[r].at = "idle"
        /\ UNCHANGED <<row, enabled, files, queued, run, asked, excused, missed, faults>>
    BY DEF ReadProfile, StartImport, RefreshFavicons, Free
  <1>3. \A b, c : ~Covers(request[r], b, c)
    BY <1>2, IdleCovers
  <1>4. enabled' \in Profiles /\ missed' \subseteq Bookmark \X Image
    BY <1>2 DEF MediaInv, Types, TablesOK
  <1> QED BY <1>1, <1>2, <1>3, <1>4, LocalStep

\* UpdateProfile: what it enables and did not see enabled is selected next.
LEMMA UpdateKeeps ==
  ASSUME MediaInv, NEW r \in Actor, UpdateProfile(r)
  PROVE  MediaInv'
  <1> DEFINE kinds == (request[r].new \ request[r].before) \cap Image
             unnoticed == (request[r].new \ enabled) \cap request[r].before \cap Image
             x == IF kinds = {} THEN Idle ELSE Selecting(kinds)
  <1>1. /\ request[r].at = "saving" /\ enabled' = request[r].new
        /\ missed' = missed \cup (Live \X unnoticed) /\ request' = [request EXCEPT ![r] = x]
        /\ UNCHANGED <<row, files, queued, run, asked, excused, faults>>
    BY DEF UpdateProfile, Updates, Sets, Selecting
  <1>2. IsLocal(x) /\ x.at \notin {"removing", "form"} /\ \A b : \A c \in kinds : Covers(x, b, c)
    <2>1. kinds \in SUBSET Image
      OBVIOUS
    <2>2. CASE kinds = {}
      BY <2>2 DEF Idle, IsLocal
    <2>3. CASE kinds # {}
      <3>1. IsLocal(Selecting(kinds)) /\ Selecting(kinds).at = "selecting" /\ Selecting(kinds).kinds = kinds
        BY <2>1 DEF Selecting, IsLocal
      <3> QED BY <2>3, <3>1 DEF Covers
    <2> QED BY <2>2, <2>3
  <1>3. request[r].new \in Profiles
    BY <1>1 DEF MediaInv, Types, LocalsOK, IsLocal
  <1>4. missed' \subseteq Bookmark \X Image
    BY <1>1 DEF MediaInv, Types, TablesOK, Live
  <1>5. \A b, c : ~Covers(request[r], b, c)
    BY <1>1, IdleCovers
  <1>6. \A b \in Bookmark, c \in enabled' \cap Image :
           \/ row[b] \in {Unborn, Gone} \/ <<b, c>> \in missed' \/ c \in kinds \/ c \in enabled
    BY <1>1 DEF Live
  <1> HIDE DEF x
  <1>7. \A b \in Bookmark, c \in enabled' \cap Image :
           \/ row[b] \in {Unborn, Gone} \/ <<b, c>> \in asked \cup missed' \/ row[b][c] # NoFile
           \/ Covers(x, b, c)
           \/ c \in enabled /\ ~Covers(request[r], b, c)
    BY <1>2, <1>5, <1>6
  <1>8. missed \subseteq missed' /\ enabled' \in Profiles
    BY <1>1, <1>3
  <1> HIDE DEF kinds, unnoticed
  <1> QED BY <1>1, <1>2, <1>4, <1>7, <1>8, LocalStep

\* The selection of the bookmarks without an image, for the first kind.
LEMMA SelectKeeps ==
  ASSUME MediaInv, NEW r \in Actor, SelectMissing(r)
  PROVE  MediaInv'
  <1> DEFINE kinds == request[r].kinds
             kind == IF "favicon" \in kinds THEN "favicon" ELSE "preview"
             todo == {b \in Live : row[b][kind] = NoFile}
             x == Queueing(kinds, kind, todo)
  <1>1. /\ request[r].at = "selecting" /\ request' = [request EXCEPT ![r] = x]
        /\ UNCHANGED <<row, enabled, files, queued, run, asked, excused, missed, faults>>
    BY DEF SelectMissing, Sets, Queueing
  <1>2. kinds \in SUBSET Image /\ kind \in Image /\ todo \in SUBSET Bookmark
    BY <1>1 DEF MediaInv, Types, LocalsOK, IsLocal, Live, Image
  <1>3. /\ IsLocal(x) /\ x.at \notin {"removing", "form"}
        /\ x.at = "queueing" /\ x.kinds = kinds /\ x.kind = kind /\ x.todo = todo
    BY <1>2 DEF Queueing, IsLocal
  <1>4. \A b, c : Covers(request[r], b, c) => c \in kinds
    BY <1>1 DEF Covers
  <1>5. \A b \in Bookmark, c \in enabled' \cap Image :
           \/ row[b] \in {Unborn, Gone} \/ <<b, c>> \in asked \cup missed' \/ row[b][c] # NoFile
           \/ Covers(x, b, c)
           \/ c \in enabled /\ ~Covers(request[r], b, c)
    <2> SUFFICES ASSUME NEW b \in Bookmark, NEW c \in enabled' \cap Image, row[b] \notin {Unborn, Gone},
                        row[b][c] = NoFile, c \in kinds
                 PROVE  Covers(x, b, c)
      BY <1>1, <1>4
    <2>1. b \in todo \/ c # kind
      BY DEF Live
    <2> QED BY <1>3, <2>1 DEF Covers
  <1>6. enabled' \in Profiles /\ missed' \subseteq Bookmark \X Image
    BY <1>1 DEF MediaInv, Types, TablesOK
  <1> HIDE DEF x
  <1> QED BY <1>1, <1>3, <1>5, <1>6, LocalStep

\* The end of one kind, and of an import's transactions.
LEMMA AdvanceKeeps ==
  ASSUME MediaInv, NEW r \in Actor, QueuedAll(r) \/ ScheduleImport(r)
  PROVE  MediaInv'
  <1> DEFINE kinds == IF request[r].at = "importing" THEN enabled \cap Image
                      ELSE request[r].kinds \ {request[r].kind}
             x == IF kinds = {} THEN Idle ELSE Selecting(kinds)
  <1>1. /\ request[r].at = "importing" \/ (request[r].at = "queueing" /\ request[r].todo = {})
        /\ request' = [request EXCEPT ![r] = x]
        /\ UNCHANGED <<row, enabled, files, queued, run, asked, excused, missed, faults>>
    <2>1. CASE QueuedAll(r)
      BY <2>1 DEF QueuedAll, Sets, Selecting
    <2>2. CASE ScheduleImport(r)
      <3>1. request[r].at = "importing"
        BY <2>2 DEF ScheduleImport
      <3>2. kinds = enabled \cap Image
        BY <3>1
      <3>3. /\ Sets(r, IF enabled \cap Image = {} THEN Idle
                       ELSE [at |-> "selecting", kinds |-> enabled \cap Image])
            /\ UNCHANGED <<row, enabled, files, queued, run, asked, excused, missed, faults>>
        BY <2>2 DEF ScheduleImport
      <3> HIDE DEF kinds
      <3>4. x = IF enabled \cap Image = {} THEN Idle
                ELSE [at |-> "selecting", kinds |-> enabled \cap Image]
        BY <3>2 DEF Selecting
      <3> HIDE DEF x
      <3>5. request' = [request EXCEPT ![r] = x]
        BY <3>3, <3>4, Zenon DEF Sets
      <3> QED BY <3>1, <3>3, <3>5
    <2> QED BY <2>1, <2>2
  <1>2. kinds \in SUBSET Image
    BY <1>1 DEF MediaInv, Types, LocalsOK, IsLocal, Image
  <1>3. IsLocal(x) /\ x.at \notin {"removing", "form"} /\ \A b : \A c \in kinds : Covers(x, b, c)
    <2>2. CASE kinds = {}
      BY <2>2 DEF Idle, IsLocal
    <2>3. CASE kinds # {}
      <3>1. IsLocal(Selecting(kinds)) /\ Selecting(kinds).at = "selecting" /\ Selecting(kinds).kinds = kinds
        BY <1>2 DEF Selecting, IsLocal
      <3> QED BY <2>3, <3>1 DEF Covers
    <2> QED BY <2>2, <2>3
  <1>4. \A b, c : Covers(request[r], b, c) /\ c \in enabled \cap Image => c \in kinds
    BY <1>1 DEF Covers
  <1>5. enabled' \in Profiles /\ missed' \subseteq Bookmark \X Image
    BY <1>1 DEF MediaInv, Types, TablesOK
  <1> HIDE DEF x, kinds
  <1> QED BY <1>1, <1>3, <1>4, <1>5, LocalStep

\* A request that is cut short: what it would have asked for is missed.
LEMMA CutKeeps ==
  ASSUME MediaInv, NEW r \in Actor, CutShort(r)
  PROVE  MediaInv'
  <1>0. Types /\ RowsOK /\ RunsOK /\ LocalsOK /\ TablesOK /\ Bound
    BY DEF MediaInv, Types
  <1>1. /\ faults' = faults + 1 /\ faults < MaxFaults /\ request' = [request EXCEPT ![r] = Idle]
        /\ UNCHANGED <<row, enabled, files, queued, run, asked, excused>>
    BY DEF CutShort, Sets
  <1>2. /\ DOMAIN request' = Actor /\ request'[r] = Idle
        /\ \A q \in Actor \ {r} : request'[q] = request[q]
    BY <1>0, <1>1 DEF LocalsOK
  <1>3. RowsOK' /\ RunsOK' /\ Bound' /\ LocalsOK'
    BY <1>0, <1>1, <1>2 DEF RowsOK, RunsOK, Bound, LocalsOK, IsLocal, Idle
  <1>4. /\ missed \subseteq missed' /\ missed' \subseteq Bookmark \X Image
        /\ \A b \in Bookmark, c \in enabled \cap Image :
             Covers(request[r], b, c) /\ row[b] \notin {Unborn, Gone} => <<b, c>> \in missed'
    <2>1. IsLocal(request[r]) /\ missed \subseteq Bookmark \X Image
      BY <1>0 DEF LocalsOK, TablesOK
    <2>2. CASE request[r].at \in {"selecting", "queueing"}
      <3>1. missed' = missed \cup (Live \X request[r].kinds) /\ request[r].kinds \subseteq Image
        BY <2>1, <2>2 DEF CutShort, IsLocal
      <3>2. \A b, c : Covers(request[r], b, c) => c \in request[r].kinds
        BY <2>2 DEF Covers
      <3> QED BY <2>1, <3>1, <3>2 DEF Live
    <2>3. CASE request[r].at = "importing"
      <3>1. missed' = missed \cup (request[r].imported \X (enabled \cap Image))
            /\ request[r].imported \subseteq Bookmark
        BY <2>1, <2>3 DEF CutShort, IsLocal
      <3>2. \A b, c : Covers(request[r], b, c) => b \in request[r].imported
        BY <2>3 DEF Covers
      <3> QED BY <2>1, <3>1, <3>2
    <2>4. CASE request[r].at \notin {"selecting", "queueing", "importing"}
      BY <2>1, <2>4 DEF CutShort, Covers
    <2> QED BY <2>2, <2>3, <2>4
  <1>5. TablesOK'
    BY <1>0, <1>1, <1>4, MediaAssumption DEF TablesOK
  <1>6. PagesInv'
    BY <1>1 DEF MediaInv, PagesInv
  <1>7. FilesInv'
    BY <1>1, <1>2, FilesKept DEF MediaInv, Idle
  <1>8. JobsAsked'
    BY <1>1 DEF MediaInv, JobsAsked
  <1>9. ImagesAsked'
    <2> SUFFICES ASSUME NEW b \in Bookmark, NEW c \in enabled \cap Image, row[b] \notin {Unborn, Gone},
                        <<b, c>> \notin asked \cup missed', row[b][c] = NoFile
                 PROVE  \E q \in Actor : Covers(request'[q], b, c)
      BY <1>1 DEF ImagesAsked
    <2>1. PICK q \in Actor : Covers(request[q], b, c)
      BY <1>4 DEF MediaInv, ImagesAsked
    <2>2. request'[q] = request[q]
      BY <1>2, <1>4, <2>1
    <2> QED BY <2>1, <2>2
  <1>10. FilesAsked'
    BY <1>1, <1>2, AskedKept DEF MediaInv, Idle
  <1> QED BY <1>3, <1>5, <1>6, <1>7, <1>8, <1>9, <1>10 DEF MediaInv, Types

-----------------------------------------------------------------------------
(***************************************************************************)
(* Steps that write rows or queue jobs.                                     *)
(***************************************************************************)
\* Queueing: each job waits and is asked for, and the bound is kept.
LEMMA EnqueueSteps ==
  ASSUME Types, JobsAsked, NEW js \in SUBSET Job, Enqueue(js), run' = run
  PROVE  /\ queued' \in [Job -> Nat] /\ \A j \in Job : queued'[j] \in Nat /\ queued'[j] >= queued[j]
         /\ \A j \in js : queued'[j] > 0
         /\ asked \subseteq asked' /\ asked' \subseteq Bookmark \X Image
         /\ \A j \in js : j[2] \in Image => j \in asked'
         /\ Bound' /\ JobsAsked'
  <1>0. queued \in [Job -> Nat] /\ asked \subseteq Bookmark \X Image
    BY DEF Types, TablesOK
  <1>1. /\ queued' = [j \in Job |-> IF j \in js THEN queued[j] + 1 ELSE queued[j]]
        /\ asked' = asked \cup {j \in js : j[2] \in Image} /\ \A j \in js : Room(j)
    BY <1>0 DEF Enqueue
  <1>2. \A j \in Job : queued'[j] = IF j \in js THEN queued[j] + 1 ELSE queued[j]
    BY <1>1
  <1>3. asked' \subseteq Bookmark \X Image
    BY <1>0, <1>1 DEF Job
  <1>4. Bound'
    <2> SUFFICES ASSUME NEW j \in Job PROVE queued'[j] + Cardinality(HeldIn(run, j)) <= Copies
      BY DEF Bound
    <2>1. queued[j] + Cardinality(HeldIn(run, j)) <= Copies
      BY DEF Types, Bound
    <2>2. CASE j \in js
      <3>1. Held(j) = HeldIn(run, j)
        BY DEF Held, HeldIn, HeldOf, Busy
      <3>2. queued[j] + Cardinality(HeldIn(run, j)) < Copies
        BY <1>1, <2>2, <3>1 DEF Room
      <3>3. Cardinality(HeldIn(run, j)) \in Nat
        <4>1. IsFiniteSet(Worker) /\ HeldIn(run, j) \in SUBSET Worker
          BY MediaAssumption DEF HeldIn
        <4> QED BY <4>1, FS_Subset, FS_CardinalityType
      <3> QED BY <1>0, <1>2, <2>2, <3>2, <3>3, MediaAssumption
    <2>3. CASE j \notin js
      BY <1>2, <2>1, <2>3
    <2> QED BY <2>2, <2>3
  <1>5. JobsAsked'
    BY <1>0, <1>1, <1>2 DEF JobsAsked
  <1>6. \A j \in Job : queued'[j] \in Nat /\ queued'[j] >= queued[j]
    BY <1>0, <1>2
  <1>7. \A j \in js : queued'[j] > 0
    BY <1>0, <1>2
  <1> QED BY <1>0, <1>1, <1>3, <1>4, <1>5, <1>6, <1>7

\* One row is written.
LEMMA PagesRow ==
  ASSUME TablesOK, PagesInv, NEW b \in Bookmark, \A a \in Bookmark \ {b} : row'[a] = row[a],
         run' = run, \A j \in Job : queued'[j] \in Nat /\ queued'[j] >= queued[j],
         \A a \in Bookmark \ {b} : \A c \in Column : <<a, c>> \in excused => <<a, c>> \in excused',
         \A c \in Column :
           \/ row'[b] \in {Unborn, Gone} \/ Shows(row'[b], c) \/ <<b, c>> \in excused'
           \/ Waits(queued', b, c) \/ \E w \in Worker : Mends(run[w], row'[b], b, c)
  PROVE  PagesInv'
  <1>1. \A a \in Bookmark, c \in Column : Waits(queued, a, c) => Waits(queued', a, c)
    <2> SUFFICES ASSUME NEW a \in Bookmark, NEW c \in Column, Waits(queued, a, c)
                 PROVE  Waits(queued', a, c)
      OBVIOUS
    <2>1. PICK k \in JobKind : ColumnOf(k) = c /\ k # "archive" /\ queued[<<a, k>>] > 0
      BY DEF Waits
    <2>2. <<a, k>> \in Job
      BY DEF Job
    <2>3. queued[<<a, k>>] \in Nat
      BY <2>2 DEF TablesOK
    <2>4. queued'[<<a, k>>] > 0
      BY <2>1, <2>2, <2>3
    <2> QED BY <2>1, <2>4 DEF Waits
  <1> QED BY <1>1 DEF PagesInv

\* RemoveFile: only previews of a deleted bookmark are removed.
LEMMA RemoveKeeps ==
  ASSUME MediaInv, NEW r \in Actor, RemoveFile(r)
  PROVE  MediaInv'
  <1>0. Types /\ RowsOK /\ RunsOK /\ LocalsOK /\ TablesOK /\ Bound
    BY DEF MediaInv, Types
  <1>1. /\ request[r].at = "removing" /\ files' = files \ request[r].doomed
        /\ request' = [request EXCEPT ![r] = Idle]
        /\ UNCHANGED <<row, enabled, queued, run, asked, excused, missed, faults>>
    BY DEF RemoveFile, Sets
  <1>2. /\ DOMAIN request' = Actor /\ request'[r] = Idle
        /\ \A q \in Actor \ {r} : request'[q] = request[q]
    BY <1>0, <1>1 DEF LocalsOK
  <1>3. RowsOK' /\ RunsOK' /\ Bound' /\ LocalsOK' /\ TablesOK'
    BY <1>0, <1>1, <1>2 DEF RowsOK, RunsOK, Bound, LocalsOK, TablesOK, IsLocal, Idle
  <1>4. PagesInv' /\ JobsAsked'
    BY <1>1 DEF MediaInv, PagesInv, JobsAsked
  <1>5. PICK b \in Bookmark : row[b] = Gone /\ request[r].doomed \subseteq Shown(b, "preview")
    BY <1>1 DEF MediaInv, FilesInv, Doomed
  <1>6. \A f \in files : f \in files' \/ \E u \in URLsOf[b] : f = File("preview", u)
    <2>1. \A f \in files : f # NoFile
      BY <1>0, FileNames DEF TablesOK, ImageFiles
    <2> QED BY <1>1, <1>5, <2>1 DEF Shown
  <1>7. ASSUME URLsApart, NEW a \in Bookmark \ {b}, NEW c \in Image, NEW u \in URLsOf[a],
               File(c, u) \in files
        PROVE  File(c, u) \in files'
    <2>1. \A v \in URLsOf[b] : u # v
      BY <1>7 DEF URLsApart
    <2>2. \A v \in URLsOf[b] : File(c, u) # File("preview", v)
      BY <2>1, FileNames
    <2> QED BY <1>6, <1>7, <2>2
  <1>8. FilesInv'
    <2>1. Doomed'
      BY <1>1, <1>2 DEF MediaInv, FilesInv, Doomed, Idle
    <2>2. ASSUME URLsApart, NEW a \in Bookmark, NEW c \in Image, row[a] \notin {Unborn, Gone},
                 row[a][c] # NoFile
          PROVE  row[a][c] \in files'
      <3>1. a # b /\ row[a][c] \in files
        BY <1>5, <2>2 DEF MediaInv, FilesInv, Named
      <3>2. PICK u \in URLsOf[a] : row[a][c] = File(c, u)
        BY <1>0, <2>2 DEF RowsOK, IsRow, Shown, Column
      <3> QED BY <1>7, <2>2, <3>1, <3>2
    <2>3. ASSUME URLsApart, NEW w \in Worker, run[w].at = "loaded", ColumnOf(run[w].job[2]) \in Image,
                 row[run[w].job[1]] # Gone, run[w].result # NoFile
          PROVE  run[w].result \in files'
      <3>1. run[w].result \in files
        BY <2>3 DEF MediaInv, FilesInv, Made
      <3>2. IsRun(run[w])
        BY <1>0, <2>3 DEF RunsOK, Idle
      <3>3. /\ run[w].job[1] \in Bookmark \ {b} /\ run[w].url \in URLsOf[run[w].job[1]]
            /\ run[w].result = File(ColumnOf(run[w].job[2]), run[w].url)
        BY <1>5, <2>3, <3>2 DEF IsRun, Run, Job
      <3> QED BY <1>7, <2>3, <3>1, <3>3
    <2>4. ASSUME URLsApart, NEW q \in Actor, request[q].at = "form", row[request[q].b] # Gone,
                 NEW c \in Image, request[q].shown[c] # NoFile
          PROVE  request[q].shown[c] \in files'
      <3>1. request[q].shown[c] \in files
        BY <2>4 DEF MediaInv, FilesInv, FormsMade
      <3>2. request[q].b \in Bookmark \ {b} /\ IsRow(request[q].b, request[q].shown)
        BY <1>0, <1>5, <2>4 DEF LocalsOK, IsLocal
      <3>3. PICK u \in URLsOf[request[q].b] : request[q].shown[c] = File(c, u)
        BY <2>4, <3>2 DEF IsRow, Shown, Column
      <3> QED BY <1>7, <2>4, <3>1, <3>2, <3>3
    <2>5. URLsApart => Named' /\ Made'
      BY <1>1, <2>2, <2>3 DEF Named, Made
    <2>6. URLsApart => FormsMade'
      BY <1>1, <1>2, <2>4 DEF FormsMade, Idle
    <2> QED BY <2>1, <2>5, <2>6 DEF FilesInv
  <1>9. ImagesAsked'
    BY <1>1, <1>2, ZenonT(60) DEF MediaInv, ImagesAsked, Covers
  <1>10. FilesAsked'
    BY <1>1, <1>2, AskedKept DEF MediaInv, Idle
  <1> QED BY <1>3, <1>4, <1>8, <1>9, <1>10 DEF MediaInv, Types

\* Delete: the row goes, and its preview is to follow.
LEMMA DeleteKeeps ==
  ASSUME MediaInv, NEW r \in Actor, NEW b \in Bookmark, Delete(r, b)
  PROVE  MediaInv'
  <1>0. Types /\ RowsOK /\ RunsOK /\ LocalsOK /\ TablesOK /\ Bound
    BY DEF MediaInv, Types
  <1> DEFINE x == Removing({row[b].preview})
  <1>1. /\ request[r].at = "idle" /\ row[b] \notin {Unborn, Gone}
        /\ row' = [row EXCEPT ![b] = Gone] /\ request' = [request EXCEPT ![r] = x]
        /\ UNCHANGED <<enabled, files, queued, run, asked, excused, missed, faults>>
    BY DEF Delete, Deletes, Free, Live, Sets, Removing
  <1>2. /\ IsLocal(x) /\ x.at = "removing" /\ x.doomed = {row[b].preview}
        /\ \A a, c : ~Covers(x, a, c) /\ ~Covers(request[r], a, c)
    BY <1>1 DEF Removing, IsLocal, Covers
  <1> HIDE DEF x
  <1>3. /\ DOMAIN request' = Actor /\ request'[r] = x
        /\ \A q \in Actor \ {r} : request'[q] = request[q]
    BY <1>0, <1>1 DEF LocalsOK
  <1>4. /\ DOMAIN row' = Bookmark /\ row'[b] = Gone
        /\ \A a \in Bookmark \ {b} : row'[a] = row[a]
    BY <1>0, <1>1 DEF RowsOK
  <1>5. RowsOK' /\ LocalsOK'
    BY <1>0, <1>2, <1>3, <1>4 DEF RowsOK, LocalsOK
  <1>6. RunsOK' /\ TablesOK' /\ Bound'
    BY <1>0, <1>1 DEF RunsOK, TablesOK, Bound
  <1>7. PagesInv' /\ JobsAsked'
    BY <1>1, <1>4 DEF MediaInv, PagesInv, JobsAsked
  <1>8. Doomed'
    <2>1. row[b].preview \in Shown(b, "preview")
      BY <1>0, <1>1 DEF RowsOK, IsRow, Column, Image
    <2>2. ASSUME NEW q \in Actor \ {r}, request[q].at = "removing"
          PROVE  \E a \in Bookmark : row'[a] = Gone /\ request[q].doomed \subseteq Shown(a, "preview")
      BY <1>4, <2>2 DEF MediaInv, FilesInv, Doomed
    <2> QED BY <1>2, <1>3, <1>4, <2>1, <2>2 DEF Doomed
  <1>9. ASSUME URLsApart PROVE Named' /\ Made' /\ FormsMade'
    <2>1. Named /\ Made /\ FormsMade
      BY <1>9 DEF MediaInv, FilesInv
    <2>2. Named'
      BY <1>1, <1>4, <2>1 DEF Named
    <2>3. ASSUME NEW w \in Worker, run[w].at = "loaded", row'[run[w].job[1]] # Gone
          PROVE  row[run[w].job[1]] # Gone
      <3>1. run[w].job[1] \in Bookmark
        BY <1>0, <2>3 DEF RunsOK, IsRun, Run, Job, Idle
      <3> QED BY <1>4, <2>3, <3>1
    <2>4. Made'
      BY <1>1, <2>1, <2>3 DEF Made
    <2>5. FormsMade'
      <3> SUFFICES ASSUME NEW q \in Actor, request'[q].at = "form", row'[request'[q].b] # Gone
                   PROVE  \A c \in Image : request'[q].shown[c] \in {NoFile} \cup files
        BY <1>1 DEF FormsMade
      <3>1. request'[q] = request[q]
        BY <1>2, <1>3
      <3>2. request[q].b \in Bookmark
        BY <1>0, <3>1 DEF LocalsOK, IsLocal
      <3>3. row[request[q].b] # Gone
        BY <1>4, <3>1, <3>2
      <3> QED BY <2>1, <3>1, <3>3 DEF FormsMade
    <2> QED BY <2>2, <2>4, <2>5
  <1>10. ImagesAsked'
    <2> SUFFICES ASSUME NEW a \in Bookmark, NEW c \in enabled \cap Image, row'[a] \notin {Unborn, Gone},
                        <<a, c>> \notin asked \cup missed, row'[a][c] = NoFile
                 PROVE  \E q \in Actor : Covers(request'[q], a, c)
      BY <1>1 DEF ImagesAsked
    <2>1. a # b /\ row'[a] = row[a]
      BY <1>4
    <2>2. PICK q \in Actor : Covers(request[q], a, c)
      BY <2>1 DEF MediaInv, ImagesAsked
    <2>3. request'[q] = request[q]
      BY <1>2, <1>3, <2>2
    <2> QED BY <2>2, <2>3
  <1>11. FilesAsked'
    <2>1. \A q \in Actor : request'[q].at = "form" => request'[q] = request[q]
      BY <1>2, <1>3
    <2> QED BY <1>1, <1>4, <2>1 DEF MediaInv, FilesAsked
  <1> QED BY <1>5, <1>6, <1>7, <1>8, <1>9, <1>10, <1>11 DEF MediaInv, Types, FilesInv

\* A new row, with empty columns.
LEMMA BornKeeps ==
  ASSUME MediaInv, NEW b \in Bookmark, NEW url \in URLsOf[b], row[b] = Unborn,
         row' = [row EXCEPT ![b] = New(url)], UNCHANGED <<run, files, excused>>,
         asked \subseteq asked',
         \A j \in Job : queued'[j] \in Nat /\ queued'[j] >= queued[j],
         \A q \in Actor : request'[q] = request[q] \/ request'[q].at \notin {"removing", "form"}
  PROVE  /\ RowsOK' /\ RunsOK' /\ PagesInv' /\ FilesInv' /\ FilesAsked'
         /\ row'[b] = New(url) /\ \A a \in Bookmark \ {b} : row'[a] = row[a]
  <1>0. RowsOK /\ RunsOK /\ TablesOK /\ LocalsOK
    BY DEF MediaInv, Types
  <1>1. IsRow(b, New(url)) /\ \A c \in Column : New(url)[c] = NoFile
    BY NewRow
  <1>2. /\ DOMAIN row' = Bookmark /\ row'[b] = New(url)
        /\ \A a \in Bookmark \ {b} : row'[a] = row[a]
    BY <1>0 DEF RowsOK
  <1>3. RowsOK' /\ RunsOK'
    BY <1>0, <1>1, <1>2 DEF RowsOK, RunsOK
  <1>4. PagesInv'
    <2>1. \A c \in Column : Shows(row'[b], c)
      BY <1>1, <1>2 DEF Shows
    <2> QED BY <1>0, <1>2, <2>1, PagesRow DEF MediaInv
  <1>5. Doomed'
    <2>1. Unborn # Gone
      BY RowsDiffer
    <2> QED BY <1>2, <2>1 DEF MediaInv, FilesInv, Doomed
  <1>6. ASSUME URLsApart PROVE Named' /\ Made' /\ FormsMade'
    <2>1. Named /\ Made /\ FormsMade /\ Unborn # Gone
      BY <1>6, RowsDiffer DEF MediaInv, FilesInv
    <2>2. Named'
      BY <1>1, <1>2, <2>1 DEF Named, Column
    <2>3. ASSUME NEW w \in Worker, run[w].at = "loaded", row'[run[w].job[1]] # Gone
          PROVE  row[run[w].job[1]] # Gone
      <3>1. run[w].job[1] \in Bookmark
        BY <1>0, <2>3 DEF RunsOK, IsRun, Run, Job, Idle
      <3> QED BY <1>2, <2>1, <2>3, <3>1
    <2>4. Made'
      BY <2>1, <2>3 DEF Made
    <2>5. FormsMade'
      <3> SUFFICES ASSUME NEW q \in Actor, request'[q].at = "form", row'[request'[q].b] # Gone
                   PROVE  \A c \in Image : request'[q].shown[c] \in {NoFile} \cup files
        BY DEF FormsMade
      <3>1. request'[q] = request[q]
        OBVIOUS
      <3>2. request[q].b \in Bookmark
        BY <1>0, <3>1 DEF LocalsOK, IsLocal
      <3>3. row[request[q].b] # Gone
        BY <1>2, <2>1, <3>1, <3>2
      <3> QED BY <2>1, <3>1, <3>3 DEF FormsMade
    <2> QED BY <2>2, <2>4, <2>5
  <1>7. FilesAsked'
    <2>1. \A q \in Actor : request'[q].at = "form" => request'[q] = request[q]
      OBVIOUS
    <2> QED BY <1>1, <1>2, <2>1 DEF MediaInv, FilesAsked, Column
  <1> QED BY <1>2, <1>3, <1>4, <1>5, <1>6, <1>7 DEF FilesInv

\* CreateData: the jobs of all enabled integrations come with the row.
LEMMA CreateKeeps ==
  ASSUME MediaInv, NEW b \in Bookmark, Create(b)
  PROVE  MediaInv'
  <1>0. Types /\ LocalsOK /\ TablesOK /\ JobsAsked
    BY DEF MediaInv, Types
  <1>1. PICK url \in URLsOf[b] :
          /\ row[b] = Unborn /\ row' = [row EXCEPT ![b] = New(url)] /\ Enqueue({b} \X enabled)
          /\ UNCHANGED <<enabled, files, run, request, excused, missed, faults>>
    BY DEF Create
  <1>2. {b} \X enabled \in SUBSET Job
    BY <1>0, MediaAssumption DEF TablesOK, Job, JobKind
  <1>3. /\ queued' \in [Job -> Nat] /\ \A j \in Job : queued'[j] \in Nat /\ queued'[j] >= queued[j]
        /\ asked \subseteq asked' /\ asked' \subseteq Bookmark \X Image
        /\ \A j \in {b} \X enabled : j[2] \in Image => j \in asked'
        /\ Bound' /\ JobsAsked'
    BY <1>0, <1>1, <1>2, EnqueueSteps
  <1>4. /\ RowsOK' /\ RunsOK' /\ PagesInv' /\ FilesInv' /\ FilesAsked'
        /\ row'[b] = New(url) /\ \A a \in Bookmark \ {b} : row'[a] = row[a]
    BY <1>1, <1>3, BornKeeps
  <1>5. LocalsOK' /\ TablesOK'
    BY <1>0, <1>1, <1>3 DEF LocalsOK, TablesOK
  <1>6. ImagesAsked'
    <2>1. \A c \in enabled \cap Image : <<b, c>> \in asked'
      BY <1>3
    <2> QED BY <1>1, <1>3, <1>4, <2>1 DEF MediaInv, ImagesAsked
  <1> QED BY <1>3, <1>4, <1>5, <1>6 DEF MediaInv, Types

\* A bookmark that is imported: the import asks for its images in the end.
LEMMA ImportOneKeeps ==
  ASSUME MediaInv, NEW r \in Actor, NEW b \in Bookmark, ImportOne(r, b)
  PROVE  MediaInv'
  <1>0. Types /\ LocalsOK /\ TablesOK /\ JobsAsked /\ Bound
    BY DEF MediaInv, Types
  <1> DEFINE x == [request[r] EXCEPT !.imported = @ \cup {b}]
  <1>1. PICK url \in URLsOf[b] :
          /\ request[r].at = "importing"
          /\ row[b] = Unborn /\ row' = [row EXCEPT ![b] = New(url)]
          /\ request' = [request EXCEPT ![r] = x]
          /\ UNCHANGED <<enabled, files, queued, run, asked, excused, missed, faults>>
    BY DEF ImportOne, Sets
  <1>2. /\ IsLocal(x) /\ x.at = "importing" /\ x.imported = request[r].imported \cup {b}
    BY <1>0, <1>1 DEF LocalsOK, IsLocal
  <1>3. /\ DOMAIN request' = Actor /\ request'[r] = x
        /\ \A q \in Actor \ {r} : request'[q] = request[q]
    BY <1>0, <1>1 DEF LocalsOK
  <1> HIDE DEF x
  <1>4. \A j \in Job : queued'[j] \in Nat /\ queued'[j] >= queued[j]
    BY <1>0, <1>1 DEF TablesOK
  <1>5. /\ RowsOK' /\ RunsOK' /\ PagesInv' /\ FilesInv' /\ FilesAsked'
        /\ row'[b] = New(url) /\ \A a \in Bookmark \ {b} : row'[a] = row[a]
    BY <1>1, <1>2, <1>3, <1>4, BornKeeps
  <1>6. LocalsOK' /\ TablesOK' /\ Bound' /\ JobsAsked'
    BY <1>0, <1>1, <1>2, <1>3 DEF LocalsOK, TablesOK, Bound, JobsAsked, MediaInv
  <1>7. ImagesAsked'
    <2>1. \A c : Covers(x, b, c)
      BY <1>2 DEF Covers
    <2>2. \A a, c : Covers(request[r], a, c) => Covers(x, a, c)
      BY <1>1, <1>2 DEF Covers
    <2>3. ASSUME NEW a \in Bookmark \ {b}, NEW c \in enabled \cap Image, row[a] \notin {Unborn, Gone},
                 <<a, c>> \notin asked \cup missed, row[a][c] = NoFile
          PROVE  \E q \in Actor : Covers(request'[q], a, c)
      <3>1. PICK q \in Actor : Covers(request[q], a, c)
        BY <2>3 DEF MediaInv, ImagesAsked
      <3> QED BY <1>3, <2>2, <3>1
    <2>4. \A c : \E q \in Actor : Covers(request'[q], b, c)
      BY <1>3, <2>1
    <2>5. enabled' = enabled /\ asked' = asked /\ missed' = missed
      BY <1>1
    <2> SUFFICES ASSUME NEW a \in Bookmark, NEW c \in enabled \cap Image, row'[a] \notin {Unborn, Gone},
                        <<a, c>> \notin asked \cup missed, row'[a][c] = NoFile
                 PROVE  \E q \in Actor : Covers(request'[q], a, c)
      BY <2>5 DEF ImagesAsked
    <2> QED BY <1>5, <2>3, <2>4
  <1> QED BY <1>5, <1>6, <1>7 DEF MediaInv, Types

\* UpdateData: a column of the old URL is excused, or a job for it waits.
LEMMA EditKeeps ==
  ASSUME MediaInv, NEW b \in Bookmark, Edit(b)
  PROVE  MediaInv'
  <1>0. Types /\ RowsOK /\ RunsOK /\ LocalsOK /\ TablesOK /\ JobsAsked
    BY DEF MediaInv, Types
  <1> DEFINE due(url) == {b} \X ((enabled \cap Image)
                          \cup {k \in {"rearchive"} : "archive" \in enabled /\ url # row[b].url})
  <1>1. PICK url \in URLsOf[b] :
          /\ row[b] \notin {Unborn, Gone} /\ row' = [row EXCEPT ![b].url = url] /\ Enqueue(due(url))
          /\ excused' = IF url = row[b].url THEN excused
                        ELSE (excused \ ({b} \X enabled)) \cup ({b} \X (Column \ enabled))
          /\ UNCHANGED <<enabled, files, run, request, missed, faults>>
    BY DEF Edit, Edits, Live
  <1>2. due(url) \in SUBSET Job
    BY <1>0 DEF Job, JobKind, Column, Image
  <1>3. PICK js : js = due(url)
    OBVIOUS
  <1>4. /\ queued' \in [Job -> Nat] /\ \A j \in Job : queued'[j] \in Nat /\ queued'[j] >= queued[j]
        /\ \A j \in js : queued'[j] > 0
        /\ asked \subseteq asked' /\ asked' \subseteq Bookmark \X Image
        /\ Bound' /\ JobsAsked'
    <2>1. js \in SUBSET Job /\ Enqueue(js) /\ run' = run
      <3> HIDE DEF due
      <3> QED BY <1>1, <1>2, <1>3
    <2> QED BY <1>0, <2>1, EnqueueSteps
  <1>5. IsRow(b, row[b])
    BY <1>0, <1>1 DEF RowsOK
  <1>6. /\ DOMAIN row' = Bookmark /\ row'[b] = WithURL(row[b], url)
        /\ \A a \in Bookmark \ {b} : row'[a] = row[a]
    BY <1>0, <1>1 DEF RowsOK, WithURL
  <1>7. /\ IsRow(b, row'[b]) /\ row'[b].url = url /\ \A c \in Column : row'[b][c] = row[b][c]
    BY <1>5, <1>6, EditedRow
  <1>8. RowsOK' /\ RunsOK' /\ LocalsOK'
    BY <1>0, <1>1, <1>6, <1>7 DEF RowsOK, RunsOK, LocalsOK
  <1>9. TablesOK'
    <2>1. excused' \subseteq Bookmark \X Column
      BY <1>0, <1>1 DEF TablesOK
    <2> QED BY <1>0, <1>1, <1>4, <2>1 DEF TablesOK
  <1>10. PagesInv'
    <2>1. \A a \in Bookmark \ {b} : \A c \in Column : <<a, c>> \in excused => <<a, c>> \in excused'
      BY <1>1
    <2>2. ASSUME NEW c \in Column
          PROVE  \/ row'[b] \in {Unborn, Gone} \/ Shows(row'[b], c) \/ <<b, c>> \in excused'
                 \/ Waits(queued', b, c) \/ \E w \in Worker : Mends(run[w], row'[b], b, c)
      <3>1. CASE url = row[b].url
        <4>1. Shows(row[b], c) => Shows(row'[b], c)
          BY <1>7, <3>1 DEF Shows
        <4>2. \A w \in Worker : Mends(run[w], row[b], b, c) => Mends(run[w], row'[b], b, c)
          BY <1>7, <3>1 DEF Mends
        <4>3. Waits(queued, b, c) => Waits(queued', b, c)
          <5> SUFFICES ASSUME Waits(queued, b, c) PROVE Waits(queued', b, c)
            OBVIOUS
          <5>1. PICK k \in JobKind : ColumnOf(k) = c /\ k # "archive" /\ queued[<<b, k>>] > 0
            BY DEF Waits
          <5>2. <<b, k>> \in Job
            BY DEF Job
          <5>3. queued[<<b, k>>] \in Nat
            BY <1>0, <5>2 DEF TablesOK
          <5>4. queued'[<<b, k>>] > 0
            BY <1>4, <5>1, <5>2, <5>3
          <5> QED BY <5>1, <5>4 DEF Waits
        <4> QED BY <1>1, <3>1, <4>1, <4>2, <4>3 DEF MediaInv, PagesInv
      <3>2. CASE url # row[b].url /\ c \notin enabled
        BY <1>1, <3>2
      <3>3. CASE url # row[b].url /\ c \in enabled /\ c \in Image
        <4>1. <<b, c>> \in js
          BY <1>3, <3>3
        <4>2. c \in JobKind /\ ColumnOf(c) = c /\ c # "archive"
          BY <3>3 DEF JobKind, ColumnOf, Image, Column
        <4> QED BY <1>4, <4>1, <4>2 DEF Waits
      <3>4. CASE url # row[b].url /\ c \in enabled /\ c \notin Image
        <4>1. c = "archive"
          BY <3>4 DEF Column
        <4>2. <<b, "rearchive">> \in js
          BY <1>3, <3>4, <4>1
        <4>3. "rearchive" \in JobKind /\ ColumnOf("rearchive") = c
          BY <4>1 DEF JobKind, ColumnOf
        <4> QED BY <1>4, <4>2, <4>3 DEF Waits
      <3> QED BY <3>1, <3>2, <3>3, <3>4
    <2> QED BY <1>0, <1>1, <1>4, <1>6, <2>1, <2>2, PagesRow DEF MediaInv
  <1>11. Doomed'
    BY <1>1, <1>6 DEF MediaInv, FilesInv, Doomed
  <1>12. ASSUME URLsApart PROVE Named' /\ Made' /\ FormsMade'
    <2>1. Named /\ Made /\ FormsMade
      BY <1>12 DEF MediaInv, FilesInv
    <2>2. Named'
      BY <1>1, <1>6, <1>7, <2>1 DEF Named, Column
    <2>3. ASSUME NEW w \in Worker, run[w].at = "loaded", row'[run[w].job[1]] # Gone
          PROVE  row[run[w].job[1]] # Gone
      <3>1. run[w].job[1] \in Bookmark
        BY <1>0, <2>3 DEF RunsOK, IsRun, Run, Job, Idle
      <3> QED BY <1>1, <1>6, <2>3, <3>1
    <2>4. Made'
      BY <1>1, <2>1, <2>3 DEF Made
    <2>5. ASSUME NEW r \in Actor, request[r].at = "form", row'[request[r].b] # Gone
          PROVE  row[request[r].b] # Gone
      <3>1. request[r].b \in Bookmark
        BY <1>0, <2>5 DEF LocalsOK, IsLocal
      <3> QED BY <1>1, <1>6, <2>5, <3>1
    <2>6. FormsMade'
      BY <1>1, <2>1, <2>5 DEF FormsMade
    <2> QED BY <2>2, <2>4, <2>6
  <1>13. ImagesAsked'
    <2> SUFFICES ASSUME NEW a \in Bookmark, NEW c \in enabled \cap Image, row'[a] \notin {Unborn, Gone},
                        <<a, c>> \notin asked' \cup missed, row'[a][c] = NoFile
                 PROVE  \E q \in Actor : Covers(request[q], a, c)
      BY <1>1 DEF ImagesAsked
    <2>1. row[a] \notin {Unborn, Gone} /\ row[a][c] = NoFile
      BY <1>1, <1>6, <1>7 DEF Column
    <2> QED BY <1>4, <2>1 DEF MediaInv, ImagesAsked
  <1>14. FilesAsked'
    <2>1. ASSUME NEW a \in Bookmark, NEW c \in Image, row'[a] \notin {Unborn, Gone}, row'[a][c] # NoFile
          PROVE  <<a, c>> \in asked
      <3>1. row[a] \notin {Unborn, Gone} /\ row[a][c] # NoFile
        BY <1>1, <1>6, <1>7, <2>1 DEF Column
      <3> QED BY <3>1 DEF MediaInv, FilesAsked
    <2> QED BY <1>1, <1>4, <2>1 DEF MediaInv, FilesAsked
  <1> QED BY <1>4, <1>8, <1>9, <1>10, <1>11, <1>12, <1>13, <1>14 DEF MediaInv, Types, FilesInv

\* A row that is there is written by a request that queues nothing: what changes
\* of it is excused.
LEMMA RewriteKeeps ==
  ASSUME MediaInv, NEW b \in Bookmark, row[b] \notin {Unborn, Gone}, NEW y, IsRow(b, y),
         row' = [row EXCEPT ![b] = y],
         NEW r \in Actor, NEW x, IsLocal(x), x.at \notin {"removing", "form"},
         DOMAIN request' = Actor, request'[r] = x, \A q \in Actor \ {r} : request'[q] = request[q],
         \A a, c : Covers(request[r], a, c) => Covers(x, a, c),
         UNCHANGED <<enabled, files, queued, run, asked, missed, faults>>,
         excused \subseteq excused', excused' \subseteq Bookmark \X Column,
         \A c \in Column : (y.url = row[b].url /\ y[c] = row[b][c]) \/ <<b, c>> \in excused',
         URLsApart => \A c \in Image : y[c] \in {NoFile} \cup files,
         \A c \in Image : y[c] = NoFile \/ <<b, c>> \in asked
  PROVE  MediaInv'
  <1>0. Types /\ RowsOK /\ RunsOK /\ LocalsOK /\ TablesOK /\ Bound
    BY DEF MediaInv, Types
  <1>1. /\ DOMAIN request' = Actor /\ request'[r] = x
        /\ \A q \in Actor \ {r} : request'[q] = request[q]
    OBVIOUS
  <1>2. /\ DOMAIN row' = Bookmark /\ row'[b] = y
        /\ \A a \in Bookmark \ {b} : row'[a] = row[a]
    BY <1>0 DEF RowsOK
  <1>3. y \notin {Unborn, Gone}
    BY RowsDiffer DEF IsRow
  <1>4. \A q \in Actor : request'[q].at \in {"removing", "form"} => request'[q] = request[q]
    BY <1>1
  <1>5. RowsOK' /\ RunsOK' /\ LocalsOK' /\ TablesOK' /\ Bound'
    BY <1>0, <1>1, <1>2 DEF RowsOK, RunsOK, LocalsOK, TablesOK, Bound
  <1>6. PagesInv'
    <2>1. ASSUME NEW c \in Column, <<b, c>> \notin excused', ~Shows(row'[b], c)
          PROVE  Waits(queued', b, c) \/ \E w \in Worker : Mends(run[w], row'[b], b, c)
      <3>1. row'[b].url = row[b].url /\ row'[b][c] = row[b][c]
        BY <1>2, <2>1
      <3>2. ~Shows(row[b], c) /\ <<b, c>> \notin excused
        BY <2>1, <3>1 DEF Shows
      <3>3. Waits(queued, b, c) \/ \E w \in Worker : Mends(run[w], row[b], b, c)
        BY <3>2 DEF MediaInv, PagesInv
      <3>4. \A w \in Worker : Mends(run[w], row[b], b, c) => Mends(run[w], row'[b], b, c)
        BY <3>1 DEF Mends
      <3> QED BY <3>3, <3>4
    <2>2. \A j \in Job : queued'[j] \in Nat /\ queued'[j] >= queued[j]
      BY <1>0 DEF TablesOK
    <2> QED BY <1>0, <1>2, <2>1, <2>2, PagesRow DEF MediaInv
  <1>7. Doomed'
    <2> SUFFICES ASSUME NEW q \in Actor, request'[q].at = "removing"
                 PROVE  \E a \in Bookmark : row'[a] = Gone /\ request'[q].doomed \subseteq Shown(a, "preview")
      BY DEF Doomed
    <2>1. request'[q] = request[q]
      BY <1>4
    <2>2. PICK a \in Bookmark : row[a] = Gone /\ request[q].doomed \subseteq Shown(a, "preview")
      BY <2>1 DEF MediaInv, FilesInv, Doomed
    <2> QED BY <1>2, <2>1, <2>2
  <1>8. ASSUME URLsApart PROVE Named' /\ Made' /\ FormsMade'
    <2>1. Named /\ Made /\ FormsMade
      BY <1>8 DEF MediaInv, FilesInv
    <2>2. Named'
      BY <1>2, <1>8, <2>1 DEF Named
    <2>3. ASSUME NEW a \in Bookmark, row'[a] # Gone PROVE row[a] # Gone
      BY <1>2, <2>3
    <2>4. Made'
      <3> SUFFICES ASSUME NEW w \in Worker, run[w].at = "loaded", ColumnOf(run[w].job[2]) \in Image,
                          row'[run[w].job[1]] # Gone
                   PROVE  run[w].result \in {NoFile} \cup files
        BY DEF Made
      <3>1. run[w].job[1] \in Bookmark
        BY <1>0 DEF RunsOK, IsRun, Run, Job, Idle
      <3> QED BY <2>1, <2>3, <3>1 DEF Made
    <2>5. FormsMade'
      <3> SUFFICES ASSUME NEW q \in Actor, request'[q].at = "form", row'[request'[q].b] # Gone
                   PROVE  \A c \in Image : request'[q].shown[c] \in {NoFile} \cup files
        BY DEF FormsMade
      <3>1. request'[q] = request[q] /\ request[q].b \in Bookmark
        BY <1>0, <1>4 DEF LocalsOK, IsLocal
      <3> QED BY <2>1, <2>3, <3>1 DEF FormsMade
    <2> QED BY <2>2, <2>4, <2>5
  <1>9. JobsAsked'
    BY DEF MediaInv, JobsAsked
  <1>10. FilesAsked'
    BY <1>2, <1>4 DEF MediaInv, FilesAsked
  <1>11. ImagesAsked'
    <2> SUFFICES ASSUME NEW a \in Bookmark, NEW c \in enabled \cap Image, row'[a] \notin {Unborn, Gone},
                        <<a, c>> \notin asked \cup missed
                 PROVE  \E q \in Actor : Covers(request'[q], a, c)
      BY DEF ImagesAsked
    <2>1. row[a] \notin {Unborn, Gone}
      BY <1>2
    <2>2. PICK q \in Actor : Covers(request[q], a, c)
      BY <2>1 DEF MediaInv, ImagesAsked, FilesAsked
    <2> QED BY <1>1, <2>2
  <1> QED BY <1>5, <1>6, <1>7, <1>8, <1>9, <1>10, <1>11 DEF MediaInv, Types, FilesInv

\* The import of a bookmark that is there: its columns are excused.
LEMMA ImportAgainKeeps ==
  ASSUME MediaInv, NEW r \in Actor, NEW b \in Bookmark, ImportAgain(r, b)
  PROVE  MediaInv'
  <1>0. RowsOK /\ LocalsOK /\ TablesOK
    BY DEF MediaInv, Types
  <1>1. PICK url \in URLsOf[b] :
          /\ request[r].at = "importing" /\ row[b] \notin {Unborn, Gone}
          /\ row' = [row EXCEPT ![b].url = url]
          /\ excused' = IF url = row[b].url THEN excused ELSE excused \cup ({b} \X Column)
          /\ UNCHANGED <<enabled, files, queued, run, request, asked, missed, faults>>
    BY DEF ImportAgain, Twins, Live
  <1>2. IsRow(b, row[b])
    BY <1>0, <1>1 DEF RowsOK
  <1>3. PICK y : y = WithURL(row[b], url)
    OBVIOUS
  <1>4. IsRow(b, y) /\ y.url = url /\ \A c \in Column : y[c] = row[b][c]
    BY <1>2, <1>3, EditedRow
  <1>5. row' = [row EXCEPT ![b] = y]
    BY <1>1, <1>3 DEF WithURL
  <1>6. /\ IsLocal(request[r]) /\ DOMAIN request' = Actor
        /\ \A q \in Actor : request'[q] = request[q]
    BY <1>0, <1>1 DEF LocalsOK
  <1>7. excused \subseteq excused' /\ excused' \subseteq Bookmark \X Column
    BY <1>0, <1>1 DEF TablesOK
  <1>8. \A c \in Column : (y.url = row[b].url /\ y[c] = row[b][c]) \/ <<b, c>> \in excused'
    BY <1>1, <1>4
  <1>9. /\ URLsApart => \A c \in Image : y[c] \in {NoFile} \cup files
        /\ \A c \in Image : y[c] = NoFile \/ <<b, c>> \in asked
    BY <1>1, <1>4 DEF MediaInv, FilesInv, Named, FilesAsked, Column
  <1> QED BY <1>1, <1>4, <1>5, <1>6, <1>7, <1>8, <1>9, RewriteKeeps

\* A page of an administrator shows a row.
LEMMA ReadFormKeeps ==
  ASSUME MediaInv, NEW r \in Actor, NEW b \in Bookmark, ReadForm(r, b)
  PROVE  MediaInv'
  <1>0. Types /\ RowsOK /\ RunsOK /\ LocalsOK /\ TablesOK /\ Bound
    BY DEF MediaInv, Types
  <1>1. PICK x : x = [at |-> "form", b |-> b, shown |-> row[b]]
    OBVIOUS
  <1>2. /\ request[r].at \in {"idle", "form"} /\ row[b] \notin {Unborn, Gone}
        /\ request' = [request EXCEPT ![r] = x]
        /\ UNCHANGED <<row, enabled, files, queued, run, asked, excused, missed, faults>>
    BY <1>1 DEF ReadForm, Sets, Live
  <1>3. x.at = "form" /\ x.b = b /\ x.shown = row[b]
    BY <1>1
  <1>4. IsLocal(x) /\ \A a, c : ~Covers(request[r], a, c)
    BY <1>0, <1>2, <1>3, IdleCovers DEF RowsOK, IsLocal
  <1>5. /\ DOMAIN request' = Actor /\ request'[r] = x
        /\ \A q \in Actor \ {r} : request'[q] = request[q]
    BY <1>0, <1>2 DEF LocalsOK
  <1>6. RowsOK' /\ RunsOK' /\ LocalsOK' /\ TablesOK' /\ Bound'
    BY <1>0, <1>2, <1>4, <1>5 DEF RowsOK, RunsOK, LocalsOK, TablesOK, Bound
  <1>7. PagesInv' /\ JobsAsked'
    BY <1>2 DEF MediaInv, PagesInv, JobsAsked
  <1>8. Doomed'
    BY <1>2, <1>3, <1>5 DEF MediaInv, FilesInv, Doomed
  <1>9. ASSUME URLsApart PROVE Named' /\ Made' /\ FormsMade'
    <2>1. Named /\ Made /\ FormsMade
      BY <1>9 DEF MediaInv, FilesInv
    <2>2. Named' /\ Made'
      BY <1>2, <2>1 DEF Named, Made
    <2>3. \A c \in Image : row[b][c] \in {NoFile} \cup files
      BY <1>2, <2>1 DEF Named
    <2>4. FormsMade'
      BY <1>2, <1>3, <1>5, <2>1, <2>3 DEF FormsMade
    <2> QED BY <2>2, <2>4
  <1>10. FilesAsked'
    <2>1. \A c \in Image : row[b][c] = NoFile \/ <<b, c>> \in asked
      BY <1>2 DEF MediaInv, FilesAsked
    <2> QED BY <1>2, <1>3, <1>5, <2>1 DEF MediaInv, FilesAsked
  <1>11. ImagesAsked'
    <2> SUFFICES ASSUME NEW a \in Bookmark, NEW c \in enabled \cap Image, row[a] \notin {Unborn, Gone},
                        <<a, c>> \notin asked \cup missed, row[a][c] = NoFile
                 PROVE  \E q \in Actor : Covers(request'[q], a, c)
      BY <1>2 DEF ImagesAsked
    <2>1. PICK q \in Actor : Covers(request[q], a, c)
      BY DEF MediaInv, ImagesAsked
    <2> QED BY <1>4, <1>5, <2>1
  <1> QED BY <1>6, <1>7, <1>8, <1>9, <1>10, <1>11 DEF MediaInv, Types, FilesInv

\* The form on such a page: what it changes is excused.
LEMMA SaveFormKeeps ==
  ASSUME MediaInv, NEW r \in Actor, SaveForm(r)
  PROVE  MediaInv'
  <1>0. Types /\ RowsOK /\ LocalsOK /\ TablesOK
    BY DEF MediaInv, Types
  <1> DEFINE b == request[r].b
             shown == request[r].shown
             stale(url) == {c \in Column : url # row[b].url \/ shown[c] # row[b][c]}
  <1>1. /\ request[r].at = "form" /\ request' = [request EXCEPT ![r] = Idle]
        /\ UNCHANGED <<enabled, files, queued, run, asked, missed, faults>>
    BY DEF SaveForm, Sets
  <1>2. b \in Bookmark /\ IsRow(b, shown)
    BY <1>0, <1>1 DEF LocalsOK, IsLocal
  <1>3. IsLocal(Idle) /\ Idle.at = "idle"
    BY DEF Idle, IsLocal
  <1>4. \A a, c : ~Covers(request[r], a, c)
    BY <1>1, IdleCovers
  <1>5. CASE b \notin Live
    <2>1. UNCHANGED <<row, excused>>
      BY <1>5 DEF SaveForm
    <2>2. enabled' \in Profiles /\ missed' \subseteq Bookmark \X Image
      BY <1>0, <1>1 DEF TablesOK
    <2>3. enabled' = enabled /\ missed' = missed
      BY <1>1
    <2> HIDE DEF b, shown
    <2> QED BY <1>1, <1>3, <1>4, <2>1, <2>2, <2>3, LocalStep
  <1>6. CASE b \in Live
    <2>1. PICK url \in URLsOf[b] : /\ row' = [row EXCEPT ![b] = WithURL(shown, url)]
                                   /\ excused' = excused \cup ({b} \X stale(url))
      BY <1>6 DEF SaveForm, WithURL
    <2>2. PICK y : y = WithURL(shown, url)
      OBVIOUS
    <2>3. IsRow(b, y) /\ y.url = url /\ \A c \in Column : y[c] = shown[c]
      BY <1>2, <2>2, EditedRow
    <2>4. row[b] \notin {Unborn, Gone}
      BY <1>6 DEF Live
    <2>5. /\ URLsApart => \A c \in Image : shown[c] \in {NoFile} \cup files
          /\ \A c \in Image : shown[c] = NoFile \/ <<b, c>> \in asked
      BY <1>1, <2>4 DEF MediaInv, FilesInv, FormsMade, FilesAsked
    <2>6. /\ URLsApart => \A c \in Image : y[c] \in {NoFile} \cup files
          /\ \A c \in Image : y[c] = NoFile \/ <<b, c>> \in asked
      BY <2>3, <2>5 DEF Column
    <2>7. excused \subseteq excused' /\ excused' \subseteq Bookmark \X Column
      BY <1>0, <1>2, <2>1 DEF TablesOK
    <2>8. \A c \in Column : (y.url = row[b].url /\ y[c] = row[b][c]) \/ <<b, c>> \in excused'
      BY <2>1, <2>3
    <2>9. row' = [row EXCEPT ![b] = y]
      BY <2>1, <2>2
    <2>10. /\ DOMAIN request' = Actor /\ request'[r] = Idle
           /\ \A q \in Actor \ {r} : request'[q] = request[q]
      BY <1>0, <1>1 DEF LocalsOK
    <2> HIDE DEF b, shown, stale
    <2> QED BY <1>1, <1>2, <1>3, <1>4, <2>3, <2>4, <2>6, <2>7, <2>8, <2>9, <2>10, RewriteKeeps
  <1> QED BY <1>5, <1>6

\* A bookmark of an administrator's form: its images are missed.
LEMMA AdminCreateKeeps ==
  ASSUME MediaInv, NEW b \in Bookmark, AdminCreate(b)
  PROVE  MediaInv'
  <1>0. Types /\ LocalsOK /\ TablesOK /\ JobsAsked /\ Bound
    BY DEF MediaInv, Types
  <1>1. PICK url \in URLsOf[b] :
          /\ row[b] = Unborn /\ row' = [row EXCEPT ![b] = New(url)]
          /\ missed' = missed \cup ({b} \X (enabled \cap Image))
          /\ UNCHANGED <<enabled, files, queued, run, request, asked, excused, faults>>
    BY DEF AdminCreate
  <1>2. \A j \in Job : queued'[j] \in Nat /\ queued'[j] >= queued[j]
    BY <1>0, <1>1 DEF TablesOK
  <1>3. /\ RowsOK' /\ RunsOK' /\ PagesInv' /\ FilesInv' /\ FilesAsked'
        /\ row'[b] = New(url) /\ \A a \in Bookmark \ {b} : row'[a] = row[a]
    BY <1>1, <1>2, BornKeeps
  <1>4. LocalsOK' /\ TablesOK' /\ Bound' /\ JobsAsked'
    BY <1>0, <1>1 DEF LocalsOK, TablesOK, Bound, JobsAsked
  <1>5. ImagesAsked'
    <2>1. \A c \in enabled \cap Image : <<b, c>> \in missed'
      BY <1>1
    <2> QED BY <1>1, <1>3, <2>1 DEF MediaInv, ImagesAsked
  <1> QED BY <1>3, <1>4, <1>5 DEF MediaInv, Types

\* The profile of an administrator's form: what it enables is missed.
LEMMA AdminProfileKeeps ==
  ASSUME MediaInv, AdminProfile
  PROVE  MediaInv'
  <1>0. Types /\ RowsOK /\ RunsOK /\ LocalsOK /\ TablesOK /\ Bound
    BY DEF MediaInv, Types
  <1>1. PICK new \in Profiles :
          /\ enabled' = new /\ missed' = missed \cup (Live \X ((new \ enabled) \cap Image))
          /\ UNCHANGED <<row, files, queued, run, request, asked, excused, faults>>
    BY DEF AdminProfile
  <1>2. missed' \subseteq Bookmark \X Image
    BY <1>0, <1>1 DEF TablesOK, Live
  <1>3. RowsOK' /\ RunsOK' /\ LocalsOK' /\ TablesOK' /\ Bound'
    BY <1>0, <1>1, <1>2 DEF RowsOK, RunsOK, LocalsOK, TablesOK, Bound
  <1>4. PagesInv' /\ JobsAsked'
    BY <1>1 DEF MediaInv, PagesInv, JobsAsked
  <1>5. FilesInv'
    BY <1>1, FilesKept DEF MediaInv
  <1>6. FilesAsked'
    BY <1>1, AskedKept DEF MediaInv
  <1>7. ImagesAsked'
    <2>1. \A b \in Bookmark, c \in new \cap Image :
            row[b] \in {Unborn, Gone} \/ c \in enabled \/ <<b, c>> \in missed'
      BY <1>1 DEF Live
    <2> QED BY <1>1, <2>1 DEF MediaInv, ImagesAsked
  <1> QED BY <1>3, <1>4, <1>5, <1>6, <1>7 DEF MediaInv, Types

\* Refresh: one more job.
LEMMA RefreshKeeps ==
  ASSUME MediaInv, NEW b \in Bookmark, Refresh(b)
  PROVE  MediaInv'
  <1>0. Types /\ RowsOK /\ RunsOK /\ LocalsOK /\ TablesOK /\ JobsAsked
    BY DEF MediaInv, Types
  <1>1. Enqueue({<<b, "preview">>}) /\ UNCHANGED <<row, enabled, files, run, request, excused, missed, faults>>
    BY DEF Refresh
  <1>2. {<<b, "preview">>} \in SUBSET Job
    BY DEF Job, JobKind, Column, Image
  <1>3. /\ queued' \in [Job -> Nat] /\ \A j \in Job : queued'[j] \in Nat /\ queued'[j] >= queued[j]
        /\ asked \subseteq asked' /\ asked' \subseteq Bookmark \X Image /\ Bound' /\ JobsAsked'
    BY <1>0, <1>1, <1>2, EnqueueSteps
  <1>4. RowsOK' /\ RunsOK' /\ LocalsOK' /\ TablesOK'
    BY <1>0, <1>1, <1>3 DEF RowsOK, RunsOK, LocalsOK, TablesOK
  <1>5. PagesInv'
    BY <1>0, <1>1, <1>3, PagesKept DEF MediaInv
  <1>6. FilesInv'
    BY <1>1, FilesKept DEF MediaInv
  <1>7. ImagesAsked'
    BY <1>1, <1>3 DEF MediaInv, ImagesAsked
  <1>8. FilesAsked'
    BY <1>1, <1>3, AskedKept DEF MediaInv
  <1> QED BY <1>3, <1>4, <1>5, <1>6, <1>7, <1>8 DEF MediaInv, Types

\* QueueOne: what was to be asked is asked.
LEMMA QueueOneKeeps ==
  ASSUME MediaInv, NEW r \in Actor, QueueOne(r)
  PROVE  MediaInv'
  <1>0. Types /\ RowsOK /\ RunsOK /\ LocalsOK /\ TablesOK /\ JobsAsked
    BY DEF MediaInv, Types
  <1> DEFINE x(b) == [request[r] EXCEPT !.todo = @ \ {b}]
  <1>1. PICK b \in request[r].todo :
          /\ request[r].at = "queueing" /\ Enqueue({<<b, request[r].kind>>})
          /\ request' = [request EXCEPT ![r] = x(b)]
          /\ UNCHANGED <<row, enabled, files, run, excused, missed, faults>>
    BY DEF QueueOne, Sets
  <1>2. /\ request[r] \in [at : {"queueing"}, kinds : SUBSET Image, kind : Image, todo : SUBSET Bookmark]
        /\ b \in Bookmark /\ request[r].kind \in Image
    BY <1>0, <1>1 DEF LocalsOK, IsLocal
  <1>3. PICK y : y = x(b)
    OBVIOUS
  <1>4. /\ y \in [at : {"queueing"}, kinds : SUBSET Image, kind : Image, todo : SUBSET Bookmark]
        /\ y.at = "queueing" /\ y.kinds = request[r].kinds /\ y.kind = request[r].kind
        /\ y.todo = request[r].todo \ {b}
    BY <1>2, <1>3
  <1>5. /\ DOMAIN request' = Actor /\ request'[r] = y
        /\ \A q \in Actor \ {r} : request'[q] = request[q]
    BY <1>0, <1>1, <1>3 DEF LocalsOK
  <1>6. {<<b, request[r].kind>>} \in SUBSET Job
    BY <1>2 DEF Job, JobKind, Column
  <1>7. /\ queued' \in [Job -> Nat] /\ \A j \in Job : queued'[j] \in Nat /\ queued'[j] >= queued[j]
        /\ asked \subseteq asked' /\ asked' \subseteq Bookmark \X Image
        /\ \A j \in {<<b, request[r].kind>>} : j[2] \in Image => j \in asked'
        /\ Bound' /\ JobsAsked'
    BY <1>0, <1>1, <1>6, EnqueueSteps
  <1>8. RowsOK' /\ RunsOK' /\ TablesOK'
    BY <1>0, <1>1, <1>7 DEF RowsOK, RunsOK, TablesOK
  <1>9. LocalsOK'
    BY <1>0, <1>4, <1>5 DEF LocalsOK, IsLocal
  <1>10. PagesInv'
    BY <1>0, <1>1, <1>7, PagesKept DEF MediaInv
  <1>11. FilesInv'
    BY <1>1, <1>4, <1>5, FilesKept DEF MediaInv
  <1>12. ImagesAsked'
    <2>1. <<b, request[r].kind>> \in asked'
      BY <1>2, <1>7
    <2>2. \A a, c : Covers(request[r], a, c) => Covers(y, a, c) \/ (a = b /\ c = request[r].kind)
      BY <1>1, <1>4 DEF Covers
    <2> SUFFICES ASSUME NEW a \in Bookmark, NEW c \in enabled \cap Image, row[a] \notin {Unborn, Gone},
                        <<a, c>> \notin asked' \cup missed, row[a][c] = NoFile
                 PROVE  \E q \in Actor : Covers(request'[q], a, c)
      BY <1>1 DEF ImagesAsked
    <2>3. PICK q \in Actor : Covers(request[q], a, c)
      BY <1>7 DEF MediaInv, ImagesAsked
    <2> QED BY <1>5, <2>1, <2>2, <2>3
  <1>13. FilesAsked'
    BY <1>1, <1>4, <1>5, <1>7, AskedKept DEF MediaInv
  <1> QED BY <1>7, <1>8, <1>9, <1>10, <1>11, <1>12, <1>13 DEF MediaInv, Types

-----------------------------------------------------------------------------
(***************************************************************************)
(* Steps of workers.                                                        *)
(***************************************************************************)
\* A worker's locals are those of a job while it is busy.
LEMMA BusyRun ==
  ASSUME RunsOK, NEW w \in Worker
  PROVE  /\ run[w].at # "idle" => IsRun(run[w]) /\ run[w].job \in Job /\ run[w].job[1] \in Bookmark
         /\ run[w].at = "idle" => run[w] = Idle
  <1>1. run[w] = Idle \/ IsRun(run[w])
    BY DEF RunsOK
  <1>2. Idle.at = "idle"
    BY DEF Idle
  <1>3. IsRun(run[w]) => run[w].job \in Job /\ run[w].job[1] \in Bookmark /\ run[w].at # "idle"
    BY DEF IsRun, Run, Job
  <1> QED BY <1>1, <1>2, <1>3

\* Jobs that still wait when one is taken, or when some are added.
LEMMA WaitsStill ==
  ASSUME NEW q \in [Job -> Nat], NEW p \in [Job -> Nat], NEW j, \A i \in Job \ {j} : p[i] >= q[i],
         NEW b \in Bookmark, NEW c, Waits(q, b, c)
  PROVE  Waits(p, b, c) \/ (j[1] = b /\ ColumnOf(j[2]) = c /\ j[2] # "archive")
  <1>1. PICK k \in JobKind : ColumnOf(k) = c /\ k # "archive" /\ q[<<b, k>>] > 0
    BY DEF Waits
  <1>2. <<b, k>> \in Job
    BY DEF Job
  <1>3. CASE <<b, k>> = j
    BY <1>1, <1>3
  <1>4. CASE <<b, k>> # j
    <2>1. p[<<b, k>>] > 0
      BY <1>1, <1>2, <1>4
    <2> QED BY <1>1, <2>1 DEF Waits
  <1> QED BY <1>3, <1>4

\* The job of a worker that would have written a column waits again.
LEMMA HandedOn ==
  ASSUME NEW x, x.job \in Job, NEW y, NEW b, NEW c, Mends(x, y, b, c), NEW q, q[x.job] > 0
  PROVE  Waits(q, b, c)
  <1>1. PICK a \in Bookmark, k \in JobKind : x.job = <<a, k>>
    BY DEF Job
  <1>2. a = b /\ ColumnOf(k) = c /\ k # "archive" /\ q[<<b, k>>] > 0
    BY <1>1 DEF Mends
  <1> QED BY <1>2 DEF Waits

\* What a step of a worker that writes no row does to the tables.
Moves(w) ==
  /\ DOMAIN run' = Worker /\ \A v \in Worker \ {w} : run'[v] = run[v]
  /\ run'[w] = Idle \/ IsRun(run'[w])
  /\ UNCHANGED <<row, enabled, request, asked, missed>>
  /\ queued' \in [Job -> Nat] /\ faults' \in 0..MaxFaults
  /\ files \subseteq files' /\ files' \subseteq ImageFiles
  /\ excused \subseteq excused' /\ excused' \subseteq Bookmark \X Column
\* A job that waits is not queued again.
Counts(w) == \A j \in Job : queued'[j] + One(run'[w], j) <= queued[j] + One(run[w], j)
\* The step leaves a job for each wrong column that had this one.
Answers(w) ==
  \A b \in Bookmark, c \in Column :
    row[b] \notin {Unborn, Gone} /\ ~Shows(row[b], c) /\ (Waits(queued, b, c) \/ Mends(run[w], row[b], b, c)) =>
      Waits(queued', b, c) \/ Mends(run'[w], row[b], b, c) \/ <<b, c>> \in excused'
\* The file that it is about to name is there.
Makes(w) ==
  URLsApart /\ run'[w].at = "loaded" /\ ColumnOf(run'[w].job[2]) \in Image /\ row[run'[w].job[1]] # Gone =>
    run'[w].result \in {NoFile} \cup files'
\* It works on what was asked for.
Asks(w) ==
  /\ \A j \in Job : j[2] \in Image /\ queued'[j] > 0 => j \in asked
  /\ run'[w].at # "idle" /\ run'[w].job[2] \in Image => run'[w].job \in asked

\* A step of a worker that writes no row.
LEMMA WorkerStep ==
  ASSUME MediaInv, NEW w \in Worker, Moves(w), Counts(w), Answers(w), Makes(w), Asks(w)
  PROVE  MediaInv'
  <1>0. Types /\ RowsOK /\ RunsOK /\ LocalsOK /\ TablesOK /\ Bound
    BY DEF MediaInv, Types
  <1>m. /\ row' = row /\ enabled' = enabled /\ request' = request /\ asked' = asked /\ missed' = missed
    BY DEF Moves
  <1>1. RowsOK' /\ RunsOK' /\ LocalsOK'
    BY <1>0 DEF RowsOK, RunsOK, LocalsOK, Moves
  <1>2. TablesOK'
    BY <1>0 DEF TablesOK, Moves
  <1>3. Bound'
    <2> SUFFICES ASSUME NEW j \in Job PROVE queued'[j] + Cardinality(HeldIn(run', j)) <= Copies
      BY DEF Bound
    <2>1. /\ Cardinality(HeldIn(run, j)) \in Nat /\ Cardinality(HeldIn(run', j)) \in Nat
          /\ Cardinality(HeldIn(run', j)) = Cardinality(HeldIn(run, j)) + One(run'[w], j) - One(run[w], j)
      <3>1. \A v \in Worker \ {w} : run'[v] = run[v]
        BY DEF Moves
      <3> QED BY <3>1, Counting
    <2>2. queued[j] + Cardinality(HeldIn(run, j)) <= Copies
      BY <1>0 DEF Bound
    <2>3. queued[j] \in Nat /\ queued'[j] \in Nat /\ One(run[w], j) \in Nat /\ One(run'[w], j) \in Nat
      BY <1>0 DEF TablesOK, Moves, One
    <2>4. queued'[j] + One(run'[w], j) <= queued[j] + One(run[w], j)
      BY DEF Counts
    <2> QED BY <2>1, <2>2, <2>3, <2>4, MediaAssumption
  <1>4. PagesInv'
    <2>p. PagesInv
      BY DEF MediaInv
    <2> SUFFICES ASSUME NEW b \in Bookmark, NEW c \in Column, row[b] \notin {Unborn, Gone},
                        ~Shows(row[b], c), <<b, c>> \notin excused'
                 PROVE  Waits(queued', b, c) \/ \E v \in Worker : Mends(run'[v], row[b], b, c)
      BY <1>m DEF PagesInv
    <2>1. Waits(queued, b, c) \/ \E v \in Worker : Mends(run[v], row[b], b, c)
      BY DEF MediaInv, PagesInv, Moves
    <2>2. CASE Waits(queued, b, c) \/ Mends(run[w], row[b], b, c)
      BY <2>2 DEF Answers
    <2>3. CASE \E v \in Worker \ {w} : Mends(run[v], row[b], b, c)
      BY <2>3 DEF Moves
    <2> QED BY <2>1, <2>2, <2>3
  <1>5. FilesInv'
    <2>1. Doomed'
      BY DEF MediaInv, FilesInv, Doomed, Moves
    <2>2. ASSUME URLsApart PROVE Named' /\ Made' /\ FormsMade'
      <3>1. Named /\ Made /\ FormsMade
        BY <2>2 DEF MediaInv, FilesInv
      <3>2. Named'
        BY <3>1 DEF Named, Moves
      <3>3. ASSUME NEW v \in Worker, run'[v].at = "loaded", ColumnOf(run'[v].job[2]) \in Image,
                   row[run'[v].job[1]] # Gone
            PROVE  run'[v].result \in {NoFile} \cup files'
        BY <2>2, <3>1, <3>3 DEF Made, Moves, Makes
      <3>4. FormsMade'
        BY <3>1 DEF FormsMade, Moves
      <3> QED BY <1>m, <3>2, <3>3, <3>4 DEF Made
    <2> QED BY <2>1, <2>2 DEF FilesInv
  <1>6. JobsAsked'
    BY DEF MediaInv, JobsAsked, Moves, Asks
  <1>7. ImagesAsked'
    <2>1. ImagesAsked
      BY DEF MediaInv
    <2> QED BY <1>m, <2>1 DEF ImagesAsked
  <1>8. FilesAsked'
    BY <1>m, AskedKept DEF MediaInv
  <1> QED BY <1>1, <1>2, <1>3, <1>4, <1>5, <1>6, <1>7, <1>8 DEF MediaInv, Types

\* The claim and bookmarkForJob: the handler reads the URL and a wrong column.
LEMMA BeginKeeps ==
  ASSUME MediaInv, NEW w \in Worker, Begin(w)
  PROVE  MediaInv'
  <1>0. RowsOK /\ RunsOK /\ TablesOK /\ JobsAsked /\ queued \in [Job -> Nat] /\ Idle.at = "idle"
    BY DEF MediaInv, Types, TablesOK, Idle
  <1> DEFINE goes(j) == row[j[1]] \notin {Unborn, Gone} /\ ~(j[2] = "archive" /\ row[j[1]].archive # NoFile)
  <1>1. PICK j \in Job :
          /\ run[w].at = "idle" /\ queued[j] > 0 /\ queued' = [queued EXCEPT ![j] = @ - 1]
          /\ run' = IF goes(j) THEN [run EXCEPT ![w] = Begun(j, row[j[1]])] ELSE run
          /\ UNCHANGED <<row, enabled, files, request, asked, excused, missed, faults>>
    <2>1. PICK j \in DOMAIN queued :
            /\ ~Busy(w) /\ queued[j] > 0 /\ queued' = [queued EXCEPT ![j] = @ - 1]
            /\ IF j[1] \in Live /\ ~(j[2] = "archive" /\ row[j[1]].archive # NoFile)
               THEN run' = [run EXCEPT ![w] = [at |-> "loading", job |-> j, held |-> TRUE, result |-> NoFile,
                                               url |-> row[j[1]].url, current |-> row[j[1]][ColumnOf(j[2])]]]
               ELSE UNCHANGED run
            /\ UNCHANGED <<row, enabled, files, request, asked, excused, missed, faults>>
      BY DEF Begin
    <2>2. j \in Job /\ j[1] \in Bookmark
      BY <1>0, <2>1 DEF Job
    <2> QED BY <2>1, <2>2 DEF Live, Busy, Begun
  <1>2. run[w] = Idle /\ j[1] \in Bookmark
    BY <1>0, <1>1, BusyRun DEF Job
  <1>3. /\ queued' \in [Job -> Nat] /\ queued'[j] = queued[j] - 1
        /\ \A i \in Job \ {j} : queued'[i] = queued[i]
    BY <1>0, <1>1
  <1>4. CASE goes(j)
    <2>1. IsRow(j[1], row[j[1]])
      BY <1>0, <1>2, <1>4 DEF RowsOK
    <2> DEFINE x == Begun(j, row[j[1]])
    <2>2. /\ IsRun(x) /\ x.at = "loading" /\ x.job = j
          /\ x.held /\ x.url = row[j[1]].url /\ x.current = row[j[1]][ColumnOf(j[2])]
      BY <2>1, BegunRun
    <2> HIDE DEF x
    <2>3. DOMAIN run' = Worker /\ run'[w] = x /\ \A v \in Worker \ {w} : run'[v] = run[v]
      BY <1>0, <1>1, <1>4 DEF RunsOK, x
    <2>4. Counts(w)
      <3> SUFFICES ASSUME NEW i \in Job PROVE queued'[i] + One(x, i) <= queued[i] + One(run[w], i)
        BY <2>3 DEF Counts
      <3>1. One(run[w], i) = 0
        BY <1>0, <1>2 DEF One, HeldOf
      <3>2. One(x, i) = IF i = j THEN 1 ELSE 0
        BY <2>2 DEF One, HeldOf
      <3>3. queued[i] \in Nat /\ queued'[i] \in Nat
        BY <1>0, <1>3
      <3> QED BY <1>3, <3>1, <3>2, <3>3
    <2>5. Answers(w)
      <3> SUFFICES ASSUME NEW b \in Bookmark, NEW c \in Column, row[b] \notin {Unborn, Gone}, ~Shows(row[b], c),
                          Waits(queued, b, c) \/ Mends(run[w], row[b], b, c)
                   PROVE  Waits(queued', b, c) \/ Mends(run'[w], row[b], b, c)
        BY DEF Answers
      <3>1. Waits(queued, b, c)
        BY <1>0, <1>2 DEF Mends
      <3>2. CASE j[1] = b /\ ColumnOf(j[2]) = c /\ j[2] # "archive"
        BY <2>2, <2>3, <3>2 DEF Mends, Shows
      <3>3. \A i \in Job \ {j} : queued'[i] >= queued[i]
        BY <1>0, <1>3
      <3>4. Waits(queued', b, c) \/ (j[1] = b /\ ColumnOf(j[2]) = c /\ j[2] # "archive")
        BY <1>0, <1>3, <3>1, <3>3, WaitsStill
      <3> QED BY <3>2, <3>4
    <2>6. Makes(w) /\ Asks(w)
      BY <1>0, <1>1, <1>3, <2>2, <2>3 DEF JobsAsked, Makes, Asks
    <2>7. Moves(w)
      BY <1>0, <1>1, <1>3, <2>2, <2>3 DEF TablesOK, Moves
    <2> QED BY <2>4, <2>5, <2>6, <2>7, WorkerStep
  <1>5. CASE ~goes(j)
    <2>1. run' = run /\ DOMAIN run' = Worker
      BY <1>0, <1>1, <1>5 DEF RunsOK
    <2>2. Counts(w)
      <3> SUFFICES ASSUME NEW i \in Job PROVE queued'[i] + One(run[w], i) <= queued[i] + One(run[w], i)
        BY <2>1 DEF Counts
      <3>1. queued[i] \in Nat /\ queued'[i] \in Nat /\ One(run[w], i) \in Nat
        BY <1>0, <1>3 DEF One
      <3> QED BY <1>3, <3>1
    <2>3. Answers(w)
      <3> SUFFICES ASSUME NEW b \in Bookmark, NEW c \in Column, row[b] \notin {Unborn, Gone}, ~Shows(row[b], c),
                          Waits(queued, b, c) \/ Mends(run[w], row[b], b, c)
                   PROVE  Waits(queued', b, c)
        BY DEF Answers
      <3>1. Waits(queued, b, c)
        BY <1>0, <1>2 DEF Mends
      <3>3. \A i \in Job \ {j} : queued'[i] >= queued[i]
        BY <1>0, <1>3
      <3>4. Waits(queued', b, c) \/ (j[1] = b /\ ColumnOf(j[2]) = c /\ j[2] # "archive")
        BY <1>0, <1>3, <3>1, <3>3, WaitsStill
      <3> QED BY <1>5, <3>4
    <2>4. Makes(w) /\ Asks(w)
      BY <1>0, <1>1, <1>2, <1>3, <2>1 DEF JobsAsked, Makes, Asks
    <2>5. Moves(w)
      BY <1>0, <1>1, <1>2, <1>3, <2>1 DEF TablesOK, Moves
    <2> QED BY <2>2, <2>3, <2>4, <2>5, WorkerStep
  <1> QED BY <1>4, <1>5

\* A job that waits still does when others are added.
LEMMA MoreWaits ==
  ASSUME NEW q \in [Job -> Nat], NEW p \in [Job -> Nat], \A i \in Job : p[i] >= q[i],
         NEW b \in Bookmark, NEW c, Waits(q, b, c)
  PROVE  Waits(p, b, c)
  <1>1. PICK k \in JobKind : ColumnOf(k) = c /\ k # "archive" /\ q[<<b, k>>] > 0
    BY DEF Waits
  <1>2. <<b, k>> \in Job
    BY DEF Job
  <1>3. p[<<b, k>>] > 0
    BY <1>1, <1>2
  <1> QED BY <1>1, <1>3 DEF Waits

\* A transfer that ends: the file is there before the column names it.
LEMMA LoadKeeps ==
  ASSUME MediaInv, NEW w \in Worker, run[w].at = "loading",
         NEW file \in {NoFile, File(ColumnOf(run[w].job[2]), run[w].url)},
         run' = [run EXCEPT ![w] = WithResult(run[w], file)],
         UNCHANGED <<row, enabled, queued, request, asked, excused, missed, faults>>,
         files \subseteq files', files' \subseteq ImageFiles,
         ColumnOf(run[w].job[2]) \in Image => file \in {NoFile} \cup files'
  PROVE  MediaInv'
  <1>0. RunsOK /\ TablesOK /\ JobsAsked
    BY DEF MediaInv, Types
  <1>1. IsRun(run[w]) /\ run[w].job \in Job
    BY <1>0, BusyRun
  <1>2. PICK y : y = WithResult(run[w], file)
    OBVIOUS
  <1>3. /\ IsRun(y) /\ y.at = "loaded" /\ y.result = file /\ y.job = run[w].job
        /\ y.held = run[w].held /\ y.url = run[w].url /\ y.current = run[w].current
    BY <1>1, <1>2, LoadedRun
  <1>4. DOMAIN run' = Worker /\ run'[w] = y /\ \A v \in Worker \ {w} : run'[v] = run[v]
    BY <1>0, <1>2 DEF RunsOK
  <1>5. Moves(w)
    BY <1>0, <1>3, <1>4 DEF Moves, TablesOK
  <1>6. Counts(w)
    <2> SUFFICES ASSUME NEW j \in Job PROVE queued'[j] + One(y, j) <= queued[j] + One(run[w], j)
      BY <1>4 DEF Counts
    <2>1. One(y, j) = One(run[w], j) /\ One(y, j) \in Nat
      BY <1>3 DEF One, HeldOf
    <2>2. queued'[j] = queued[j] /\ queued[j] \in Nat
      BY <1>0 DEF TablesOK
    <2> QED BY <2>1, <2>2
  <1>7. Answers(w)
    <2>1. \A x, b, c : Mends(run[w], x, b, c) => Mends(y, x, b, c)
      BY <1>3 DEF Mends
    <2>2. queued' = queued /\ run'[w] = y
      BY <1>4
    <2> QED BY <2>1, <2>2 DEF Answers
  <1>8. Makes(w)
    BY <1>3, <1>4 DEF Makes
  <1>9. Asks(w)
    BY <1>0, <1>3, <1>4 DEF Asks, JobsAsked
  <1> QED BY <1>5, <1>6, <1>7, <1>8, <1>9, WorkerStep

\* A handler that ends, or goes on without its lease.
LEMMA LeavesKeep ==
  ASSUME MediaInv, NEW w \in Worker, run[w].at # "idle", NEW y,
         \/ y = Idle
         \/ IsRun(y) /\ ~y.held /\ y.at = run[w].at /\ y.job = run[w].job /\ y.result = run[w].result,
         run' = [run EXCEPT ![w] = y],
         UNCHANGED <<row, enabled, files, request, asked, missed>>,
         excused \subseteq excused', excused' \subseteq Bookmark \X Column, faults' \in 0..MaxFaults,
         UNCHANGED queued \/ (run[w].held /\ queued' = [queued EXCEPT ![run[w].job] = @ + 1]),
         \A b \in Bookmark, c \in Column :
           row[b] \notin {Unborn, Gone} /\ ~Shows(row[b], c) /\ Mends(run[w], row[b], b, c) =>
             Waits(queued', b, c) \/ <<b, c>> \in excused'
  PROVE  MediaInv'
  <1>0. RunsOK /\ TablesOK /\ JobsAsked /\ queued \in [Job -> Nat] /\ Idle.at = "idle"
    BY DEF MediaInv, Types, TablesOK, Idle
  <1>1. IsRun(run[w]) /\ run[w].job \in Job
    BY <1>0, BusyRun
  <1>2. DOMAIN run' = Worker /\ run'[w] = y /\ \A v \in Worker \ {w} : run'[v] = run[v]
    BY <1>0 DEF RunsOK
  <1>3. PICK i \in Job : i = run[w].job
    BY <1>1
  <1>4. /\ queued' \in [Job -> Nat] /\ \A j \in Job : queued'[j] >= queued[j]
        /\ \A j \in Job \ {i} : queued'[j] = queued[j]
        /\ queued'[i] = queued[i] \/ (run[w].held /\ queued'[i] = queued[i] + 1)
    <2>1. CASE UNCHANGED queued
      BY <1>0, <2>1
    <2>2. CASE run[w].held /\ queued' = [queued EXCEPT ![run[w].job] = @ + 1]
      BY <1>0, <1>3, <2>2
    <2> QED BY <2>1, <2>2
  <1>5. Moves(w)
    BY <1>0, <1>2, <1>4 DEF Moves, TablesOK
  <1>6. Counts(w)
    <2> SUFFICES ASSUME NEW j \in Job PROVE queued'[j] + One(y, j) <= queued[j] + One(run[w], j)
      BY <1>2 DEF Counts
    <2>1. One(y, j) = 0
      BY <1>0 DEF One, HeldOf
    <2>2. One(run[w], j) \in Nat /\ queued[j] \in Nat /\ queued'[j] \in Nat
      BY <1>0, <1>4 DEF One
    <2>3. CASE j = i
      <3>1. run[w].held => One(run[w], j) = 1
        BY <1>3, <2>3 DEF One, HeldOf
      <3> QED BY <1>4, <2>1, <2>2, <2>3, <3>1
    <2>4. CASE j # i
      BY <1>4, <2>1, <2>2, <2>4
    <2> QED BY <2>3, <2>4
  <1>7. Answers(w)
    <2> SUFFICES ASSUME NEW b \in Bookmark, NEW c \in Column, row[b] \notin {Unborn, Gone}, ~Shows(row[b], c),
                        Waits(queued, b, c) \/ Mends(run[w], row[b], b, c)
                 PROVE  Waits(queued', b, c) \/ <<b, c>> \in excused'
      BY DEF Answers
    <2>1. CASE Waits(queued, b, c)
      BY <1>0, <1>4, <2>1, MoreWaits
    <2>2. CASE Mends(run[w], row[b], b, c)
      BY <2>2
    <2> QED BY <2>1, <2>2
  <1>8. Makes(w)
    <2> SUFFICES ASSUME URLsApart, y.at = "loaded", ColumnOf(y.job[2]) \in Image, row[y.job[1]] # Gone
                 PROVE  y.result \in {NoFile} \cup files
      BY <1>2 DEF Makes
    <2>1. y.at = run[w].at /\ y.job = run[w].job /\ y.result = run[w].result
      BY <1>0
    <2> QED BY <2>1 DEF MediaInv, FilesInv, Made
  <1>9. Asks(w)
    <2>1. \A j \in Job : j[2] \in Image /\ queued'[j] > 0 => j \in asked
      <3> SUFFICES ASSUME NEW j \in Job, j[2] \in Image, queued'[j] > 0 PROVE j \in asked
        OBVIOUS
      <3>1. CASE j = i
        BY <1>0, <1>3, <3>1 DEF JobsAsked
      <3>2. CASE j # i
        BY <1>0, <1>4, <3>2 DEF JobsAsked
      <3> QED BY <3>1, <3>2
    <2>2. y.at # "idle" /\ y.job[2] \in Image => y.job \in asked
      BY <1>0 DEF JobsAsked
    <2> QED BY <1>2, <2>1, <2>2 DEF Asks
  <1> QED BY <1>5, <1>6, <1>7, <1>8, <1>9, WorkerStep

\* loadFavicon and loadPreview.
LEMMA LoadImageKeeps ==
  ASSUME MediaInv, NEW w \in Worker, LoadFavicon(w) \/ LoadPreview(w)
  PROVE  MediaInv'
  <1>0. RunsOK /\ files \subseteq ImageFiles
    BY DEF MediaInv, Types, TablesOK
  <1>1. /\ run[w].at = "loading" /\ IsRun(run[w]) /\ run[w].url \in URL
        /\ UNCHANGED <<row, enabled, queued, request, asked, excused, missed, faults>>
    <2>1. run[w].at = "loading" /\ UNCHANGED <<row, enabled, queued, request, asked, excused, missed, faults>>
      BY DEF LoadFavicon, LoadPreview, Loading
    <2> QED BY <1>0, <2>1, BusyRun DEF IsRun, Run
  <1>2. PICK c, file :
          /\ c \in Image /\ file \in {NoFile, File(c, run[w].url)}
          /\ ColumnOf(run[w].job[2]) = c /\ Loads(w, file)
          /\ files' = files \cup ({file} \ {NoFile})
    <2>1. CASE LoadFavicon(w)
      <3>1. "favicon" \in Image /\ File("favicon", run[w].url) # NoFile
        BY FileNames DEF Image
      <3> QED BY <2>1, <3>1 DEF LoadFavicon, Loading
    <2>2. CASE LoadPreview(w)
      <3>1. "preview" \in Image /\ File("preview", run[w].url) # NoFile
        BY FileNames DEF Image
      <3> QED BY <2>2, <3>1 DEF LoadPreview, Loading
    <2> QED BY <2>1, <2>2
  <1>3. run' = [run EXCEPT ![w] = WithResult(run[w], file)]
    BY <1>0, <1>2 DEF Loads, WithResult, RunsOK
  <1>4. /\ files \subseteq files' /\ file \in {NoFile} \cup files'
        /\ files' \subseteq ImageFiles
    BY <1>0, <1>1, <1>2 DEF ImageFiles
  <1>5. /\ file \in {NoFile, File(ColumnOf(run[w].job[2]), run[w].url)}
        /\ ColumnOf(run[w].job[2]) \in Image => file \in {NoFile} \cup files'
    BY <1>2, <1>4
  <1>6. files \subseteq files' /\ files' \subseteq ImageFiles
    BY <1>4
  <1> QED BY <1>1, <1>3, <1>5, <1>6, LoadKeeps

\* The request to the web archive: a page that it turns away is excused.
LEMMA LoadArchiveKeeps ==
  ASSUME MediaInv, NEW w \in Worker, LoadArchive(w)
  PROVE  MediaInv'
  <1>0. /\ RunsOK /\ files \subseteq ImageFiles
        /\ excused \subseteq Bookmark \X Column /\ faults \in 0..MaxFaults
    BY DEF MediaInv, Types, TablesOK
  <1>1. /\ run[w].at = "loading" /\ ColumnOf(run[w].job[2]) = "archive"
        /\ UNCHANGED <<row, enabled, files, queued, request, asked, missed, faults>>
    BY DEF LoadArchive, Loading
  <1>2. IsRun(run[w]) /\ run[w].job[1] \in Bookmark
    BY <1>0, <1>1, BusyRun
  <1>3. CASE Loads(w, File("archive", run[w].url)) /\ UNCHANGED excused
    <2>1. run' = [run EXCEPT ![w] = WithResult(run[w], File("archive", run[w].url))]
      BY <1>0, <1>3 DEF Loads, WithResult, RunsOK
    <2>2. ColumnOf(run[w].job[2]) \notin Image
      BY <1>1 DEF Image
    <2>3. files \subseteq files' /\ files' \subseteq ImageFiles
      BY <1>0, <1>1
    <2>4. File("archive", run[w].url) \in {NoFile, File(ColumnOf(run[w].job[2]), run[w].url)}
      BY <1>1
    <2>5. UNCHANGED <<row, enabled, queued, request, asked, excused, missed, faults>>
      BY <1>1, <1>3
    <2> QED BY <1>1, <2>1, <2>2, <2>3, <2>4, <2>5, LoadKeeps
  <1>4. CASE Ends(w) /\ excused' = excused \cup {<<run[w].job[1], "archive">>}
    <2>1. run' = [run EXCEPT ![w] = Idle]
      BY <1>4 DEF Ends
    <2>2. excused \subseteq excused' /\ excused' \subseteq Bookmark \X Column
      BY <1>0, <1>2, <1>4 DEF Column
    <2>3. \A b \in Bookmark, c \in Column :
            row[b] \notin {Unborn, Gone} /\ ~Shows(row[b], c) /\ Mends(run[w], row[b], b, c) =>
              Waits(queued', b, c) \/ <<b, c>> \in excused'
      BY <1>1, <1>4 DEF Mends
    <2>4. run[w].at # "idle" /\ faults' \in 0..MaxFaults /\ UNCHANGED queued
          /\ UNCHANGED <<row, enabled, files, request, asked, missed>>
      BY <1>0, <1>1
    <2> QED BY <2>1, <2>2, <2>3, <2>4, LeavesKeep
  <1> QED BY <1>3, <1>4 DEF LoadArchive

\* What becomes of the job of a worker that fails or loses its lease.
LEMMA RetriedHandsOn ==
  ASSUME TablesOK, NEW w \in Worker, run[w].job \in Job, Retried(w)
  PROVE  /\ excused \subseteq excused' /\ excused' \subseteq Bookmark \X Column
         /\ UNCHANGED queued \/ queued' = [queued EXCEPT ![run[w].job] = @ + 1]
         /\ \A b \in Bookmark, c \in Column :
              Mends(run[w], row[b], b, c) => Waits(queued', b, c) \/ <<b, c>> \in excused'
  <1>0. ColumnOf(run[w].job[2]) \in Column /\ run[w].job[1] \in Bookmark
    BY DEF Job, JobKind, ColumnOf, Column
  <1>1. CASE queued' = [queued EXCEPT ![run[w].job] = @ + 1] /\ UNCHANGED excused
    <2>1. queued'[run[w].job] > 0
      BY <1>1 DEF TablesOK
    <2>2. ASSUME NEW b \in Bookmark, NEW c \in Column, Mends(run[w], row[b], b, c)
          PROVE  Waits(queued', b, c)
      BY <2>1, <2>2, HandedOn
    <2>3. excused \subseteq excused' /\ excused' \subseteq Bookmark \X Column
      BY <1>1 DEF TablesOK
    <2> QED BY <1>1, <2>2, <2>3
  <1>2. CASE /\ excused' = excused \cup {<<run[w].job[1], ColumnOf(run[w].job[2])>>}
             /\ UNCHANGED queued
    <2>1. \A b \in Bookmark, c \in Column : Mends(run[w], row[b], b, c) => <<b, c>> \in excused'
      BY <1>2 DEF Mends
    <2> QED BY <1>0, <1>2, <2>1 DEF TablesOK
  <1> QED BY <1>1, <1>2 DEF Retried

\* A failure, a lost lease, and the end of a handler that notices it.
LEMMA FaultsKeep ==
  ASSUME MediaInv, NEW w \in Worker, Fail(w) \/ LoseLease(w) \/ Cancel(w)
  PROVE  MediaInv'
  <1>0. /\ RunsOK /\ TablesOK /\ excused \subseteq Bookmark \X Column /\ faults \in 0..MaxFaults
        /\ MaxFaults \in Nat
    BY MediaAssumption DEF MediaInv, Types, TablesOK
  <1>1. run[w].at # "idle" /\ UNCHANGED <<row, enabled, files, request, asked, missed>>
    BY DEF Fail, LoseLease, Loses, Cancel, Busy
  <1>2. IsRun(run[w]) /\ run[w].job \in Job
    BY <1>0, <1>1, BusyRun
  <1>3. faults' \in 0..MaxFaults
    BY <1>0 DEF Fail, LoseLease, Loses, Cancel
  <1>4. CASE Fail(w) /\ run[w].held
    <2>1. run' = [run EXCEPT ![w] = Idle] /\ Retried(w)
      BY <1>4 DEF Fail, Ends
    <2>2. /\ excused \subseteq excused' /\ excused' \subseteq Bookmark \X Column
          /\ UNCHANGED queued \/ queued' = [queued EXCEPT ![run[w].job] = @ + 1]
          /\ \A b \in Bookmark, c \in Column :
               Mends(run[w], row[b], b, c) => Waits(queued', b, c) \/ <<b, c>> \in excused'
      BY <1>0, <1>2, <2>1, RetriedHandsOn
    <2> QED BY <1>1, <1>3, <1>4, <2>1, <2>2, LeavesKeep
  <1>5. CASE LoseLease(w)
    <2>1. run[w].held /\ Retried(w) /\ run' = [run EXCEPT ![w] = Orphan(run[w])]
      BY <1>5 DEF LoseLease, Loses, Orphan
    <2>2. /\ excused \subseteq excused' /\ excused' \subseteq Bookmark \X Column
          /\ UNCHANGED queued \/ queued' = [queued EXCEPT ![run[w].job] = @ + 1]
          /\ \A b \in Bookmark, c \in Column :
               Mends(run[w], row[b], b, c) => Waits(queued', b, c) \/ <<b, c>> \in excused'
      BY <1>0, <1>2, <2>1, RetriedHandsOn
    <2>3. PICK y : y = Orphan(run[w])
      OBVIOUS
    <2>4. IsRun(y) /\ ~y.held /\ y.at = run[w].at /\ y.job = run[w].job /\ y.result = run[w].result
      BY <1>2, <2>3, OrphanRun
    <2> QED BY <1>1, <1>3, <2>1, <2>2, <2>3, <2>4, LeavesKeep
  <1>6. CASE (Fail(w) \/ Cancel(w)) /\ ~run[w].held
    <2>1. run' = [run EXCEPT ![w] = Idle] /\ UNCHANGED <<queued, excused>>
      BY <1>6 DEF Fail, Cancel, Ends
    <2>2. \A b, c : ~Mends(run[w], row[b], b, c)
      BY <1>6 DEF Mends
    <2> QED BY <1>0, <1>1, <1>3, <2>1, <2>2, LeavesKeep
  <1> QED BY <1>4, <1>5, <1>6 DEF Cancel

\* updateFile: the column is of the URL that the row still has, or it was right.
LEMMA SaveKeeps ==
  ASSUME MediaInv, NEW w \in Worker, Save(w)
  PROVE  MediaInv'
  <1>0. Types /\ RowsOK /\ RunsOK /\ LocalsOK /\ TablesOK /\ Bound /\ JobsAsked /\ PagesInv /\ FilesInv /\ ImagesAsked
    BY DEF MediaInv, Types
  <1> DEFINE b == run[w].job[1]
             c == ColumnOf(run[w].job[2])
             file == run[w].result
             written == /\ row[b] \notin {Unborn, Gone} /\ row[b].url = run[w].url
                        /\ c = "archive" \/ file # run[w].current
  <1>1. run[w].at = "loaded" /\ run[w].at # "idle"
    BY DEF Save, Saves
  <1>2. IsRun(run[w]) /\ run[w].job \in Job /\ b \in Bookmark
    BY <1>0, <1>1, BusyRun
  <1>3. /\ row' = IF written THEN [row EXCEPT ![b][c] = file] ELSE row
        /\ run' = [run EXCEPT ![w] = Idle]
        /\ UNCHANGED <<enabled, files, queued, request, asked, excused, missed, faults>>
    BY <1>2 DEF Save, Saves, Ends, Live
  <1>4. c \in Column /\ file \in {NoFile, File(c, run[w].url)} /\ run[w].url \in URLsOf[b]
    BY <1>1, <1>2 DEF IsRun, Job, JobKind, ColumnOf, Column
  <1>5. CASE ~written
    <2>1. ASSUME NEW a \in Bookmark, NEW d \in Column, row[a] \notin {Unborn, Gone}, ~Shows(row[a], d),
                 Mends(run[w], row[a], a, d)
          PROVE  FALSE
      <3>1. /\ a = b /\ d = c /\ run[w].url = row[b].url
            /\ c = "archive" \/ run[w].current \notin {NoFile, File(c, run[w].url)}
        BY <2>1 DEF Mends
      <3> QED BY <1>4, <1>5, <2>1, <3>1
    <2>2. /\ UNCHANGED <<row, enabled, files, request, asked, missed>> /\ UNCHANGED queued
          /\ excused \subseteq excused' /\ excused' \subseteq Bookmark \X Column /\ faults' \in 0..MaxFaults
      BY <1>0, <1>3, <1>5 DEF TablesOK
    <2>3. \A a \in Bookmark, d \in Column :
            row[a] \notin {Unborn, Gone} /\ ~Shows(row[a], d) /\ Mends(run[w], row[a], a, d) =>
              Waits(queued', a, d) \/ <<a, d>> \in excused'
      BY <2>1
    <2> QED BY <1>1, <1>3, <2>2, <2>3, LeavesKeep
  <1>6. CASE written
    <2>1. IsRow(b, row[b]) /\ row[b].url = run[w].url /\ row[b] \notin {Unborn, Gone}
      BY <1>0, <1>2, <1>6 DEF RowsOK
    <2>2. /\ DOMAIN row' = Bookmark /\ row'[b] = WithColumn(row[b], c, file)
          /\ \A a \in Bookmark \ {b} : row'[a] = row[a]
      BY <1>0, <1>2, <1>3, <1>6 DEF RowsOK, WithColumn
    <2>3. file \in Shown(b, c)
      BY <1>4 DEF Shown
    <2>4. /\ IsRow(b, row'[b]) /\ row'[b].url = row[b].url /\ row'[b][c] = file
          /\ \A d \in Column \ {c} : row'[b][d] = row[b][d]
      BY <1>2, <1>4, <2>1, <2>2, <2>3, SavedRow, SMTT(60)
    <2>5. row'[b] \notin {Unborn, Gone}
      BY <2>4, RowsDiffer DEF IsRow
    <2>6. /\ DOMAIN run' = Worker /\ run'[w] = Idle /\ Idle.at = "idle"
          /\ \A v \in Worker \ {w} : run'[v] = run[v]
      BY <1>0, <1>3 DEF RunsOK, Idle
    <2> HIDE DEF b, c, file, written
    <2>7. RowsOK' /\ RunsOK' /\ LocalsOK' /\ TablesOK'
      BY <1>0, <1>2, <1>3, <2>2, <2>4, <2>6 DEF RowsOK, RunsOK, LocalsOK, TablesOK
    <2>8. Bound'
      <3> SUFFICES ASSUME NEW j \in Job PROVE queued[j] + Cardinality(HeldIn(run', j)) <= Copies
        BY <1>3 DEF Bound
      <3>1. /\ Cardinality(HeldIn(run, j)) \in Nat /\ Cardinality(HeldIn(run', j)) \in Nat
            /\ Cardinality(HeldIn(run', j)) = Cardinality(HeldIn(run, j)) + One(run'[w], j) - One(run[w], j)
        BY <2>6, Counting
      <3>2. One(run'[w], j) = 0 /\ One(run[w], j) \in Nat
        BY <2>6 DEF One, HeldOf
      <3>3. queued[j] + Cardinality(HeldIn(run, j)) <= Copies /\ queued[j] \in Nat
        BY <1>0 DEF Bound, TablesOK
      <3> QED BY <3>1, <3>2, <3>3, MediaAssumption
    <2>9. PagesInv'
      <3>1. Shows(row'[b], c)
        BY <1>4, <2>1, <2>4 DEF Shows
      <3>2. ASSUME NEW a \in Bookmark, NEW d \in Column, row'[a] \notin {Unborn, Gone}, ~Shows(row'[a], d),
                   <<a, d>> \notin excused
            PROVE  Waits(queued, a, d) \/ \E v \in Worker : Mends(run'[v], row'[a], a, d)
        <4>1. a # b \/ d # c
          BY <3>1, <3>2
        <4>2. row'[a].url = row[a].url /\ row'[a][d] = row[a][d] /\ row[a] \notin {Unborn, Gone}
          BY <2>1, <2>2, <2>4, <3>2, <4>1
        <4>3. ~Shows(row[a], d)
          BY <3>2, <4>2 DEF Shows
        <4>4. Waits(queued, a, d) \/ \E v \in Worker : Mends(run[v], row[a], a, d)
          BY <1>0, <3>2, <4>2, <4>3 DEF PagesInv
        <4>5. ~Mends(run[w], row[a], a, d)
          BY <4>1 DEF Mends, b, c
        <4>6. \A v \in Worker : Mends(run[v], row[a], a, d) => Mends(run[v], row'[a], a, d)
          BY <4>2 DEF Mends
        <4> QED BY <2>6, <4>4, <4>5, <4>6
      <3> QED BY <1>3, <3>2 DEF PagesInv
    <2>10. FilesInv'
      <3>1. Doomed'
        BY <1>0, <1>3, <2>1, <2>2 DEF FilesInv, Doomed
      <3>2. ASSUME URLsApart PROVE Named' /\ Made' /\ FormsMade'
        <4>1. Named /\ Made /\ FormsMade
          BY <1>0, <3>2 DEF FilesInv
        <4>2. c \in Image => file \in {NoFile} \cup files
          BY <1>1, <2>1, <4>1 DEF Made, b, c, file
        <4>3. Named'
          <5> SUFFICES ASSUME NEW a \in Bookmark, NEW d \in Image, row'[a] \notin {Unborn, Gone}
                       PROVE  row'[a][d] \in {NoFile} \cup files
            BY <1>3 DEF Named
          <5>1. d \in Column
            BY DEF Column
          <5>2. CASE a = b /\ d = c
            BY <2>4, <4>2, <5>2
          <5>3. CASE ~(a = b /\ d = c)
            <6>1. row'[a][d] = row[a][d] /\ row[a] \notin {Unborn, Gone}
              BY <2>1, <2>2, <2>4, <5>1, <5>3
            <6> QED BY <4>1, <6>1 DEF Named
          <5> QED BY <5>2, <5>3
        <4>4. ASSUME NEW v \in Worker, run'[v].at = "loaded", row'[run'[v].job[1]] # Gone
              PROVE  run'[v] = run[v] /\ row[run[v].job[1]] # Gone
          <5>1. v # w /\ run'[v] = run[v]
            BY <2>6, <4>4
          <5>2. run[v].job[1] \in Bookmark
            BY <1>0, <4>4, <5>1, BusyRun
          <5> QED BY <2>1, <2>2, <4>4, <5>1, <5>2
        <4>5. Made'
          BY <1>3, <4>1, <4>4 DEF Made
        <4>6. FormsMade'
          <5> SUFFICES ASSUME NEW q \in Actor, request[q].at = "form", row'[request[q].b] # Gone
                       PROVE  \A d \in Image : request[q].shown[d] \in {NoFile} \cup files
            BY <1>3 DEF FormsMade
          <5>1. request[q].b \in Bookmark
            BY <1>0 DEF LocalsOK, IsLocal
          <5>2. row[request[q].b] # Gone
            BY <2>1, <2>2, <5>1
          <5> QED BY <4>1, <5>2 DEF FormsMade
        <4> QED BY <4>3, <4>5, <4>6
      <3> QED BY <3>1, <3>2 DEF FilesInv
    <2>11. JobsAsked'
      BY <1>0, <1>3, <2>6 DEF JobsAsked
    <2>a. c \in Image => <<b, c>> \in asked
      <3>1. PICK a \in Bookmark, k \in JobKind : run[w].job = <<a, k>>
        BY <1>2 DEF Job
      <3>2. a = b /\ ColumnOf(k) = c
        BY <3>1 DEF b, c
      <3>3. c \in Image => k = c
        BY <3>2 DEF ColumnOf, Image
      <3> QED BY <1>0, <1>1, <3>1, <3>2, <3>3 DEF JobsAsked
    <2>12. ImagesAsked'
      <3> SUFFICES ASSUME NEW a \in Bookmark, NEW d \in enabled \cap Image, row'[a] \notin {Unborn, Gone},
                          <<a, d>> \notin asked \cup missed, row'[a][d] = NoFile
                   PROVE  \E q \in Actor : Covers(request[q], a, d)
        BY <1>3 DEF ImagesAsked
      <3>2. a # b \/ d # c
        BY <2>a
      <3>3. d \in Column
        BY DEF Column
      <3>4. row[a] \notin {Unborn, Gone} /\ row[a][d] = NoFile
        BY <2>1, <2>2, <2>4, <3>2, <3>3
      <3> QED BY <1>0, <3>4 DEF ImagesAsked
    <2>13. FilesAsked'
      <3>1. ASSUME NEW a \in Bookmark, NEW d \in Image, row'[a] \notin {Unborn, Gone}, row'[a][d] # NoFile
            PROVE  <<a, d>> \in asked
        <4>1. d \in Column
          BY DEF Column
        <4>2. CASE a = b /\ d = c
          BY <2>a, <4>2
        <4>3. CASE a # b \/ d # c
          <5>1. row[a] \notin {Unborn, Gone} /\ row[a][d] # NoFile
            BY <2>1, <2>2, <2>4, <3>1, <4>1, <4>3
          <5> QED BY <5>1 DEF MediaInv, FilesAsked
        <4> QED BY <4>2, <4>3
      <3> QED BY <1>3, <3>1 DEF MediaInv, FilesAsked
    <2> QED BY <2>7, <2>8, <2>9, <2>10, <2>11, <2>12, <2>13 DEF MediaInv, Types
  <1> QED BY <1>5, <1>6

\* Every step keeps the invariant.
LEMMA MediaNext == MediaInv /\ [Next]_vars => MediaInv'
  <1> SUFFICES ASSUME MediaInv, [Next]_vars PROVE MediaInv'
    OBVIOUS
  <1>1. CASE UNCHANGED vars
    <2>1. Types'
      BY <1>1 DEF MediaInv, Types, RowsOK, RunsOK, LocalsOK, TablesOK, Bound, vars
    <2>2. PagesInv' /\ FilesInv'
      BY <1>1 DEF MediaInv, PagesInv, FilesInv, Doomed, Named, Made, FormsMade, vars
    <2>3. JobsAsked' /\ ImagesAsked' /\ FilesAsked'
      BY <1>1 DEF MediaInv, JobsAsked, ImagesAsked, FilesAsked, vars
    <2> QED BY <2>1, <2>2, <2>3 DEF MediaInv
  <1>2. ASSUME NEW w \in Worker,
               \/ Begin(w) \/ LoadFavicon(w) \/ LoadPreview(w) \/ LoadArchive(w)
               \/ Save(w) \/ Fail(w) \/ LoseLease(w) \/ Cancel(w)
        PROVE  MediaInv'
    BY <1>2, BeginKeeps, LoadImageKeeps, LoadArchiveKeeps, SaveKeeps, FaultsKeep
  <1>3. ASSUME NEW b \in Bookmark, Create(b) \/ Edit(b) \/ Refresh(b) \/ AdminCreate(b)
        PROVE  MediaInv'
    BY <1>3, CreateKeeps, EditKeeps, RefreshKeeps, AdminCreateKeeps
  <1>4. ASSUME NEW r \in Actor,
               \/ \E b \in Bookmark : Delete(r, b) \/ ImportOne(r, b) \/ ImportAgain(r, b)
               \/ RemoveFile(r) \/ ReadProfile(r) \/ UpdateProfile(r) \/ RefreshFavicons(r)
               \/ StartImport(r) \/ ScheduleImport(r) \/ SaveForm(r)
               \/ SelectMissing(r) \/ QueueOne(r) \/ QueuedAll(r) \/ CutShort(r)
        PROVE  MediaInv'
    BY <1>4, DeleteKeeps, ImportOneKeeps, ImportAgainKeeps, RemoveKeeps, BeginsKeep, UpdateKeeps,
       AdvanceKeeps, SelectKeeps, SaveFormKeeps, QueueOneKeeps, CutKeeps
  <1>5. ASSUME NEW r \in Actor, NEW b \in Bookmark, ReadForm(r, b)
        PROVE  MediaInv'
    BY <1>5, ReadFormKeeps
  <1>6. CASE AdminProfile
    BY <1>6, AdminProfileKeeps
  <1> QED BY <1>1, <1>2, <1>3, <1>4, <1>5, <1>6 DEF Next, Actor

\* The invariant holds throughout.
LEMMA MediaAlways == Spec => []MediaInv
  BY InitMedia, MediaNext, PTL DEF Spec

\* Every variable has its type, and no two runs of a job queue it again.
THEOREM TypesHold == Spec => []TypeOK
  <1>1. MediaInv => TypeOK
    <2> SUFFICES ASSUME MediaInv PROVE TypeOK
      OBVIOUS
    <2>0. Types /\ RowsOK /\ TablesOK /\ Bound
      BY DEF MediaInv, Types
    <2>1. ASSUME NEW b \in Live
          PROVE  /\ row[b].url \in URLsOf[b]
                 /\ \A c \in Column : row[b][c] \in {NoFile} \cup {File(c, url) : url \in URLsOf[b]}
      BY <2>0 DEF RowsOK, Live, IsRow, Shown
    <2>2. ASSUME NEW j \in Bookmark \X JobKind PROVE queued[j] + Cardinality(Held(j)) \in 0..Copies
      <3>1. Held(j) = HeldIn(run, j)
        BY DEF Held, HeldIn, HeldOf, Busy
      <3>2. HeldIn(run, j) \subseteq Worker
        BY DEF HeldIn
      <3>3. IsFiniteSet(HeldIn(run, j))
        BY <3>2, FS_Subset, MediaAssumption
      <3>4. Cardinality(HeldIn(run, j)) \in Nat
        BY <3>3, FS_CardinalityType
      <3>5. queued[j] \in Nat /\ queued[j] + Cardinality(HeldIn(run, j)) <= Copies
        BY <2>0 DEF TablesOK, Bound, Job
      <3> QED BY <3>1, <3>4, <3>5, MediaAssumption
    <2> QED BY <2>0, <2>1, <2>2 DEF TypeOK, TablesOK, ImageFiles
  <1> QED BY <1>1, MediaAlways, PTL

\* Once no job for a column is left, it is of the URL that the bookmark has:
\* neither an edit while a job is at work nor a second run of the job leaves the
\* image or link of another page.  Only a job that was given up, an integration
\* that was off at the edit, an import, and an administrator's form do.
THEOREM PagesShown == Spec => []ShowsItsPage
  <1>1. MediaInv => ShowsItsPage
    <2> SUFFICES ASSUME MediaInv, NEW b \in Live, NEW c \in Column, ~Shows(row[b], c), <<b, c>> \notin excused
                 PROVE  Expected(b, c)
      BY DEF ShowsItsPage, Shows
    <2>1. Waits(queued, b, c) \/ \E w \in Worker : Mends(run[w], row[b], b, c)
      BY DEF MediaInv, PagesInv, Live
    <2>2. CASE Waits(queued, b, c)
      BY <2>2 DEF Waits, Expected
    <2>3. CASE \E w \in Worker : Mends(run[w], row[b], b, c)
      BY <2>3 DEF Mends, Expected, Busy
    <2> QED BY <2>1, <2>2, <2>3
  <1> QED BY <1>1, MediaAlways, PTL

\* When no two bookmarks share a URL, deleting one takes no image from another,
\* whether its column names the file already or a job is about to write it.
THEOREM NamedFilesThere ==
  ASSUME URLsApart
  PROVE  Spec => []NamedFilesExist
  <1>1. MediaInv => NamedFilesExist
    BY DEF MediaInv, FilesInv, Named, NamedFilesExist, Live
  <1> QED BY <1>1, MediaAlways, PTL

\* An image that the profile enables reaches every bookmark: each had a job for
\* it or is to get one, but for those of a request that was cut short or that
\* wrote its profile over another's, and those that an administrator's form
\* creates or enables the image for.
THEOREM EnabledReachesAll == Spec => []EnabledMeansAsked
  <1>1. MediaInv => EnabledMeansAsked
    <2>1. \A x, b, c : Covers(x, b, c) => \/ x.at \in {"selecting", "queueing"} /\ c \in x.kinds
                                          \/ x.at = "importing" /\ b \in x.imported
      BY DEF Covers
    <2> SUFFICES ASSUME MediaInv, NEW b \in Live, NEW c \in enabled \cap Image,
                        <<b, c>> \notin asked \cup missed, row[b][c] = NoFile
                 PROVE  \E r \in Actor :
                          \/ request[r].at \in {"selecting", "queueing"} /\ c \in request[r].kinds
                          \/ request[r].at = "importing" /\ b \in request[r].imported
      <3>1. MediaInv => \A b \in Live, c \in Image : row[b][c] # NoFile => <<b, c>> \in asked
        BY DEF MediaInv, FilesAsked, Live
      <3> QED BY <3>1 DEF EnabledMeansAsked
    <2>2. \E r \in Actor : Covers(request[r], b, c)
      BY DEF MediaInv, ImagesAsked, Live
    <2> QED BY <2>1, <2>2
  <1> QED BY <1>1, MediaAlways, PTL
=============================================================================
