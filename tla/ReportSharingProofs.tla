------------------------- MODULE ReportSharingProofs -------------------------
(***************************************************************************)
(* Proofs about ReportSharing, for any uploads, readers and failures, and  *)
(* about ProfileImages, for any pictures and failures.                     *)
(***************************************************************************)
EXTENDS ReportSharing, ProfileImages, FiniteSetTheorems, TLAPS

UploadSteps == {"new", "select", "insert", "unschedule", "unlink", "schedule", "note",
                "discard", "answered", "failed"}
DeletionSteps == {"none", "waiting", "check", "destroy", "erase", "count", "over"}

\* The part of the type invariant that the proofs need; how high a
\* downloadCount may get is not one.
AnyRow == [upload: Uploads \cup {Nothing}, deleteJob: Uploads \cup {Nothing},
           downloadCount: Int]

Shapes ==
  /\ row \in AnyRow
  /\ files \subseteq Uploads
  /\ upload \in [Uploads -> UploadSteps]
  /\ replaced \in [Uploads -> AnyRow]
  /\ deletion \in [Deleters -> DeletionSteps]
  /\ target \in [Deleters -> Uploads \cup {Nothing}]
  /\ read \in [Readers -> Int]
  /\ expired \subseteq Uploads

\* What a request has before its transaction, nobody else knows of.
Unseen(u) ==
  /\ row.upload # u
  /\ \A v \in Uploads : replaced[v].upload # u
  /\ u \notin expired

BeforeCommit == \A u \in Uploads :
  upload[u] \in {"new", "select", "insert"} =>
    /\ Unseen(u)
    /\ latest # u
    /\ upload[u] # "new" => u \in files

\* Only uploads whose requests have ended expire, and only expired uploads are
\* deleted by readers and jobs; jobs count no downloads.
OnlyExpired ==
  /\ \A u \in expired : upload[u] \in Ended
  /\ \A u \in Uploads : target[u] = u
  /\ \A d \in Deleters : deletion[d] \in {"check", "destroy", "erase"} =>
       target[d] \in expired
  /\ \A d \in Uploads : deletion[d] # "count"

\* Until it expires the row and the file are those of the last commit, unless
\* its request has failed after it.
LastCommit ==
  /\ \A v \in Uploads : replaced[v].upload = latest => latest = Nothing
  /\ \A u \in Uploads :
       latest = u /\ u \notin expired =>
         /\ row.upload = u
         /\ upload[u] \notin {"discard", "failed"} => u \in files

SharingInv == Shapes /\ BeforeCommit /\ OnlyExpired /\ LastCommit

-----------------------------------------------------------------------------

LEMMA InitSharingInv == SharingInit => SharingInv
  BY SharingAssumption DEF SharingInit, SharingInv, Shapes, AnyRow, NoRow, UploadSteps,
     DeletionSteps, Deleters, BeforeCommit, Unseen, OnlyExpired, LastCommit, Ended

LEMMA UploadInv ==
  ASSUME SharingInv, NEW u \in Uploads, UploadStep(u) \/ Die(u) \/ ExpireLink(u)
  PROVE  SharingInv'
  <1> USE SharingAssumption DEF SharingInv
  <1>1. CASE StoreFile(u)
    BY <1>1 DEF StoreFile, UploadAt, Shapes, UploadSteps, BeforeCommit, Unseen,
       OnlyExpired, LastCommit, Ended
  <1>2. CASE UpsertRow(u)
    <2>1. CASE /\ row # NoRow
               /\ row' = [row EXCEPT !.upload = u]
               /\ replaced' = [replaced EXCEPT ![u] = row]
               /\ latest' = u
               /\ UploadAt(u, "unschedule")
      <3>1. row' \in AnyRow /\ row'.upload = u
        BY <2>1 DEF Shapes, AnyRow
      <3>2. UNCHANGED <<files, deletion, target, read, expired>>
        BY <1>2 DEF UpsertRow
      <3>3. /\ upload[u] = "select"
            /\ upload' = [upload EXCEPT ![u] = "unschedule"]
        BY <1>2, <2>1 DEF UpsertRow, UploadAt
      <3>4. Shapes'
        BY <2>1, <3>1, <3>2, <3>3 DEF Shapes, UploadSteps
      <3>5. BeforeCommit'
        BY <2>1, <3>1, <3>2, <3>3 DEF BeforeCommit, Unseen, Shapes
      <3>6. OnlyExpired'
        BY <3>2, <3>3 DEF OnlyExpired, Ended, Shapes
      <3>7. LastCommit'
        BY <2>1, <3>1, <3>2, <3>3 DEF LastCommit, BeforeCommit, Unseen, Shapes
      <3> QED
        BY <3>4, <3>5, <3>6, <3>7
    <2>2. CASE /\ UNCHANGED <<row, replaced, latest>>
               /\ UploadAt(u, "insert") \/ UploadAt(u, "discard")
      BY <1>2, <2>2 DEF UpsertRow, UploadAt, Shapes, UploadSteps, BeforeCommit, Unseen,
         OnlyExpired, LastCommit, Ended
    <2> QED
      BY <1>2, <2>1, <2>2 DEF UpsertRow
  <1>3. CASE InsertRow(u)
    <2>1. CASE row = NoRow /\ row' = [NoRow EXCEPT !.upload = u] /\ latest' = u
               /\ UploadAt(u, "unschedule")
      <3>1. row' \in AnyRow /\ row'.upload = u
        BY <2>1 DEF NoRow, AnyRow
      <3>2. UNCHANGED <<files, replaced, deletion, target, read, expired>>
        BY <1>3 DEF InsertRow
      <3>3. /\ upload[u] = "insert"
            /\ upload' = [upload EXCEPT ![u] = "unschedule"]
        BY <1>3, <2>1 DEF InsertRow, UploadAt
      <3>4. Shapes'
        BY <3>1, <3>2, <3>3 DEF Shapes, UploadSteps
      <3>5. BeforeCommit'
        BY <3>1, <3>2, <3>3, <2>1 DEF BeforeCommit, Unseen, Shapes
      <3>6. OnlyExpired'
        BY <3>2, <3>3 DEF OnlyExpired, Ended, Shapes
      <3>7. LastCommit'
        BY <3>1, <3>2, <3>3, <2>1 DEF LastCommit, BeforeCommit, Unseen, Shapes
      <3> QED
        BY <3>4, <3>5, <3>6, <3>7
    <2>2. CASE UNCHANGED <<row, latest>> /\ UploadAt(u, "discard")
      BY <1>3, <2>2 DEF InsertRow, UploadAt, Shapes, UploadSteps, BeforeCommit, Unseen,
         OnlyExpired, LastCommit, Ended
    <2> QED
      BY <1>3, <2>1, <2>2 DEF InsertRow
  <1>4. CASE Unschedule(u)
    BY <1>4 DEF Unschedule, UploadAt, Shapes, AnyRow, UploadSteps, DeletionSteps, Deleters,
       BeforeCommit, Unseen, OnlyExpired, LastCommit, Ended
  <1>5. CASE Unlink(u)
    BY <1>5 DEF Unlink, UploadAt, Shapes, UploadSteps, BeforeCommit, Unseen,
       OnlyExpired, LastCommit, Ended
  <1>6. CASE Schedule(u)
    BY <1>6 DEF Schedule, UploadAt, DeletionAt, Shapes, UploadSteps, DeletionSteps, Deleters,
       BeforeCommit, Unseen, OnlyExpired, LastCommit, Ended
  <1>7. CASE NoteJob(u)
    <2>1. row' \in AnyRow /\ row'.upload = row.upload
      BY <1>7 DEF NoteJob, Shapes, AnyRow
    <2>2. replaced' = [replaced EXCEPT ![u] = NoRow]
          /\ NoRow \in AnyRow /\ NoRow.upload = Nothing
      BY <1>7 DEF NoteJob, NoRow, AnyRow
    <2>3. PICK step \in {"answered", "discard"} :
            upload[u] = "note" /\ upload' = [upload EXCEPT ![u] = step]
      BY <1>7 DEF NoteJob, UploadAt
    <2>4. UNCHANGED <<files, deletion, target, read, expired, latest>>
      BY <1>7 DEF NoteJob
    <2>5. Shapes'
      BY <2>1, <2>2, <2>3, <2>4 DEF Shapes, UploadSteps
    <2>6. BeforeCommit'
      BY <2>1, <2>2, <2>3, <2>4 DEF BeforeCommit, Unseen, Shapes
    <2>7. OnlyExpired'
      BY <2>3, <2>4 DEF OnlyExpired, Ended, Shapes
    <2>8. LastCommit'
      BY <2>1, <2>2, <2>3, <2>4 DEF LastCommit, Shapes
    <2> QED
      BY <2>5, <2>6, <2>7, <2>8
  <1>8. CASE Discard(u)
    BY <1>8 DEF Discard, UploadAt, Shapes, AnyRow, NoRow, UploadSteps, BeforeCommit, Unseen,
       OnlyExpired, LastCommit, Ended
  <1>9. CASE Die(u)
    BY <1>9 DEF Die, UploadAt, Shapes, AnyRow, NoRow, UploadSteps, BeforeCommit, Unseen,
       OnlyExpired, LastCommit, Ended
  <1>10. CASE ExpireLink(u)
    BY <1>10 DEF ExpireLink, Shapes, BeforeCommit, Unseen, OnlyExpired, LastCommit, Ended
  <1> QED
    BY <1>1, <1>2, <1>3, <1>4, <1>5, <1>6, <1>7, <1>8, <1>9, <1>10 DEF UploadStep

LEMMA DeletionInv ==
  ASSUME SharingInv, NEW d \in Deleters, Follow(d) \/ DeleteStep(d)
  PROVE  SharingInv'
  <1> USE SharingAssumption DEF SharingInv
  <1>1. CASE Follow(d)
    BY <1>1 DEF Follow, DeletionAt, Shapes, AnyRow, NoRow, DeletionSteps, Deleters,
       BeforeCommit, Unseen, OnlyExpired, LastCommit
  <1>2. CASE RunJob(d)
    BY <1>2 DEF RunJob, DeletionAt, Shapes, DeletionSteps, Deleters, BeforeCommit, Unseen,
       OnlyExpired, LastCommit
  <1>3. CASE CheckRow(d)
    BY <1>3 DEF CheckRow, DeletionThrows, DeletionAt, Shapes, DeletionSteps, Deleters,
       BeforeCommit, Unseen, OnlyExpired, LastCommit
  <1>4. CASE Destroy(d)
    BY <1>4 DEF Destroy, DeletionThrows, DeletionAt, Shapes, DeletionSteps, Deleters,
       BeforeCommit, Unseen, OnlyExpired, LastCommit
  <1>5. CASE EraseRow(d)
    <2>1. /\ deletion[d] = "erase"
          /\ target[d] \in expired
          /\ UNCHANGED <<files, upload, replaced, target, read, expired, latest>>
      BY <1>5 DEF EraseRow, OnlyExpired
    <2>2. NoRow \in AnyRow /\ NoRow.upload = Nothing
      BY DEF NoRow, AnyRow
    <2>3. row' = row \/ (row' = NoRow /\ row.upload = target[d])
      BY <1>5 DEF EraseRow, Erased
    <2>4. PICK step \in {"over", "waiting"} :
            deletion' = [deletion EXCEPT ![d] = step]
      BY <1>5 DEF EraseRow, DeletionThrows, DeletionAt
    <2>5. Shapes'
      BY <2>1, <2>2, <2>3, <2>4 DEF Shapes, DeletionSteps
    <2>6. BeforeCommit'
      BY <2>1, <2>2, <2>3 DEF BeforeCommit, Unseen
    <2>7. OnlyExpired'
      BY <2>1, <2>4 DEF OnlyExpired, Shapes
    <2>8. LastCommit'
      BY <2>1, <2>2, <2>3 DEF LastCommit
    <2> QED
      BY <2>5, <2>6, <2>7, <2>8
  <1>6. CASE CountDownload(d)
    <2>1. d \in Readers
      BY <1>6 DEF CountDownload, OnlyExpired, Deleters
    <2>2. row' \in AnyRow /\ row'.upload = row.upload
      BY <1>6, <2>1 DEF CountDownload, Shapes, AnyRow
    <2> QED
      BY <1>6, <2>1, <2>2 DEF CountDownload, DeletionAt, Shapes, DeletionSteps, Deleters,
         BeforeCommit, Unseen, OnlyExpired, LastCommit
  <1> QED
    BY <1>1, <1>2, <1>3, <1>4, <1>5, <1>6 DEF DeleteStep

LEMMA StepSharingInv == SharingInv /\ [SharingNext]_sharingVars => SharingInv'
  <1> SUFFICES ASSUME SharingInv, [SharingNext]_sharingVars
               PROVE  SharingInv'
    OBVIOUS
  <1>1. CASE UNCHANGED sharingVars
    BY <1>1 DEF sharingVars, SharingInv, Shapes, BeforeCommit, Unseen, OnlyExpired, LastCommit
  <1> QED
    BY <1>1, UploadInv, DeletionInv DEF SharingNext, Deleters

\* generateShareableLink: a link that was handed out leads to its file until
\* it expires or is replaced, however uploads, readers and delete jobs meet
\* and whichever of their calls fail.
THEOREM LinkHolds == SharingSpec => []LinkLeadsToFile
  <1>1. SharingInv => LinkLeadsToFile
    BY SharingAssumption DEF SharingInv, LastCommit, LinkLeadsToFile
  <1> QED
    BY <1>1, InitSharingInv, StepSharingInv, PTL DEF SharingSpec

-----------------------------------------------------------------------------
(* What the file service stores *)

\* A delete job that a row has noted belongs to a request that has ended, and
\* one that was found in a replaced row is not that of the row's upload.
JobsNoted ==
  /\ row.deleteJob # Nothing => upload[row.deleteJob] = "answered"
  /\ \A v \in Uploads : replaced[v].deleteJob # Nothing =>
       /\ upload[replaced[v].deleteJob] = "answered"
       /\ replaced[v].deleteJob # row.upload

\* Nobody is about to unlink the upload of the row.
RowNotReplaced ==
  \A v \in Uploads : replaced[v].upload # Nothing => replaced[v].upload # row.upload

\* Somebody will delete this file: its own request, a reader or a job that
\* goes by the row, or the request that has replaced it.
Unlinks(v, u) == upload[v] \in {"unschedule", "unlink"} /\ replaced[v].upload = u
Erases(d, u) == deletion[d] = "erase" /\ target[d] = u

FilesKept ==
  /\ \A u \in files : \/ upload[u] \in {"select", "insert", "discard"}
                      \/ row.upload = u
                      \/ \E v \in Uploads : Unlinks(v, u)
  /\ \A u \in files, d \in Deleters : ~Erases(d, u)
  /\ row.upload # Nothing =>
       row.upload \in files \/ \E d \in Deleters : Erases(d, row.upload)

\* The request of the row's upload has committed and has not failed, and once
\* it has scheduled its delete job the job is there.
RowScheduled ==
  /\ \A u \in Uploads : upload[u] = "discard" => Unseen(u)
  /\ \A u \in Uploads : row.upload = u =>
       /\ upload[u] \in {"unschedule", "unlink", "schedule", "note", "answered"}
       /\ upload[u] \in {"note", "answered"} =>
            deletion[u] \in {"waiting", "check", "destroy", "erase"}

FilesInv ==
  /\ mishaps \in Nat
  /\ JobsNoted /\ RowNotReplaced
  /\ mishaps = 0 => FilesKept /\ RowScheduled

LEMMA InitFilesInv == SharingInit => FilesInv
  BY SharingAssumption DEF SharingInit, FilesInv, JobsNoted, RowNotReplaced,
     FilesKept, RowScheduled, Unseen, Erases, Unlinks, NoRow, Deleters

LEMMA DeletionFilesInv ==
  ASSUME SharingInv, FilesInv, NEW d \in Deleters, Follow(d) \/ DeleteStep(d)
  PROVE  FilesInv'
  <1> USE SharingAssumption DEF FilesInv, SharingInv
  <1>1. CASE Follow(d)
    BY <1>1 DEF Follow, DeletionAt, Shapes, Deleters, OnlyExpired, JobsNoted,
       RowNotReplaced, FilesKept, RowScheduled, Unseen, Erases, Unlinks
  <1>2. CASE RunJob(d)
    BY <1>2 DEF RunJob, DeletionAt, Shapes, Deleters, OnlyExpired, JobsNoted,
       RowNotReplaced, FilesKept, RowScheduled, Unseen, Erases, Unlinks
  <1>3. CASE CheckRow(d)
    BY <1>3 DEF CheckRow, DeletionThrows, Mishap, DeletionAt, Shapes, Deleters,
       OnlyExpired, JobsNoted, RowNotReplaced, FilesKept, RowScheduled, Unseen,
       Erases, Unlinks
  <1>4. CASE Destroy(d)
    BY <1>4 DEF Destroy, DeletionThrows, Mishap, DeletionAt, Shapes, Deleters,
       OnlyExpired, JobsNoted, RowNotReplaced, FilesKept, RowScheduled, Unseen,
       Erases, Unlinks
  <1>5. CASE EraseRow(d)
    BY <1>5 DEF EraseRow, Erased, NoRow, DeletionThrows, Mishap, DeletionAt,
       Shapes, Deleters, OnlyExpired, JobsNoted, RowNotReplaced, FilesKept,
       RowScheduled, Unseen, Erases, Unlinks
  <1>6. CASE CountDownload(d)
    BY <1>6 DEF CountDownload, AnyRow, DeletionAt, Shapes, Deleters,
       OnlyExpired, JobsNoted, RowNotReplaced, FilesKept, RowScheduled, Unseen,
       Erases, Unlinks
  <1> QED
    BY <1>1, <1>2, <1>3, <1>4, <1>5, <1>6 DEF DeleteStep

\* The transaction of an upload replaces the row or creates it.
LEMMA CommitFilesInv ==
  ASSUME SharingInv, FilesInv, NEW u \in Uploads, upload[u] \in {"select", "insert"},
         UNCHANGED <<files, deletion, target, expired, mishaps>>,
         upload' = [upload EXCEPT ![u] = "unschedule"],
         row'.upload = u, row'.deleteJob = row.deleteJob,
         \/ replaced' = replaced /\ row.upload = Nothing
         \/ replaced' = [replaced EXCEPT ![u] = row]
  PROVE  FilesInv'
  <1> USE SharingAssumption DEF FilesInv, SharingInv
  <1>1. Unseen(u) /\ u \in files
    BY DEF BeforeCommit
  <1>2. \A v \in Uploads : replaced'[v] \in {replaced[v], row}
    BY DEF Shapes
  <1>3. \A v \in Uploads : replaced'[v].upload # u
    BY <1>1, <1>2 DEF Unseen
  <1>4. JobsNoted'
    BY <1>2 DEF JobsNoted, Shapes, AnyRow
  <1>5. RowNotReplaced'
    BY <1>3 DEF RowNotReplaced
  <1>6. ASSUME NEW w \in Uploads, row.upload = w
        PROVE  Unlinks(u, w)'
    BY <1>6 DEF Unlinks, Shapes
  <1>7. ASSUME NEW v \in Uploads, NEW w \in Uploads, Unlinks(v, w)
        PROVE  Unlinks(v, w)'
    BY <1>7 DEF Unlinks, Shapes
  <1>8. FilesKept => FilesKept'
    <2> SUFFICES ASSUME FilesKept PROVE FilesKept'
      OBVIOUS
    <2>1. \A d \in Deleters : Erases(d, u) <=> Erases(d, u)'
      BY DEF Erases
    <2>2. ASSUME NEW w \in files
          PROVE  \/ upload'[w] \in {"select", "insert", "discard"}
                 \/ row'.upload = w
                 \/ \E v \in Uploads : Unlinks(v, w)'
      <3>1. w \in Uploads
        BY DEF Shapes
      <3>2. CASE w = u
        BY <3>2
      <3>3. CASE upload[w] \in {"select", "insert", "discard"} /\ w # u
        BY <3>1, <3>3 DEF Shapes
      <3>4. CASE row.upload = w
        BY <1>6, <3>1, <3>4
      <3>5. CASE \E v \in Uploads : Unlinks(v, w)
        BY <1>7, <3>1, <3>5
      <3> QED
        BY <3>2, <3>3, <3>4, <3>5 DEF FilesKept
    <2> QED
      BY <1>1, <2>2 DEF FilesKept, Erases
  <1>9. RowScheduled => RowScheduled'
    BY <1>1, <1>2 DEF RowScheduled, Unseen, Shapes
  <1> QED
    BY <1>4, <1>5, <1>8, <1>9

LEMMA UploadFilesInv ==
  ASSUME SharingInv, FilesInv, NEW u \in Uploads, UploadStep(u) \/ Die(u) \/ ExpireLink(u)
  PROVE  FilesInv'
  <1> USE SharingAssumption DEF FilesInv, SharingInv
  <1>1. CASE StoreFile(u)
    <2>1. upload[u] = "new" /\ UNCHANGED <<row, replaced, deletion, target, expired>>
      BY <1>1 DEF StoreFile
    <2>2. CASE /\ files' = files \cup {u} /\ UNCHANGED mishaps
               /\ upload' = [upload EXCEPT ![u] = "select"]
      <3>1. \A d \in Deleters : ~Erases(d, u)
        BY <2>1 DEF Erases, OnlyExpired, Ended
      <3>2. JobsNoted' /\ RowNotReplaced'
        BY <2>1, <2>2 DEF JobsNoted, RowNotReplaced, Shapes, AnyRow
      <3>3. FilesKept => FilesKept'
        BY <2>1, <2>2, <3>1 DEF FilesKept, Erases, Unlinks, Shapes
      <3>4. RowScheduled => RowScheduled'
        BY <2>1, <2>2 DEF RowScheduled, BeforeCommit, Unseen, Shapes
      <3> QED
        BY <2>2, <3>2, <3>3, <3>4
    <2>3. CASE mishaps' = mishaps + 1 /\ upload' = [upload EXCEPT ![u] = "failed"]
      BY <2>1, <2>3 DEF JobsNoted, RowNotReplaced, Shapes, AnyRow
    <2> QED
      BY <1>1, <2>2, <2>3 DEF StoreFile, UploadAt, Mishap
  <1>2. CASE UpsertRow(u)
    <2>1. upload[u] = "select" /\ UNCHANGED <<files, deletion, target, expired>>
      BY <1>2 DEF UpsertRow
    <2>2. CASE row # NoRow /\ row' = [row EXCEPT !.upload = u]
               /\ replaced' = [replaced EXCEPT ![u] = row]
               /\ upload' = [upload EXCEPT ![u] = "unschedule"] /\ UNCHANGED mishaps
      <3>1. row'.upload = u /\ row'.deleteJob = row.deleteJob
        BY <2>2 DEF Shapes, AnyRow
      <3> QED
        BY <2>1, <2>2, <3>1, CommitFilesInv
    <2>3. CASE UNCHANGED <<row, replaced, mishaps>>
               /\ upload' = [upload EXCEPT ![u] = "insert"]
      BY <2>1, <2>3 DEF JobsNoted, RowNotReplaced, FilesKept, RowScheduled,
         BeforeCommit, Unseen, Erases, Unlinks, Shapes, AnyRow
    <2>4. CASE mishaps' = mishaps + 1 /\ UNCHANGED <<row, replaced>>
               /\ upload' = [upload EXCEPT ![u] = "discard"]
      BY <2>1, <2>4 DEF JobsNoted, RowNotReplaced, Shapes, AnyRow
    <2> QED
      BY <1>2, <2>2, <2>3, <2>4 DEF UpsertRow, UploadAt, Mishap
  <1>3. CASE InsertRow(u)
    <2>1. upload[u] = "insert" /\ UNCHANGED <<files, replaced, deletion, target, expired>>
      BY <1>3 DEF InsertRow
    <2>2. CASE row = NoRow /\ row' = [NoRow EXCEPT !.upload = u]
               /\ upload' = [upload EXCEPT ![u] = "unschedule"] /\ UNCHANGED mishaps
      <3>1. row'.upload = u /\ row'.deleteJob = row.deleteJob /\ row.upload = Nothing
        BY <2>2 DEF NoRow
      <3> QED
        BY <2>1, <2>2, <3>1, CommitFilesInv
    <2>3. CASE UNCHANGED <<row, mishaps>> /\ upload' = [upload EXCEPT ![u] = "discard"]
      BY <2>1, <2>3 DEF JobsNoted, RowNotReplaced, FilesKept, RowScheduled,
         BeforeCommit, Unseen, Erases, Unlinks, Shapes, AnyRow
    <2>4. CASE mishaps' = mishaps + 1 /\ UNCHANGED row
               /\ upload' = [upload EXCEPT ![u] = "discard"]
      BY <2>1, <2>4 DEF JobsNoted, RowNotReplaced, Shapes, AnyRow
    <2> QED
      BY <1>3, <2>2, <2>3, <2>4 DEF InsertRow, UploadAt, Mishap
  <1>4. CASE Unschedule(u)
    BY <1>4 DEF Unschedule, Mishap, UploadAt, Shapes, AnyRow, UploadSteps,
       Deleters, JobsNoted, RowNotReplaced, FilesKept, RowScheduled, Unseen,
       Erases, Unlinks
  <1>5. CASE Unlink(u)
    BY <1>5 DEF Unlink, Mishap, UploadAt, Shapes, AnyRow, UploadSteps, Deleters,
       JobsNoted, RowNotReplaced, FilesKept, RowScheduled, Unseen, Erases,
       Unlinks
  <1>6. CASE Schedule(u)
    <2>1. upload[u] = "schedule" /\ UNCHANGED <<row, files, replaced, target, expired>>
      BY <1>6 DEF Schedule
    <2>2. CASE /\ deletion' = [deletion EXCEPT ![u] = "waiting"] /\ UNCHANGED mishaps
               /\ upload' = [upload EXCEPT ![u] = "note"]
      <3>1. \A e \in Deleters, v \in Uploads : Erases(e, v)' <=> Erases(e, v)
        BY <2>1, <2>2 DEF Erases, OnlyExpired, Ended, Shapes, Deleters
      <3>2. \A v, w \in Uploads : Unlinks(v, w)' <=> Unlinks(v, w)
        BY <2>1, <2>2 DEF Unlinks, Shapes
      <3>3. JobsNoted' /\ RowNotReplaced'
        BY <2>1, <2>2 DEF JobsNoted, RowNotReplaced, Shapes, AnyRow
      <3>4. FilesKept => FilesKept'
        BY <2>1, <2>2, <3>1, <3>2 DEF FilesKept, Shapes, AnyRow
      <3>5. RowScheduled => RowScheduled'
        BY <2>1, <2>2 DEF RowScheduled, Unseen, Shapes, Deleters
      <3> QED
        BY <2>2, <3>3, <3>4, <3>5
    <2>3. CASE mishaps' = mishaps + 1 /\ upload' = [upload EXCEPT ![u] = "discard"]
      BY <2>1, <2>3 DEF JobsNoted, RowNotReplaced, Shapes, AnyRow
    <2> QED
      BY <1>6, <2>2, <2>3 DEF Schedule, UploadAt, DeletionAt, Mishap
  <1>7. CASE NoteJob(u)
    <2>1. /\ upload[u] = "note" /\ UNCHANGED <<files, deletion, target, expired>>
          /\ replaced' = [replaced EXCEPT ![u] = NoRow]
      BY <1>7 DEF NoteJob
    <2>2. NoRow.upload = Nothing /\ NoRow.deleteJob = Nothing
      BY DEF NoRow
    <2>3. CASE /\ row' = IF row.upload = u THEN [row EXCEPT !.deleteJob = u] ELSE row
               /\ upload' = [upload EXCEPT ![u] = "answered"] /\ UNCHANGED mishaps
      <3>1. row'.upload = row.upload /\ row'.deleteJob \in {row.deleteJob, u}
        BY <2>3 DEF Shapes, AnyRow
      <3>2. JobsNoted' /\ RowNotReplaced'
        BY <2>1, <2>2, <2>3, <3>1 DEF JobsNoted, RowNotReplaced, Shapes, AnyRow
      <3>3. FilesKept => FilesKept'
        BY <2>1, <2>3, <3>1 DEF FilesKept, Erases, Unlinks, Shapes
      <3>4. RowScheduled => RowScheduled'
        BY <2>1, <2>2, <2>3, <3>1, SharingAssumption DEF RowScheduled, Unseen,
           Shapes
      <3> QED
        BY <2>3, <3>2, <3>3, <3>4
    <2>4. CASE mishaps' = mishaps + 1 /\ UNCHANGED row
               /\ upload' = [upload EXCEPT ![u] = "discard"]
      BY <2>1, <2>2, <2>4 DEF JobsNoted, RowNotReplaced, Shapes, AnyRow
    <2> QED
      BY <1>7, <2>3, <2>4 DEF NoteJob, UploadAt, Mishap
  <1>8. CASE Discard(u)
    <2>1. /\ upload[u] = "discard" /\ UNCHANGED <<row, deletion, target, expired>>
          /\ upload' = [upload EXCEPT ![u] = "failed"]
          /\ replaced' = [replaced EXCEPT ![u] = NoRow]
      BY <1>8 DEF Discard, UploadAt
    <2>2. NoRow.upload = Nothing /\ NoRow.deleteJob = Nothing
      BY DEF NoRow
    <2>3. JobsNoted' /\ RowNotReplaced'
      BY <2>1, <2>2 DEF JobsNoted, RowNotReplaced, Shapes, AnyRow
    <2>4. CASE files' = files \ {u} /\ UNCHANGED mishaps
      <3>1. FilesKept /\ RowScheduled => FilesKept'
        BY <2>1, <2>2, <2>4 DEF FilesKept, RowScheduled, Erases, Unlinks,
           Unseen, Shapes
      <3>2. RowScheduled => RowScheduled'
        BY <2>1, <2>2, SharingAssumption DEF RowScheduled, Unseen, Shapes
      <3> QED
        BY <2>3, <2>4, <3>1, <3>2
    <2>5. CASE mishaps' = mishaps + 1
      BY <2>3, <2>5
    <2> QED
      BY <1>8, <2>4, <2>5 DEF Discard, Mishap
  <1>9. CASE Die(u)
    BY <1>9 DEF Die, NoRow, Mishap, UploadAt, Shapes, AnyRow, UploadSteps,
       Ended, JobsNoted, RowNotReplaced, FilesKept, RowScheduled, Unseen,
       Erases, Unlinks
  <1>10. CASE ExpireLink(u)
    BY <1>10 DEF ExpireLink, Ended, Mishap, Shapes, AnyRow, UploadSteps,
       JobsNoted, RowNotReplaced, FilesKept, RowScheduled, Unseen, Erases,
       Unlinks
  <1> QED
    BY <1>1, <1>2, <1>3, <1>4, <1>5, <1>6, <1>7, <1>8, <1>9, <1>10 DEF UploadStep

LEMMA StepFilesInv == SharingInv /\ FilesInv /\ [SharingNext]_sharingVars => FilesInv'
  <1> SUFFICES ASSUME SharingInv, FilesInv, [SharingNext]_sharingVars
               PROVE  FilesInv'
    OBVIOUS
  <1>1. CASE UNCHANGED sharingVars
    BY <1>1 DEF sharingVars, FilesInv, JobsNoted, RowNotReplaced, FilesKept,
       RowScheduled, Unseen, Erases, Unlinks
  <1> QED
    BY <1>1, UploadFilesInv, DeletionFilesInv DEF SharingNext, Deleters

\* uploadReportToCloudinary, deleteRemoteReport: as long as nothing fails,
\* whenever no request or job is under way the file service stores the upload
\* of the row and no other, and its delete job waits.
THEOREM FilesAccounted == SharingSpec => []FilesAccountedFor
  <1>1. SharingInv /\ FilesInv => FilesAccountedFor
    BY SharingAssumption DEF SharingInv, Shapes, OnlyExpired, FilesInv,
       FilesKept, RowScheduled, Erases, Unlinks, FilesAccountedFor, AtRest,
       Deleters, Ended
  <1>2. SharingInv /\ FilesInv /\ [SharingNext]_sharingVars => (SharingInv /\ FilesInv)'
    BY StepSharingInv, StepFilesInv
  <1> QED
    BY <1>1, <1>2, InitSharingInv, InitFilesInv, PTL DEF SharingSpec

-----------------------------------------------------------------------------
(* The profile image *)

\* Pictures whose request has committed; those of requests that found no row;
\* and those no later request has found in the row.
Committed == {p \in Pictures : picture[p] \in {"unlink", "saved"}}
Inserted == {p \in Committed : former[p] = NoPicture}
NotFound == {p \in Committed : \A q \in Pictures : former[q] # p}

\* The row shows a committed picture, and the one it showed before is that of
\* another committed request.
RowShows ==
  /\ image # NoPicture => image \in NotFound /\ image \in stored
  /\ image = NoPicture => Committed = {}
  /\ \A p \in Pictures : former[p] # NoPicture =>
       p \in Committed /\ former[p] \in Committed /\ former[p] # image

\* A request that found a picture in the row takes its place among those that
\* nobody has found.
OneForOne ==
  /\ IsFiniteSet(Inserted) /\ IsFiniteSet(NotFound)
  /\ Cardinality(Inserted) = Cardinality(NotFound)

\* As long as no call fails, what is stored is new or still to be deleted.
NothingForgotten ==
  failures = 0 =>
    /\ \A p \in stored : picture[p] \in {"select", "insert", "unlink", "saved"}
    /\ \A p \in Pictures : picture[p] = "saved" => former[p] \notin stored

PicturesInv ==
  /\ PicturesTypeOK
  /\ \A p \in Pictures : picture[p] \in {"select", "insert"} => p \in stored
  /\ RowShows /\ OneForOne /\ NothingForgotten

LEMMA InitPicturesInv == PicturesInit => PicturesInv
  <1> SUFFICES ASSUME PicturesInit PROVE PicturesInv
    OBVIOUS
  <1>1. Inserted = {} /\ NotFound = {} /\ Committed = {}
    BY DEF PicturesInit, Inserted, NotFound, Committed
  <1>2. OneForOne
    BY <1>1, FS_EmptySet DEF OneForOne
  <1> QED
    BY <1>1, <1>2, PicturesAssumption DEF PicturesInit, PicturesInv, PicturesTypeOK, RowShows,
       NothingForgotten

\* Steps outside the transaction leave the commits alone.
LEMMA SameCommits ==
  ASSUME PicturesInv, UNCHANGED <<image, former>>, Committed' = Committed
  PROVE  OneForOne' /\ UNCHANGED <<Inserted, NotFound>>
  <1>1. Inserted' = Inserted /\ NotFound' = NotFound
    BY DEF Inserted, NotFound
  <1> QED
    BY <1>1 DEF PicturesInv, OneForOne

\* What is done before and after the transaction.
LEMMA OutsideInv ==
  ASSUME PicturesInv, NEW p \in Pictures,
         UploadPicture(p) \/ UnlinkPicture(p) \/ DiscardPicture(p)
  PROVE  PicturesInv'
  <1> USE PicturesAssumption
  <1>1. UNCHANGED <<image, former>> /\ Committed' = Committed
    BY DEF PicturesInv, PicturesTypeOK, UploadPicture, UnlinkPicture, DiscardPicture,
       PictureAt, Committed
  <1>2. OneForOne' /\ UNCHANGED <<Inserted, NotFound>>
    BY <1>1, SameCommits
  <1> USE DEF PicturesInv, PicturesTypeOK, PictureAt, Failure
  <1>3. CASE UploadPicture(p)
    <2>1. PicturesTypeOK'
      BY <1>3 DEF UploadPicture
    <2>2. RowShows'
      BY <1>1, <1>2, <1>3 DEF UploadPicture, RowShows
    <2>3. NothingForgotten'
      <3>1. \A q \in Pictures : former[q] # p
        BY <1>3, <1>1 DEF UploadPicture, RowShows, Committed
      <3> QED
        BY <1>3, <3>1 DEF UploadPicture, NothingForgotten
    <2> QED
      BY <1>2, <1>3, <2>1, <2>2, <2>3 DEF UploadPicture
  <1>4. CASE UnlinkPicture(p)
    <2>1. PicturesTypeOK'
      BY <1>4 DEF UnlinkPicture, UnlinkFormer
    <2>2. RowShows'
      BY <1>1, <1>2, <1>4 DEF UnlinkPicture, UnlinkFormer, RowShows
    <2>3. NothingForgotten'
      BY <1>4 DEF UnlinkPicture, UnlinkFormer, NothingForgotten
    <2>4. \A q \in Pictures : picture'[q] \in {"select", "insert"} => q \in stored'
      BY <1>4 DEF UnlinkPicture, UnlinkFormer, RowShows, Committed
    <2> QED
      BY <1>2, <2>1, <2>2, <2>3, <2>4
  <1>5. CASE DiscardPicture(p)
    <2>1. PicturesTypeOK'
      BY <1>5 DEF DiscardPicture
    <2>2. RowShows'
      BY <1>1, <1>2, <1>5 DEF DiscardPicture, RowShows, NotFound, Committed
    <2>3. NothingForgotten'
      BY <1>5 DEF DiscardPicture, NothingForgotten
    <2> QED
      BY <1>2, <1>5, <2>1, <2>2, <2>3 DEF DiscardPicture
  <1> QED
    BY <1>3, <1>4, <1>5

\* A request that has stored its picture and not committed has no successor.
LEMMA NotYet ==
  ASSUME PicturesInv, NEW p \in Pictures, picture[p] \in {"select", "insert"}
  PROVE  /\ p \notin Committed /\ p # image /\ p # NoPicture
         /\ former[p] = NoPicture
         /\ \A q \in Pictures : former[q] # p
  BY PicturesAssumption DEF PicturesInv, RowShows, NotFound, Committed

LEMMA Swap ==
  ASSUME NEW S, IsFiniteSet(S), NEW x \in S, NEW y, y \notin S
  PROVE  /\ IsFiniteSet((S \ {x}) \cup {y})
         /\ Cardinality((S \ {x}) \cup {y}) = Cardinality(S)
  <1>1. /\ IsFiniteSet(S \ {x}) /\ y \notin S \ {x}
        /\ Cardinality(S \ {x}) = Cardinality(S) - 1
    BY FS_RemoveElement
  <1>2. /\ IsFiniteSet((S \ {x}) \cup {y})
        /\ Cardinality((S \ {x}) \cup {y}) = Cardinality(S \ {x}) + 1
    BY <1>1, FS_AddElement
  <1>3. Cardinality(S) \in Nat
    BY FS_CardinalityType
  <1> QED
    BY <1>1, <1>2, <1>3

\* A commit that replaces what it has found.
LEMMA ReplaceInv ==
  ASSUME PicturesInv, NEW p \in Pictures, picture[p] = "select", image # NoPicture,
         former' = [former EXCEPT ![p] = image], image' = p, PictureAt(p, "unlink"),
         UNCHANGED <<stored, failures>>
  PROVE  PicturesInv'
  <1> USE PicturesAssumption DEF PicturesInv, PicturesTypeOK, PictureAt
  <1>1. /\ p \notin Committed /\ p # image /\ p # NoPicture /\ former[p] = NoPicture
        /\ \A q \in Pictures : former[q] # p
    BY NotYet
  <1>2. Committed' = Committed \cup {p}
    BY DEF Committed
  <1>3. Inserted' = Inserted
    BY <1>1, <1>2 DEF Inserted
  <1>4. NotFound' = (NotFound \ {image}) \cup {p}
    <2>1. \A r \in Pictures : (\A q \in Pictures : former'[q] # r)
                               <=> r # image /\ \A q \in Pictures : former[q] # r
      BY <1>1
    <2> QED
      BY <1>1, <1>2, <2>1 DEF NotFound, Committed
  <1>5. image \in NotFound /\ p \notin NotFound
    BY <1>1 DEF RowShows, NotFound
  <1>6. OneForOne'
    <2>1. /\ IsFiniteSet(Inserted) /\ IsFiniteSet(NotFound)
          /\ Cardinality(Inserted) = Cardinality(NotFound)
      BY DEF OneForOne
    <2>2. IsFiniteSet(NotFound') /\ Cardinality(NotFound') = Cardinality(NotFound)
      BY ONLY <1>4, <1>5, <2>1, Swap
    <2> QED
      BY ONLY <1>3, <2>1, <2>2 DEF OneForOne
  <1>7. RowShows'
    BY <1>1, <1>2, <1>4, <1>5 DEF RowShows, NotFound
  <1>8. NothingForgotten'
    BY <1>1 DEF NothingForgotten
  <1> QED
    BY <1>6, <1>7, <1>8

\* A commit that has found nothing.
LEMMA InsertInv ==
  ASSUME PicturesInv, NEW p \in Pictures, picture[p] = "insert",
         image' = p, PictureAt(p, "unlink"), UNCHANGED <<former, stored, failures>>
  PROVE  PicturesInv'
  <1> USE PicturesAssumption DEF PicturesInv, PicturesTypeOK, PictureAt
  <1>1. /\ p \notin Committed /\ p # image /\ p # NoPicture /\ former[p] = NoPicture
        /\ \A q \in Pictures : former[q] # p
    BY NotYet
  <1>2. Committed' = Committed \cup {p}
    BY DEF Committed
  <1>3. Inserted' = Inserted \cup {p} /\ p \notin Inserted
    BY <1>1, <1>2 DEF Inserted
  <1>4. NotFound' = NotFound \cup {p} /\ p \notin NotFound
    BY <1>1, <1>2 DEF NotFound
  <1>5. OneForOne'
    <2>1. /\ IsFiniteSet(Inserted) /\ IsFiniteSet(NotFound)
          /\ Cardinality(Inserted) = Cardinality(NotFound)
      BY DEF OneForOne
    <2>2. IsFiniteSet(Inserted') /\ Cardinality(Inserted') = Cardinality(Inserted) + 1
      BY ONLY <1>3, <2>1, FS_AddElement
    <2>3. IsFiniteSet(NotFound') /\ Cardinality(NotFound') = Cardinality(NotFound) + 1
      BY ONLY <1>4, <2>1, FS_AddElement
    <2> QED
      BY ONLY <2>1, <2>2, <2>3 DEF OneForOne
  <1>6. RowShows'
    BY <1>1, <1>2, <1>4 DEF RowShows, NotFound
  <1>7. NothingForgotten'
    BY <1>1 DEF NothingForgotten
  <1> QED
    BY <1>5, <1>6, <1>7

\* The transaction goes on, or is rolled back.
LEMMA BeforeInv ==
  ASSUME PicturesInv, NEW p \in Pictures, picture[p] \in {"select", "insert"},
         \/ picture[p] = "select" /\ PictureAt(p, "insert") /\ UNCHANGED failures
         \/ PictureAt(p, "discard") /\ Failure,
         UNCHANGED <<image, former, stored>>
  PROVE  PicturesInv'
  <1> USE PicturesAssumption DEF PicturesInv, PicturesTypeOK, PictureAt, Failure
  <1>1. Committed' = Committed
    BY DEF Committed
  <1>2. OneForOne' /\ UNCHANGED <<Inserted, NotFound>>
    BY <1>1, SameCommits
  <1>3. RowShows'
    BY <1>1, <1>2 DEF RowShows
  <1>4. NothingForgotten'
    BY DEF NothingForgotten
  <1> QED
    BY <1>2, <1>3, <1>4

LEMMA StepPicturesInv == PicturesInv /\ [PicturesNext]_pictureVars => PicturesInv'
  <1> SUFFICES ASSUME PicturesInv, [PicturesNext]_pictureVars
               PROVE  PicturesInv'
    OBVIOUS
  <1>1. CASE UNCHANGED pictureVars
    BY <1>1 DEF pictureVars, PicturesInv, PicturesTypeOK, RowShows, OneForOne,
       NothingForgotten, Inserted, NotFound, Committed
  <1>2. ASSUME NEW p \in Pictures, SelectPicture(p)
        PROVE  PicturesInv'
    BY <1>2, ReplaceInv, BeforeInv DEF SelectPicture, SelectForUpdate
  <1>3. ASSUME NEW p \in Pictures, InsertPicture(p)
        PROVE  PicturesInv'
    BY <1>3, InsertInv, BeforeInv DEF InsertPicture
  <1> QED
    BY <1>1, <1>2, <1>3, OutsideInv DEF PicturesNext

\* upsertUserPorfileImg: the picture a user sees is there; without failures
\* the others are deleted, except for one per request that raced with the
\* first.
THEOREM PictureStays == PicturesSpec => []PictureIsThere
  <1>1. PicturesInv => PictureIsThere
    <2> SUFFICES ASSUME PicturesInv, failures = 0,
                        \A p \in Pictures : picture[p] \in {"new", "saved"},
                        ~(stored \subseteq {image})
                 PROVE  Cardinality(stored \ {image}) < Cardinality(First)
      BY DEF PicturesInv, RowShows, PictureIsThere
    <2>1. stored \subseteq NotFound
      BY PicturesAssumption DEF PicturesInv, PicturesTypeOK, RowShows, NothingForgotten, NotFound, Committed
    <2>2. image \in NotFound
      BY <2>1 DEF PicturesInv, RowShows, NotFound
    <2>3. First = Inserted
      BY DEF First, Inserted, Committed
    <2>4. /\ IsFiniteSet(NotFound \ {image})
          /\ Cardinality(NotFound \ {image}) = Cardinality(NotFound) - 1
      BY <2>2, FS_RemoveElement DEF PicturesInv, OneForOne
    <2>5. Cardinality(stored \ {image}) <= Cardinality(NotFound \ {image})
      BY <2>1, <2>4, FS_Subset
    <2>6. /\ Cardinality(NotFound) \in Nat /\ Cardinality(stored \ {image}) \in Nat
      BY <2>1, <2>4, FS_Subset, FS_CardinalityType DEF PicturesInv, OneForOne
    <2> QED
      BY <2>3, <2>4, <2>5, <2>6 DEF PicturesInv, OneForOne
  <1> QED
    BY <1>1, InitPicturesInv, StepPicturesInv, PTL DEF PicturesSpec

=============================================================================
