---------------------------- MODULE ReportSharing ----------------------------
(***************************************************************************)
(* The shareable link of one READY report: requests that upload its PDF to *)
(* the file service and replace the row of uploaded-reports, readers that  *)
(* follow a link, and the delayed jobs that delete an upload when its link *)
(* has expired.  An upload u stands for the file, the share token and the  *)
(* delete job one request makes.                                           *)
(***************************************************************************)
EXTENDS Integers, FiniteSets

CONSTANTS
  Uploads,        \* requests for a link
  Readers,        \* requests that follow one
  DeleteAttempts, \* the attempts of a delete job, 3
  MaxMishaps,     \* bound: calls that fail, processes that die
  Nothing         \* no upload

ASSUME SharingAssumption ==
  /\ Uploads \cap Readers = {}
  /\ Nothing \notin Uploads
  /\ DeleteAttempts \in Nat \ {0}
  /\ MaxMishaps \in Nat

VARIABLES
  row,       \* the row of the report
  files,     \* what the file service stores
  upload,    \* Uploads -> how far the request is
  replaced,  \* Uploads -> the row its transaction found
  deletion,  \* jobs and readers -> how far deleteRemoteReport is
  target,    \* jobs and readers -> the upload they look at
  read,      \* Readers -> the downloadCount they have read
  attempts,  \* Uploads -> failed attempts of the delete job
  expired,   \* uploads whose seven days are over
  latest,    \* history: the upload that was last put in the row
  mishaps    \* calls that have failed so far

sharingVars == <<row, files, upload, replaced, deletion, target, read, attempts,
                 expired, latest, mishaps>>

Row == [upload: Uploads, deleteJob: Uploads \cup {Nothing},
        downloadCount: 0..Cardinality(Readers)]
NoRow == [upload |-> Nothing, deleteJob |-> Nothing, downloadCount |-> 0]

Ended == {"answered", "failed"}
Deleters == Uploads \cup Readers

SharingTypeOK ==
  /\ row \in Row \cup {NoRow}
  /\ files \subseteq Uploads
  /\ upload \in [Uploads -> {"new", "select", "insert", "unschedule",
                             "unlink", "schedule", "note", "discard"} \cup Ended]
  /\ replaced \in [Uploads -> Row \cup {NoRow}]
  /\ deletion \in [Deleters -> {"none", "waiting", "check", "destroy", "erase",
                                "count", "over"}]
  /\ target \in [Deleters -> Uploads \cup {Nothing}]
  /\ read \in [Readers -> 0..Cardinality(Readers)]
  /\ attempts \in [Uploads -> 0..DeleteAttempts]
  /\ expired \subseteq Uploads
  /\ latest \in Uploads \cup {Nothing}
  /\ mishaps \in 0..MaxMishaps

SharingInit ==
  /\ row = NoRow
  /\ files = {}
  /\ upload = [u \in Uploads |-> "new"]
  /\ replaced = [u \in Uploads |-> NoRow]
  /\ deletion = [d \in Deleters |-> "none"]
  /\ target = [d \in Deleters |-> IF d \in Uploads THEN d ELSE Nothing]
  /\ read = [d \in Readers |-> 0]
  /\ attempts = [u \in Uploads |-> 0]
  /\ expired = {}
  /\ latest = Nothing
  /\ mishaps = 0

UploadAt(u, step) == upload' = [upload EXCEPT ![u] = step]
DeletionAt(d, step) == deletion' = [deletion EXCEPT ![d] = step]

Mishap == mishaps < MaxMishaps /\ mishaps' = mishaps + 1

-----------------------------------------------------------------------------
(* uploadReportToCloudinary, one action per await. *)

\* The user owns the report, which is READY; its PDF is rendered and stored
\* under a name of its own.
StoreFile(u) ==
  /\ upload[u] = "new"
  /\ \/ files' = files \cup {u} /\ UploadAt(u, "select") /\ UNCHANGED mishaps
     \/ Mishap /\ UploadAt(u, "failed") /\ UNCHANGED files
  /\ UNCHANGED <<row, replaced, deletion, target, read, attempts, expired, latest>>

\* The row that exists is locked until the transaction ends, so the update is
\* one step with it; a missing row locks nothing.
UpsertRow(u) ==
  /\ upload[u] = "select"
  /\ \/ /\ row = NoRow
        /\ UploadAt(u, "insert")
        /\ UNCHANGED <<row, replaced, latest, mishaps>>
     \/ /\ row # NoRow
        /\ row' = [row EXCEPT !.upload = u]
        /\ replaced' = [replaced EXCEPT ![u] = row]
        /\ latest' = u
        /\ UploadAt(u, "unschedule")
        /\ UNCHANGED mishaps
     \/ /\ Mishap
        /\ UploadAt(u, "discard")
        /\ UNCHANGED <<row, replaced, latest>>
  /\ UNCHANGED <<files, deletion, target, read, attempts, expired>>

\* The insert fails when another request has created the row: reportId is
\* unique.
InsertRow(u) ==
  /\ upload[u] = "insert"
  /\ \/ /\ row = NoRow
        /\ row' = [NoRow EXCEPT !.upload = u]
        /\ latest' = u
        /\ UploadAt(u, "unschedule")
        /\ UNCHANGED mishaps
     \/ /\ row # NoRow
        /\ UploadAt(u, "discard")
        /\ UNCHANGED <<row, latest, mishaps>>
     \/ /\ Mishap
        /\ UploadAt(u, "discard")
        /\ UNCHANGED <<row, latest>>
  /\ UNCHANGED <<files, replaced, deletion, target, read, attempts, expired>>

\* The delete job of the upload that was replaced is removed, unless it runs
\* or is over; errors are ignored.  deleteJobId is not part of the update, so
\* the saved row has the same one.
Unschedule(u) ==
  LET old == replaced[u].deleteJob IN
  /\ upload[u] = "unschedule"
  /\ UploadAt(u, "unlink")
  /\ \/ /\ deletion' = IF old # Nothing /\ deletion[old] = "waiting"
                       THEN [deletion EXCEPT ![old] = "over"] ELSE deletion
        /\ UNCHANGED mishaps
     \/ Mishap /\ UNCHANGED deletion
  /\ UNCHANGED <<row, files, replaced, target, read, attempts, expired, latest>>

\* Faulty variant: the file that was replaced is left to its delete job.
UnlinkNothing(u) ==
  /\ upload[u] = "unlink"
  /\ UploadAt(u, "schedule")
  /\ UNCHANGED <<row, files, replaced, deletion, target, read, attempts, expired,
                 latest, mishaps>>

\* Its file is deleted; a failure is only logged.
Unlink(u) ==
  /\ upload[u] = "unlink"
  /\ UploadAt(u, "schedule")
  /\ \/ files' = files \ {replaced[u].upload} /\ UNCHANGED mishaps
     \/ Mishap /\ UNCHANGED files
  /\ UNCHANGED <<row, replaced, deletion, target, read, attempts, expired, latest>>

\* The job that will delete this upload waits until the link expires.
Schedule(u) ==
  /\ upload[u] = "schedule"
  /\ \/ DeletionAt(u, "waiting") /\ UploadAt(u, "note") /\ UNCHANGED mishaps
     \/ Mishap /\ UploadAt(u, "discard") /\ UNCHANGED deletion
  /\ UNCHANGED <<row, files, replaced, target, read, attempts, expired, latest>>

\* deleteJobId is stored in the row that has this upload's token, if any.
NoteJob(u) ==
  /\ upload[u] = "note"
  /\ \/ /\ row' = IF row.upload = u THEN [row EXCEPT !.deleteJob = u] ELSE row
        /\ UploadAt(u, "answered")
        /\ UNCHANGED mishaps
     \/ Mishap /\ UploadAt(u, "discard") /\ UNCHANGED row
  /\ replaced' = [replaced EXCEPT ![u] = NoRow]
  /\ UNCHANGED <<files, deletion, target, read, attempts, expired, latest>>

\* The catch block deletes the upload, whether or not the row points to it.
Discard(u) ==
  /\ upload[u] = "discard"
  /\ UploadAt(u, "failed")
  /\ \/ files' = files \ {u} /\ UNCHANGED mishaps
     \/ Mishap /\ UNCHANGED files
  /\ replaced' = [replaced EXCEPT ![u] = NoRow]
  /\ UNCHANGED <<row, deletion, target, read, attempts, expired, latest>>

\* The process dies during a request.
Die(u) ==
  /\ upload[u] \notin Ended \cup {"new"}
  /\ Mishap
  /\ UploadAt(u, "failed")
  /\ replaced' = [replaced EXCEPT ![u] = NoRow]
  /\ UNCHANGED <<row, files, deletion, target, read, attempts, expired, latest>>

\* Seven days are much longer than a request.
ExpireLink(u) ==
  /\ upload[u] \in Ended
  /\ u \notin expired
  /\ deletion[u] = "waiting" \/ row.upload = u
  /\ expired' = expired \cup {u}
  /\ UNCHANGED <<row, files, upload, replaced, deletion, target, read, attempts,
                 latest, mishaps>>

-----------------------------------------------------------------------------
(* accessShareableLink, and deleteRemoteReport for readers and for jobs. *)

\* A reader reads the row of its token: the link is alive, or the upload is
\* deleted on the spot.
Follow(d) ==
  /\ d \in Readers /\ deletion[d] = "none"
  /\ row # NoRow
  /\ target' = [target EXCEPT ![d] = row.upload]
  /\ read' = [read EXCEPT ![d] = row.downloadCount]
  /\ DeletionAt(d, IF row.upload \in expired THEN "check" ELSE "count")
  /\ UNCHANGED <<row, files, upload, replaced, attempts, expired, latest,
                 mishaps>>

\* downloadCount becomes what was read plus one, in the row that still has the
\* token: of two readers at once one may not be counted.
CountDownload(d) ==
  /\ deletion[d] = "count"
  /\ row' = IF row.upload = target[d]
            THEN [row EXCEPT !.downloadCount = read[d] + 1] ELSE row
  /\ DeletionAt(d, "over")
  /\ UNCHANGED <<files, upload, replaced, target, read, attempts, expired, latest,
                 mishaps>>

RunJob(u) ==
  /\ u \in Uploads
  /\ deletion[u] = "waiting" /\ u \in expired
  /\ DeletionAt(u, "check")
  /\ UNCHANGED <<row, files, upload, replaced, target, read, attempts, expired,
                 latest, mishaps>>

\* deleteRemoteReport throws: a job is tried again, a reader gives up.
DeletionThrows(d) ==
  \/ /\ d \in Readers
     /\ DeletionAt(d, "over")
     /\ UNCHANGED attempts
  \/ /\ d \in Uploads
     /\ attempts' = [attempts EXCEPT ![d] = @ + 1]
     /\ DeletionAt(d, IF attempts[d] + 1 < DeleteAttempts THEN "waiting"
                                                          ELSE "over")

\* Only the upload the row points to may be deleted.
CheckRow(d) ==
  /\ deletion[d] = "check"
  /\ \/ /\ row.upload = target[d]
        /\ DeletionAt(d, "destroy")
        /\ UNCHANGED <<attempts, mishaps>>
     \/ row.upload # target[d] /\ DeletionThrows(d) /\ UNCHANGED mishaps
     \/ Mishap /\ DeletionThrows(d)
  /\ UNCHANGED <<row, files, upload, replaced, target, read, expired, latest>>

Destroy(d) ==
  /\ deletion[d] = "destroy"
  /\ \/ /\ files' = files \ {target[d]}
        /\ DeletionAt(d, "erase")
        /\ UNCHANGED <<attempts, mishaps>>
     \/ Mishap /\ DeletionThrows(d) /\ UNCHANGED files
  /\ UNCHANGED <<row, upload, replaced, target, read, expired, latest>>

\* Faulty variant: the row is deleted by the report's id alone.
ErasedWhatever(d) == NoRow

\* The row is deleted by the report's id and the public id of the file.
Erased(d) == IF row.upload = target[d] THEN NoRow ELSE row

EraseRow(d) ==
  /\ deletion[d] = "erase"
  /\ \/ /\ row' = Erased(d)
        /\ DeletionAt(d, "over")
        /\ UNCHANGED <<attempts, mishaps>>
     \/ Mishap /\ DeletionThrows(d) /\ UNCHANGED row
  /\ UNCHANGED <<files, upload, replaced, target, read, expired, latest>>

-----------------------------------------------------------------------------

UploadStep(u) ==
  \/ StoreFile(u) \/ UpsertRow(u) \/ InsertRow(u) \/ Unschedule(u)
  \/ Unlink(u) \/ Schedule(u) \/ NoteJob(u) \/ Discard(u)

DeleteStep(d) ==
  RunJob(d) \/ CheckRow(d) \/ Destroy(d) \/ EraseRow(d) \/ CountDownload(d)

SharingNext ==
  \/ \E u \in Uploads : UploadStep(u) \/ Die(u) \/ ExpireLink(u)
  \/ \E d \in Readers : Follow(d)
  \/ \E d \in Deleters : DeleteStep(d)

SharingSpec == SharingInit /\ [][SharingNext]_sharingVars

-----------------------------------------------------------------------------
(* Properties. *)

\* No request is under way and no job is due.
AtRest ==
  /\ \A u \in Uploads : upload[u] \in Ended \cup {"new"}
  /\ \A d \in Deleters :
       \/ deletion[d] \in {"none", "over"}
       \/ deletion[d] = "waiting" /\ d \notin expired

\* generateShareableLink answers with a link: until it expires or a later
\* upload takes the row, the row has its token and the file is there,
\* whatever other uploads, readers of older links and their delete jobs do,
\* and whichever of their calls fail.
LinkLeadsToFile ==
  \A u \in Uploads :
    upload[u] = "answered" /\ latest = u /\ u \notin expired =>
      row.upload = u /\ u \in files

\* "Job that deletes at the right time": when no request or job is under way
\* the file service stores the upload of the row and no other, and the job
\* that will delete it waits.
FilesAccountedFor ==
  AtRest /\ mishaps = 0 =>
    /\ files = {row.upload} \ {Nothing}
    /\ \A u \in files : deletion[u] = "waiting"

=============================================================================
