---------------------------- MODULE ProfileImages ----------------------------
(***************************************************************************)
(* The profile image of one user: requests that upload a picture to the    *)
(* file service and put it in the row of profile_images, whose former      *)
(* picture they delete.                                                    *)
(***************************************************************************)
EXTENDS Naturals, FiniteSets

CONSTANTS
  Pictures,      \* requests, each with a picture of its own
  NoPicture,
  MaxFailures    \* bound: calls that fail

ASSUME PicturesAssumption == NoPicture \notin Pictures /\ MaxFailures \in Nat

VARIABLES
  image,      \* the picture of the row
  former,     \* Pictures -> the one to delete after the commit
  stored,     \* pictures at the file service
  picture,    \* Pictures -> how far the request is
  failures    \* calls that have failed so far

pictureVars == <<image, former, stored, picture, failures>>

PicturesTypeOK ==
  /\ image \in Pictures \cup {NoPicture}
  /\ former \in [Pictures -> Pictures \cup {NoPicture}]
  /\ stored \subseteq Pictures
  /\ picture \in [Pictures -> {"new", "select", "insert", "unlink", "discard",
                               "saved", "failed"}]
  /\ failures \in 0..MaxFailures

PicturesInit ==
  /\ image = NoPicture
  /\ former = [p \in Pictures |-> NoPicture]
  /\ stored = {}
  /\ picture = [p \in Pictures |-> "new"]
  /\ failures = 0

PictureAt(p, step) == picture' = [picture EXCEPT ![p] = step]

Failure == failures < MaxFailures /\ failures' = failures + 1

-----------------------------------------------------------------------------

\* uploadProfileImage: without an answer of the file service there is nothing
\* to undo.
UploadPicture(p) ==
  /\ picture[p] = "new"
  /\ \/ stored' = stored \cup {p} /\ PictureAt(p, "select") /\ UNCHANGED failures
     \/ Failure /\ PictureAt(p, "failed") /\ UNCHANGED stored
  /\ UNCHANGED <<image, former>>

\* The row that is found is locked: it is replaced in the same step.  No row
\* locks nothing.
SelectForUpdate(p) ==
  \/ /\ image = NoPicture
     /\ PictureAt(p, "insert")
     /\ UNCHANGED <<image, former>>
  \/ /\ image # NoPicture
     /\ former' = [former EXCEPT ![p] = image]
     /\ image' = p
     /\ PictureAt(p, "unlink")

SelectPicture(p) ==
  /\ picture[p] = "select"
  /\ \/ SelectForUpdate(p) /\ UNCHANGED failures
     \/ Failure /\ PictureAt(p, "discard") /\ UNCHANGED <<image, former>>
  /\ UNCHANGED stored

\* The insert becomes an update when another request has created the row: its
\* picture is replaced and nobody deletes it.
InsertPicture(p) ==
  /\ picture[p] = "insert"
  /\ \/ image' = p /\ PictureAt(p, "unlink") /\ UNCHANGED failures
     \/ Failure /\ PictureAt(p, "discard") /\ UNCHANGED image
  /\ UNCHANGED <<former, stored>>

\* Faulty variant: the picture to delete is looked up in the row.
UnlinkFound(p) == stored \ {image}

UnlinkFormer(p) == stored \ {former[p]}

\* After the commit the former picture is deleted; a failure is only logged.
UnlinkPicture(p) ==
  /\ picture[p] = "unlink"
  /\ PictureAt(p, "saved")
  /\ \/ stored' = UnlinkFormer(p) /\ UNCHANGED failures
     \/ Failure /\ UNCHANGED stored
  /\ UNCHANGED <<image, former>>

\* The catch block of uploadProfileImage, after the rollback.
DiscardPicture(p) ==
  /\ picture[p] = "discard"
  /\ PictureAt(p, "failed")
  /\ \/ stored' = stored \ {p} /\ UNCHANGED failures
     \/ Failure /\ UNCHANGED stored
  /\ UNCHANGED <<image, former>>

PicturesNext ==
  \E p \in Pictures :
    \/ UploadPicture(p) \/ SelectPicture(p) \/ InsertPicture(p)
    \/ UnlinkPicture(p) \/ DiscardPicture(p)

PicturesSpec == PicturesInit /\ [][PicturesNext]_pictureVars

-----------------------------------------------------------------------------

\* Requests that found no row.
First == {p \in Pictures : picture[p] = "saved" /\ former[p] = NoPicture}

\* upsertUserPorfileImg: the picture a user sees is never deleted by an upload
\* that replaced an older one or failed.  When no request is under way and
\* none of their calls failed, the pictures nobody sees are deleted, except
\* for one per request that raced with the first.
PictureIsThere ==
  /\ image # NoPicture => image \in stored
  /\ failures = 0 /\ (\A p \in Pictures : picture[p] \in {"new", "saved"}) =>
       \/ stored \subseteq {image}
       \/ Cardinality(stored \ {image}) < Cardinality(First)

=============================================================================
