----------------------------- MODULE MCSessions -----------------------------
(***************************************************************************)
(* What a user does behind a login, for TLC: the session itself, the link  *)
(* to a report and the profile image.  They share no state and are         *)
(* explored one at a time.                                                 *)
(***************************************************************************)
EXTENDS Sessions, ReportSharing, ProfileImages, TLC

VARIABLE part   \* the component that runs

MCInit ==
  /\ Init
  /\ SharingInit
  /\ PicturesInit
  /\ part \in {"session", "sharing", "picture"}

SessionsNext ==
  part = "session" /\ Next /\ UNCHANGED <<sharingVars, pictureVars, part>>
LinksNext ==
  part = "sharing" /\ SharingNext /\ UNCHANGED <<vars, pictureVars, part>>
ImagesNext ==
  part = "picture" /\ PicturesNext /\ UNCHANGED <<vars, sharingVars, part>>

MCNext == SessionsNext \/ LinksNext \/ ImagesNext

MCSpec == MCInit /\ [][MCNext]_<<vars, sharingVars, pictureVars, part>>

Symmetry == Permutations(Requests) \cup Permutations(Uploads)

=============================================================================
