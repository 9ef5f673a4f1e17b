---------------------------- MODULE MCTeamAccess ----------------------------
(***************************************************************************)
(* How people get in, for TLC: the shared access to an inverter, and the   *)
(* account of an address.  They share no state and are explored one at a   *)
(* time.                                                                   *)
(***************************************************************************)
EXTENDS TeamAccess, Accounts, TLC

VARIABLE part   \* the component that runs

MCInit ==
  /\ Init
  /\ AccountsInit
  /\ \/ part = "members"
     \/ part = "account" /\ accounts = {}

MembersNext == part = "members" /\ Next /\ UNCHANGED <<accountVars, part>>
AccountNext == part = "account" /\ AccountsNext /\ UNCHANGED <<vars, part>>

MCNext == MembersNext \/ AccountNext

MCSpec == MCInit /\ [][MCNext]_<<vars, accountVars, part>>

Symmetry == Permutations(Requests) \cup Permutations(Clients)

=============================================================================
