------------------------------ MODULE MCLockDirs ------------------------------
(***************************************************************************)
(* LockDirs for TLC.  A behaviour has a renewal or a restart, not both:    *)
(* the code refuses every renewal, so the two do not meet in what a        *)
(* restart reloads.                                                        *)
(***************************************************************************)
EXTENDS LockDirs

MCNext ==
  /\ Next
  /\ (MaxRenewals - left'.renew) + (MaxRestarts - left'.restart) <= 1

MCSpec == Init /\ [][MCNext]_vars /\ Fairness
=============================================================================
