------------------------------ MODULE MC_S3Stat ------------------------------
(***************************************************************************)
(* Model-checking instance of S3Stat.  The cfgs choose listings of up to  *)
(* three or four entries and a channel of one or two slots, so that Stat  *)
(* can leave both less and more unread than the channel holds.           *)
(***************************************************************************)
EXTENDS S3Stat, TLC
=============================================================================
