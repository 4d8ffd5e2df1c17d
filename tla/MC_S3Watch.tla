------------------------------ MODULE MC_S3Watch ------------------------------
(***************************************************************************)
(* Model-checking instance of S3Watch: up to two notifications of up to   *)
(* two records, an SDK channel of one slot (minio-go's).                  *)
(***************************************************************************)
EXTENDS S3Watch, TLC
=============================================================================
