------------------------------ MODULE MC_S3List ------------------------------
(***************************************************************************)
(* Model-checking instance of S3List: two buckets, streams of up to two   *)
(* entries, and the contract S3ListContract under the identity mapping.   *)
(***************************************************************************)
EXTENDS S3List, TLC

CONSTANTS b1, b2

MCBucketNames == {b1, b2}

Contract == INSTANCE S3ListContract

(***************************************************************************)
(* Refinement: every behaviour of the producer goroutine and its caller   *)
(* delivers exactly the documented stream, in order, and then closes the  *)
(* channel (S3ListContract!CSpec, fairness included).                     *)
(***************************************************************************)
ContractSpec == Contract!CSpec
=============================================================================
