----------------------------- MODULE MC_S3Notify -----------------------------
(***************************************************************************)
(* Model-checking instance of S3Notify and its refinement of the atomic   *)
(* contract: a caller is busy in the contract from its entry to its       *)
(* return, and every error outcome is the contract's "error".             *)
(***************************************************************************)
EXTENDS S3Notify, TLC

CONSTANTS c1, c2, r1

\* The bucket starts without notifications, or with a topic configured.
MCInitConfigs ==
    {EmptyConfig,
     [EmptyConfig EXCEPT ![[svc |-> "sns", res |-> r1]] =
                             [events |-> {"created"}, prefix |-> ""]]}

Contract == INSTANCE S3NotifyContract
    WITH busy <- [c \in Callers |-> pc[c] # "idle"],
         result <- [c \in Callers |->
                      IF result[c] \in {"invalid", "backend"} THEN "error"
                      ELSE result[c]]

(***************************************************************************)
(* Refinement: every behaviour of the callers is one in which each Add,   *)
(* Remove and List call takes effect atomically at its return, fails      *)
(* only on invalid arguments or a backend error, and always returns       *)
(* (S3NotifyContract!CSpec).                                              *)
(***************************************************************************)
ContractSpec == Contract!CSpec
=============================================================================
