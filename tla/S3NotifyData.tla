---------------------------- MODULE S3NotifyData ----------------------------
(***************************************************************************)
(* Constants and data of the bucket notification configuration calls      *)
(* (AddNotificationConfig, RemoveNotificationConfig,                       *)
(* ListNotificationConfigs in cmd/client-s3.go), shared by the detailed   *)
(* model S3Notify and the atomic contract S3NotifyContract.               *)
(***************************************************************************)
EXTENDS Naturals, FiniteSets

CONSTANTS
    Callers,      \* goroutines or processes configuring the same bucket
    Resources,    \* the resource field of the ARNs callers name
    Prefixes,     \* prefix filter values ("" for none)
    EventNames,   \* the names a caller may pass in events
    MaxCalls,     \* calls each caller makes
    Faults,       \* whether a backend call may fail
    InitConfigs   \* configurations the bucket may have at the start

(***************************************************************************)
(* An ARN string is abstracted to what the calls test of it: whether      *)
(* strings.Split(arn, ":") has exactly six fields, its service field      *)
(* (fields[2]) and its resource.  The empty ARN of Remove is its own      *)
(* value; for Add it is just malformed (one field).                        *)
(***************************************************************************)
Kinds == {"sns", "sqs", "lambda"}        \* topic, queue, lambda targets
Services == Kinds \cup {"other"}
ValidArns == [form: {"ok"}, svc: Services, res: Resources]
MalformedArn == [form |-> "malformed", svc |-> "none", res |-> "none"]
EmptyArn == [form |-> "empty", svc |-> "none", res |-> "none"]
Arns == ValidArns \cup {MalformedArn, EmptyArn}

\* The target a configuration is attached to, the identity of an
\* ARN once it is parsed.
ArnIds == [svc: Kinds, res: Resources]
IdOf(a) == [svc |-> a.svc, res |-> a.res]

(***************************************************************************)
(* A bucket's configuration: per target, one NotificationConfig (its      *)
(* event types and prefix filter) or none.                                 *)
(***************************************************************************)
Cfgs == [events: SUBSET {"created", "removed"}, prefix: Prefixes]
NoCfg == [events |-> {}, prefix |-> "none"]
Configs == [ArnIds -> Cfgs \cup {NoCfg}]
EmptyConfig == [i \in ArnIds |-> NoCfg]

ASSUME NotifyAssumption ==
    /\ Callers # {} /\ Resources # {}
    /\ "" \in Prefixes
    /\ {"put", "delete"} \subseteq EventNames
    /\ MaxCalls \in Nat /\ Faults \in BOOLEAN
    /\ InitConfigs \subseteq Configs /\ InitConfigs # {}

(***************************************************************************)
(* The calls.  bucketOK: isValidBucketName accepts the bucket of the      *)
(* client URL.                                                             *)
(***************************************************************************)
Requests ==
    [op: {"add"}, bucketOK: BOOLEAN, arn: Arns, events: SUBSET EventNames,
     prefix: Prefixes]
    \cup [op: {"remove", "list"}, bucketOK: BOOLEAN, arn: Arns,
          events: {{}}, prefix: {""}]
NoReq == [op |-> "none", bucketOK |-> FALSE, arn |-> EmptyArn,
          events |-> {}, prefix |-> ""]
=============================================================================
