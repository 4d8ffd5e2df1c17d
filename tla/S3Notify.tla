------------------------------- MODULE S3Notify -------------------------------
(***************************************************************************)
(* The bucket notification configuration calls of the S3 client           *)
(* (cmd/client-s3.go), made by several callers against one bucket.  Add   *)
(* and Remove read the whole configuration (GetBucketNotification),      *)
(* change their local copy and write all of it back                       *)
(* (SetBucketNotification); nothing serialises two callers.  Each call is *)
(* one step per backend call; the local work between two backend calls   *)
(* touches no shared state and belongs to the step before it.             *)
(***************************************************************************)
EXTENDS S3NotifyData

VARIABLES
    config,    \* the bucket's notification configuration on the server
    req,       \* the call each caller is making
    pc,        \* "idle", "start" (entered), "get" (before GetBucketNotification),
               \* "set" (before SetBucketNotification)
    mb,        \* the caller's local copy of the configuration
    result,    \* outcome of the caller's last call
    listed,    \* the configurations ListNotificationConfigs returned
    calls      \* calls each caller has made

vars == <<config, req, pc, mb, result, listed, calls>>

TypeOK ==
    /\ config \in Configs
    /\ req \in [Callers -> Requests \cup {NoReq}]
    /\ pc \in [Callers -> {"idle", "start", "get", "set"}]
    /\ mb \in [Callers -> Configs]
    /\ result \in [Callers -> {"none", "ok", "invalid", "backend"}]
    /\ listed \in [Callers -> Configs]
    /\ calls \in [Callers -> 0..MaxCalls]

Init ==
    /\ config \in InitConfigs
    /\ req = [c \in Callers |-> NoReq]
    /\ pc = [c \in Callers |-> "idle"]
    /\ mb = [c \in Callers |-> EmptyConfig]
    /\ result = [c \in Callers |-> "none"]
    /\ listed = [c \in Callers |-> EmptyConfig]
    /\ calls = [c \in Callers |-> 0]

(***************************************************************************)
(* The SDK's BucketNotification (minio-go): AddTopic, AddQueue and        *)
(* AddLambda append a configuration unless one with the same ARN is       *)
(* already there; RemoveTopicByArn, RemoveQueueByArn and                  *)
(* RemoveLambdaByArn drop the ones with that ARN.                         *)
(***************************************************************************)
AddByArn(m, i, cf) == IF m[i] = NoCfg THEN [m EXCEPT ![i] = cf] ELSE m
RemoveByArn(m, i) == [m EXCEPT ![i] = NoCfg]

\* Mutant of EventOf: the CLI name is stored untranslated.
EventOfRaw(name) == name

\* case "put": minio.ObjectCreatedAll; case "delete": minio.ObjectRemovedAll
EventOf(name) == IF name = "put" THEN "created" ELSE "removed"

\* The NotificationConfig that Add builds: its events and prefix filter.
NewCfg(r) == [events |-> {EventOf(e) : e \in r.events}, prefix |-> r.prefix]

\* A return from the call, with its outcome; the local copy is gone.
Return(c, res) ==
    /\ pc' = [pc EXCEPT ![c] = "idle"]
    /\ result' = [result EXCEPT ![c] = res]
    /\ mb' = [mb EXCEPT ![c] = EmptyConfig]

\* A caller enters one of the three calls.
Invoke(c) ==
    /\ pc[c] = "idle" /\ calls[c] < MaxCalls
    /\ \E r \in Requests : req' = [req EXCEPT ![c] = r]
    /\ pc' = [pc EXCEPT ![c] = "start"]
    /\ calls' = [calls EXCEPT ![c] = @ + 1]
    /\ UNCHANGED <<config, mb, result, listed>>

(***************************************************************************)
(* AddNotificationConfig up to its GetBucketNotification: the bucket name *)
(* and the number of ARN fields are checked.                              *)
(***************************************************************************)
AddStart(c) ==
    /\ pc[c] = "start" /\ req[c].op = "add"
    /\ IF ~req[c].bucketOK \/ req[c].arn.form # "ok"
       THEN Return(c, "invalid")
       ELSE pc' = [pc EXCEPT ![c] = "get"] /\ UNCHANGED <<result, mb>>
    /\ UNCHANGED <<config, req, listed, calls>>

(***************************************************************************)
(* GetBucketNotification, then the loop over the events and the switch on *)
(* fields[2]: an unknown event name or service returns an error.          *)
(***************************************************************************)
AddGet(c) ==
    LET r == req[c] IN
    /\ pc[c] = "get" /\ r.op = "add"
    /\ \/ Faults /\ Return(c, "backend")
       \/ IF ~(r.events \subseteq {"put", "delete"}) \/ r.arn.svc \notin Kinds
          THEN Return(c, "invalid")
          ELSE /\ mb' = [mb EXCEPT ![c] = AddByArn(config, IdOf(r.arn), NewCfg(r))]
               /\ pc' = [pc EXCEPT ![c] = "set"] /\ UNCHANGED result
    /\ UNCHANGED <<config, req, listed, calls>>

\* Mutant of RemoveStart: no return after RemoveAllBucketNotification.
RemoveStartNoReturn(c) ==
    /\ pc[c] = "start" /\ req[c].op = "remove"
    /\ IF ~req[c].bucketOK
       THEN Return(c, "invalid") /\ UNCHANGED config
       ELSE IF req[c].arn = EmptyArn
       THEN \/ Faults /\ Return(c, "backend") /\ UNCHANGED config
            \/ config' = EmptyConfig /\ pc' = [pc EXCEPT ![c] = "get"]
               /\ UNCHANGED <<result, mb>>
       ELSE pc' = [pc EXCEPT ![c] = "get"] /\ UNCHANGED <<config, result, mb>>
    /\ UNCHANGED <<req, listed, calls>>

(***************************************************************************)
(* RemoveNotificationConfig up to its GetBucketNotification: the bucket   *)
(* name is checked, and an empty ARN removes every configuration with    *)
(* one call, RemoveAllBucketNotification, and returns.                    *)
(***************************************************************************)
RemoveStart(c) ==
    /\ pc[c] = "start" /\ req[c].op = "remove"
    /\ IF ~req[c].bucketOK
       THEN Return(c, "invalid") /\ UNCHANGED config
       ELSE IF req[c].arn = EmptyArn
       THEN \/ Faults /\ Return(c, "backend") /\ UNCHANGED config
            \/ config' = EmptyConfig /\ Return(c, "ok")
       ELSE pc' = [pc EXCEPT ![c] = "get"] /\ UNCHANGED <<config, result, mb>>
    /\ UNCHANGED <<req, listed, calls>>

(***************************************************************************)
(* GetBucketNotification, then the ARN field count and the switch on      *)
(* fields[2]; the configurations of the ARN are dropped from the copy.    *)
(***************************************************************************)
RemoveGet(c) ==
    LET a == req[c].arn IN
    /\ pc[c] = "get" /\ req[c].op = "remove"
    /\ \/ Faults /\ Return(c, "backend")
       \/ IF a.form # "ok" \/ a.svc \notin Kinds
          THEN Return(c, "invalid")
          ELSE /\ mb' = [mb EXCEPT ![c] = RemoveByArn(config, IdOf(a))]
               /\ pc' = [pc EXCEPT ![c] = "set"] /\ UNCHANGED result
    /\ UNCHANGED <<config, req, listed, calls>>

\* SetBucketNotification(bucket, mb), the end of Add and of Remove.
SetConfig(c) ==
    /\ pc[c] = "set"
    /\ \/ Faults /\ Return(c, "backend") /\ UNCHANGED config
       \/ config' = mb[c] /\ Return(c, "ok")
    /\ UNCHANGED <<req, listed, calls>>

\* The configurations whose ARN is the argument, all for an empty one
\* (the loops over TopicConfigs, QueueConfigs and LambdaConfigs).
Matching(m, a) ==
    [i \in ArnIds |-> IF a = EmptyArn \/ (a.form = "ok" /\ IdOf(a) = i)
                      THEN m[i] ELSE NoCfg]

(***************************************************************************)
(* ListNotificationConfigs: the bucket name is checked, the configuration *)
(* read and filtered by ARN.                                               *)
(***************************************************************************)
ListConfigs(c) ==
    /\ pc[c] = "start" /\ req[c].op = "list"
    /\ IF ~req[c].bucketOK
       THEN Return(c, "invalid") /\ UNCHANGED listed
       ELSE \/ Faults /\ Return(c, "backend") /\ UNCHANGED listed
            \/ listed' = [listed EXCEPT ![c] = Matching(config, req[c].arn)]
               /\ Return(c, "ok")
    /\ UNCHANGED <<config, req, calls>>

\* The steps of a call once it has been entered.
Body(c) ==
    AddStart(c) \/ AddGet(c) \/ RemoveStart(c) \/ RemoveGet(c)
    \/ SetConfig(c) \/ ListConfigs(c)

Next == \E c \in Callers : Invoke(c) \/ Body(c)

\* A call runs to its return: every backend call answers (with an error,
\* if it fails).  Making calls at all is the callers' choice.
Fairness == \A c \in Callers : WF_vars(Body(c))

Spec == Init /\ [][Next]_vars /\ Fairness

=============================================================================
