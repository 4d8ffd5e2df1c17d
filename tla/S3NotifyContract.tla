-------------------------- MODULE S3NotifyContract --------------------------
(***************************************************************************)
(* What the notification configuration calls promise when they are used   *)
(* by several callers at once: each call takes effect atomically at one   *)
(* instant between its entry and its return.                              *)
(*  - Add attaches a configuration with the requested event kinds         *)
(*    (put: ObjectCreated, delete: ObjectRemoved) and prefix to the       *)
(*    target of the ARN, unless that target has one already;              *)
(*  - Remove with an ARN drops that target's configuration, with the      *)
(*    empty ARN every configuration;                                       *)
(*  - List returns the configurations of the ARN (all for the empty one). *)
(* A call that fails changes nothing.  It fails when its arguments are    *)
(* invalid (bucket name, ARN of six fields with a known service, known   *)
(* event names), and may fail on a backend error.                         *)
(***************************************************************************)
EXTENDS S3NotifyData

VARIABLES config, req, busy, result, listed, calls

cvars == <<config, req, busy, result, listed, calls>>

\* The arguments are accepted.
Valid(r) ==
    /\ r.bucketOK
    /\ r.op = "add" =>
          r.arn \in ValidArns /\ r.arn.svc \in Kinds
          /\ r.events \subseteq {"put", "delete"}
    /\ r.op = "remove" =>
          r.arn = EmptyArn \/ (r.arn \in ValidArns /\ r.arn.svc \in Kinds)

Kind(e) == CASE e = "put" -> "created" [] e = "delete" -> "removed"

\* The configuration after the successful call r.
Effect(m, r) ==
    LET i == IdOf(r.arn) IN
    IF r.op = "add"
    THEN [m EXCEPT ![i] = IF @ = NoCfg
                          THEN [events |-> {Kind(e) : e \in r.events},
                                prefix |-> r.prefix]
                          ELSE @]
    ELSE IF r.op = "remove"
    THEN IF r.arn = EmptyArn THEN EmptyConfig ELSE [m EXCEPT ![i] = NoCfg]
    ELSE m                                 \* list

\* What List returns.
Selected(m, a) ==
    [i \in ArnIds |-> IF a = EmptyArn \/ (a \in ValidArns /\ i = IdOf(a))
                      THEN m[i] ELSE NoCfg]

CInit ==
    /\ config \in InitConfigs
    /\ req = [c \in Callers |-> NoReq]
    /\ busy = [c \in Callers |-> FALSE]
    /\ result = [c \in Callers |-> "none"]
    /\ listed = [c \in Callers |-> EmptyConfig]
    /\ calls = [c \in Callers |-> 0]

Call(c) ==
    /\ ~busy[c] /\ calls[c] < MaxCalls
    /\ \E r \in Requests : req' = [req EXCEPT ![c] = r]
    /\ busy' = [busy EXCEPT ![c] = TRUE]
    /\ calls' = [calls EXCEPT ![c] = @ + 1]
    /\ UNCHANGED <<config, result, listed>>

Complete(c) ==
    LET r == req[c] IN
    /\ busy[c]
    /\ busy' = [busy EXCEPT ![c] = FALSE]
    /\ \/ /\ Valid(r)
          /\ config' = Effect(config, r)
          /\ result' = [result EXCEPT ![c] = "ok"]
          /\ listed' = IF r.op = "list"
                       THEN [listed EXCEPT ![c] = Selected(config, r.arn)]
                       ELSE listed
       \/ /\ ~Valid(r) \/ Faults
          /\ result' = [result EXCEPT ![c] = "error"]
          /\ UNCHANGED <<config, listed>>
    /\ UNCHANGED <<req, calls>>

CNext == \E c \in Callers : Call(c) \/ Complete(c)

CSpec == CInit /\ [][CNext]_cvars /\ \A c \in Callers : WF_cvars(Complete(c))
=============================================================================
