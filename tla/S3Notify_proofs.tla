--------------------------- MODULE S3Notify_proofs ---------------------------
(***************************************************************************)
(* Proofs about the notification configuration calls (S3Notify), for      *)
(* every set of callers, resources, prefixes and event names: the state   *)
(* stays well typed, and with a single caller every step of Add, Remove  *)
(* and List is a step of the atomic contract S3NotifyContract or leaves   *)
(* the contract's state alone.                                             *)
(***************************************************************************)
EXTENDS S3Notify, FiniteSets, TLAPS

-----------------------------------------------------------------------------
(* Lemmas on the SDK helpers: they map configurations to configurations. *)

\* An ARN whose service field is a known kind is a parsed ARN.
LEMMA KnownArn ==
    ASSUME NEW a \in Arns, a.svc \in Kinds
    PROVE  a \in ValidArns /\ IdOf(a) \in ArnIds
  BY DEF Arns, ValidArns, MalformedArn, EmptyArn, IdOf, ArnIds, Kinds

LEMMA AddByArnType ==
    ASSUME NEW m \in Configs, NEW i \in ArnIds, NEW cf \in Cfgs
    PROVE  AddByArn(m, i, cf) \in Configs
  BY DEF AddByArn, Configs

LEMMA RemoveByArnType ==
    ASSUME NEW m \in Configs, NEW i \in ArnIds
    PROVE  RemoveByArn(m, i) \in Configs
  BY DEF RemoveByArn, Configs

LEMMA MatchingType ==
    ASSUME NEW m \in Configs, NEW a \in Arns
    PROVE  Matching(m, a) \in Configs
  BY DEF Matching, Configs, NoCfg, Cfgs

\* What the proofs use of a request (by Zenon: the empty prefix of the
\* requests other than Add is a string literal SMT does not take).
LEMMA RequestFacts ==
    ASSUME NEW r \in Requests
    PROVE  /\ r.op \in {"add", "remove", "list"} /\ r.arn \in Arns
           /\ r.bucketOK \in BOOLEAN
           /\ r.op = "add" => r.prefix \in Prefixes
  BY Zenon DEF Requests

LEMMA NoReqOp == NoReq.op = "none"
  BY Zenon DEF NoReq

\* The configuration Add builds from accepted event names.
LEMMA NewCfgType ==
    ASSUME NEW r \in Requests, r.op = "add", r.events \subseteq {"put", "delete"}
    PROVE  NewCfg(r) \in Cfgs
<1>1. r.prefix \in Prefixes
  BY RequestFacts
<1>2. {EventOf(e) : e \in r.events} \subseteq {"created", "removed"}
  BY DEF EventOf
<1>. QED  BY <1>1, <1>2 DEF NewCfg, Cfgs

\* The parts of NotifyAssumption the proofs use.
LEMMA NotifyConstants == MaxCalls \in Nat /\ InitConfigs \subseteq Configs
  BY NotifyAssumption

LEMMA EmptyConfigType == EmptyConfig \in Configs
  BY DEF EmptyConfig, Configs

-----------------------------------------------------------------------------
(* Type correctness: TypeOK is inductive. *)

\* A caller in a call is making one of the requests.
LEMMA ReqInRequests ==
    ASSUME TypeOK, NEW c \in Callers, req[c].op # "none"
    PROVE  req[c] \in Requests
  BY NoReqOp DEF TypeOK

LEMMA ReturnType ==
    ASSUME TypeOK, NEW c \in Callers,
           NEW res \in {"none", "ok", "invalid", "backend"}, Return(c, res)
    PROVE  /\ pc' \in [Callers -> {"idle", "start", "get", "set"}]
           /\ result' \in [Callers -> {"none", "ok", "invalid", "backend"}]
           /\ mb' \in [Callers -> Configs]
  BY EmptyConfigType DEF Return, TypeOK

LEMMA InitType == Init => TypeOK
<1>. SUFFICES ASSUME Init PROVE TypeOK  OBVIOUS
<1>1. config \in Configs
  BY NotifyConstants DEF Init
<1>2. req \in [Callers -> Requests \cup {NoReq}]
  BY DEF Init
<1>3. pc \in [Callers -> {"idle", "start", "get", "set"}]
  BY DEF Init
<1>4. mb \in [Callers -> Configs] /\ listed \in [Callers -> Configs]
  BY EmptyConfigType DEF Init
<1>5. result \in [Callers -> {"none", "ok", "invalid", "backend"}]
  BY DEF Init
<1>6. calls \in [Callers -> 0..MaxCalls]
  BY NotifyConstants DEF Init
<1>. QED  BY <1>1, <1>2, <1>3, <1>4, <1>5, <1>6 DEF TypeOK

LEMMA InvokeType ==
    ASSUME TypeOK, NEW c \in Callers, Invoke(c) PROVE TypeOK'
<1>1. req' \in [Callers -> Requests \cup {NoReq}]
  BY DEF Invoke, TypeOK
<1>2. pc' \in [Callers -> {"idle", "start", "get", "set"}]
  BY DEF Invoke, TypeOK
<1>3. calls' \in [Callers -> 0..MaxCalls]
  BY NotifyConstants DEF Invoke, TypeOK
<1>4. UNCHANGED <<config, mb, result, listed>>
  BY DEF Invoke
<1>. QED  BY <1>1, <1>2, <1>3, <1>4 DEF TypeOK

LEMMA AddStartType ==
    ASSUME TypeOK, NEW c \in Callers, AddStart(c) PROVE TypeOK'
<1>1. CASE ~req[c].bucketOK \/ req[c].arn.form # "ok"
  BY <1>1, ReturnType DEF AddStart, TypeOK
<1>2. CASE ~(~req[c].bucketOK \/ req[c].arn.form # "ok")
  BY <1>2 DEF AddStart, TypeOK
<1>. QED  BY <1>1, <1>2

LEMMA AddGetType ==
    ASSUME TypeOK, NEW c \in Callers, AddGet(c) PROVE TypeOK'
<1>. DEFINE r == req[c]
<1>1. r \in Requests
  BY ReqInRequests DEF AddGet
<1>2. CASE Faults /\ Return(c, "backend")
  BY <1>2, ReturnType DEF AddGet, TypeOK
<1>3. CASE ~(r.events \subseteq {"put", "delete"}) \/ r.arn.svc \notin Kinds
  BY <1>3, ReturnType DEF AddGet, TypeOK
<1>4. CASE /\ r.events \subseteq {"put", "delete"} /\ r.arn.svc \in Kinds
           /\ mb' = [mb EXCEPT ![c] = AddByArn(config, IdOf(r.arn), NewCfg(r))]
           /\ pc' = [pc EXCEPT ![c] = "set"] /\ UNCHANGED result
  <2>1. r.arn \in Arns
    BY <1>1, RequestFacts
  <2>2. AddByArn(config, IdOf(r.arn), NewCfg(r)) \in Configs
    BY <1>1, <1>4, <2>1, KnownArn, NewCfgType, AddByArnType DEF AddGet, TypeOK
  <2>. QED  BY <1>4, <2>2 DEF AddGet, TypeOK
<1>. QED  BY <1>2, <1>3, <1>4 DEF AddGet

LEMMA RemoveStartType ==
    ASSUME TypeOK, NEW c \in Callers, RemoveStart(c) PROVE TypeOK'
<1>1. CASE ~req[c].bucketOK
  BY <1>1, ReturnType DEF RemoveStart, TypeOK
<1>2. CASE req[c].bucketOK /\ req[c].arn = EmptyArn
  BY <1>2, ReturnType, EmptyConfigType DEF RemoveStart, TypeOK
<1>3. CASE req[c].bucketOK /\ req[c].arn # EmptyArn
  BY <1>3 DEF RemoveStart, TypeOK
<1>. QED  BY <1>1, <1>2, <1>3

LEMMA RemoveGetType ==
    ASSUME TypeOK, NEW c \in Callers, RemoveGet(c) PROVE TypeOK'
<1>. DEFINE a == req[c].arn
<1>1. a \in Arns
  BY ReqInRequests, RequestFacts DEF RemoveGet
<1>2. CASE Faults /\ Return(c, "backend")
  BY <1>2, ReturnType DEF RemoveGet, TypeOK
<1>3. CASE a.form # "ok" \/ a.svc \notin Kinds
  BY <1>3, ReturnType DEF RemoveGet, TypeOK
<1>4. CASE /\ a.svc \in Kinds
           /\ mb' = [mb EXCEPT ![c] = RemoveByArn(config, IdOf(a))]
           /\ pc' = [pc EXCEPT ![c] = "set"] /\ UNCHANGED result
  <2>1. RemoveByArn(config, IdOf(a)) \in Configs
    BY <1>1, <1>4, KnownArn, RemoveByArnType DEF TypeOK
  <2>. QED  BY <1>4, <2>1 DEF RemoveGet, TypeOK
<1>. QED  BY <1>2, <1>3, <1>4 DEF RemoveGet

LEMMA SetConfigType ==
    ASSUME TypeOK, NEW c \in Callers, SetConfig(c) PROVE TypeOK'
  BY ReturnType DEF SetConfig, TypeOK

LEMMA ListConfigsType ==
    ASSUME TypeOK, NEW c \in Callers, ListConfigs(c) PROVE TypeOK'
<1>1. req[c].arn \in Arns
  BY ReqInRequests, RequestFacts DEF ListConfigs
<1>2. Matching(config, req[c].arn) \in Configs
  BY <1>1, MatchingType DEF TypeOK
<1>. QED  BY <1>2, ReturnType DEF ListConfigs, TypeOK

LEMMA NextType == TypeOK /\ [Next]_vars => TypeOK'
<1>. SUFFICES ASSUME TypeOK, [Next]_vars PROVE TypeOK'  OBVIOUS
<1>1. CASE UNCHANGED vars
  BY <1>1 DEF vars, TypeOK
<1>. QED  BY <1>1, InvokeType, AddStartType, AddGetType, RemoveStartType,
             RemoveGetType, SetConfigType, ListConfigsType DEF Next, Body

(***************************************************************************)
(* Add, Remove and List, made by any number of callers, keep the bucket's *)
(* configuration and every caller's local copy a map from targets to at  *)
(* most one NotificationConfig each (the SDK's AddTopic, AddQueue,        *)
(* AddLambda and Remove...ByArn called at lines 195-199 and 239-243).     *)
(***************************************************************************)
THEOREM TypeCorrect == Spec => []TypeOK
  BY InitType, NextType, PTL DEF Spec

-----------------------------------------------------------------------------
(***************************************************************************)
(* The refinement of the atomic contract.  A caller is busy in the        *)
(* contract from its entry to its return; both error outcomes are the    *)
(* contract's "error".                                                     *)
(***************************************************************************)
BusyOf == [c \in Callers |-> pc[c] # "idle"]
ResultOf == [c \in Callers |->
               IF result[c] \in {"invalid", "backend"} THEN "error" ELSE result[c]]

Contract == INSTANCE S3NotifyContract WITH busy <- BusyOf, result <- ResultOf

(***************************************************************************)
(* What a caller's progress through a call says of its request and local *)
(* copy: past the entry checks its request is accepted so far, and before *)
(* SetBucketNotification its copy is the contract's effect on the         *)
(* bucket's configuration.  The last holds only while nobody else writes  *)
(* the configuration.                                                      *)
(***************************************************************************)
CallInv(c) ==
    /\ pc[c] # "idle" => req[c] \in Requests
    /\ pc[c] \in {"get", "set"} =>
          /\ req[c].op \in {"add", "remove"} /\ req[c].bucketOK
          /\ req[c].op = "remove" => req[c].arn # EmptyArn
    /\ pc[c] = "get" /\ req[c].op = "add" => req[c].arn.form = "ok"
    /\ pc[c] = "set" =>
          Contract!Valid(req[c]) /\ mb[c] = Contract!Effect(config, req[c])

RInv == TypeOK /\ \A c \in Callers : CallInv(c)

-----------------------------------------------------------------------------
(* Lemmas: the SDK helpers compute the contract's effect. *)

\* The contract's data are the model's.
LEMMA SameData ==
    /\ Contract!EmptyArn = EmptyArn /\ Contract!NoCfg = NoCfg
    /\ Contract!EmptyConfig = EmptyConfig /\ Contract!ValidArns = ValidArns
    /\ Contract!Kinds = Kinds /\ Contract!ArnIds = ArnIds
    /\ \A a : Contract!IdOf(a) = IdOf(a)
  BY DEF Contract!EmptyArn, EmptyArn, Contract!NoCfg, NoCfg,
         Contract!EmptyConfig, EmptyConfig, Contract!ValidArns, ValidArns,
         Contract!Kinds, Kinds, Contract!ArnIds, ArnIds, Contract!IdOf, IdOf,
         Contract!Services, Services

\* Add's copy: AddByArn with the translated event names.
LEMMA AddEffect ==
    ASSUME NEW m \in Configs, NEW r \in Requests, r.op = "add",
           r.arn \in Arns, r.arn.svc \in Kinds, r.events \subseteq {"put", "delete"}
    PROVE  AddByArn(m, IdOf(r.arn), NewCfg(r)) = Contract!Effect(m, r)
<1>1. IdOf(r.arn) \in ArnIds
  BY KnownArn
<1>2. NewCfg(r) = [events |-> {Contract!Kind(e) : e \in r.events},
                   prefix |-> r.prefix]
  BY DEF NewCfg, EventOf, Contract!Kind
<1>3. Contract!Effect(m, r) =
        [m EXCEPT ![IdOf(r.arn)] = IF @ = NoCfg THEN NewCfg(r) ELSE @]
  BY <1>2, SameData DEF Contract!Effect
<1>. QED  BY <1>1, <1>3 DEF AddByArn, Configs

\* Remove's copy for a parsed ARN: RemoveByArn.
LEMMA RemoveEffect ==
    ASSUME NEW m, NEW r, r.op = "remove", r.arn # EmptyArn
    PROVE  RemoveByArn(m, IdOf(r.arn)) = Contract!Effect(m, r)
  BY SameData DEF RemoveByArn, Contract!Effect

\* RemoveAllBucketNotification for the empty ARN.
LEMMA RemoveAllEffect ==
    ASSUME NEW m, NEW r, r.op = "remove", r.arn = EmptyArn
    PROVE  EmptyConfig = Contract!Effect(m, r)
  BY SameData DEF Contract!Effect

\* List changes nothing, and its filter is the contract's selection.
LEMMA ListEffect ==
    ASSUME NEW m, NEW r, r.op = "list"
    PROVE  Contract!Effect(m, r) = m
  BY DEF Contract!Effect

LEMMA MatchingSelected ==
    ASSUME NEW m, NEW a \in Arns
    PROVE  Matching(m, a) = Contract!Selected(m, a)
  BY SameData DEF Matching, Contract!Selected, Arns, ValidArns, MalformedArn, EmptyArn

\* The request sets and the absent request (by Zenon, as RequestFacts).
LEMMA SameRequests == Contract!Requests = Requests /\ Contract!NoReq = NoReq
  BY Zenon DEF Contract!Requests, Requests, Contract!NoReq, NoReq, Contract!Arns, Arns,
               Contract!ValidArns, ValidArns, Contract!MalformedArn, MalformedArn,
               Contract!EmptyArn, EmptyArn, Contract!Services, Services, Contract!Kinds, Kinds

-----------------------------------------------------------------------------
(* The contract's steps that the model's returns are. *)

\* A return with an error is a Complete that fails.
LEMMA CompleteError ==
    ASSUME TypeOK, NEW c \in Callers, pc[c] # "idle",
           ~Contract!Valid(req[c]) \/ Faults,
           NEW res \in {"invalid", "backend"}, Return(c, res),
           UNCHANGED <<config, listed, req, calls>>
    PROVE  Contract!Complete(c)
<1>1. BusyOf[c] /\ BusyOf' = [BusyOf EXCEPT ![c] = FALSE]
  BY DEF Return, BusyOf, TypeOK
<1>2. ResultOf' = [ResultOf EXCEPT ![c] = "error"]
  BY DEF Return, ResultOf, TypeOK
<1>. QED  BY <1>1, <1>2 DEF Contract!Complete

\* A return with success is a Complete that takes effect.
LEMMA CompleteOk ==
    ASSUME TypeOK, NEW c \in Callers, pc[c] # "idle", Contract!Valid(req[c]),
           Return(c, "ok"), config' = Contract!Effect(config, req[c]),
           listed' = IF req[c].op = "list"
                     THEN [listed EXCEPT ![c] = Contract!Selected(config, req[c].arn)]
                     ELSE listed,
           UNCHANGED <<req, calls>>
    PROVE  Contract!Complete(c)
<1>1. BusyOf[c] /\ BusyOf' = [BusyOf EXCEPT ![c] = FALSE]
  BY DEF Return, BusyOf, TypeOK
<1>2. ResultOf' = [ResultOf EXCEPT ![c] = "ok"]
  BY DEF Return, ResultOf, TypeOK
<1>. QED  BY <1>1, <1>2 DEF Contract!Complete

\* A step inside a call that touches no shared state is a stutter.
LEMMA InnerStutter ==
    ASSUME TypeOK, NEW c \in Callers, pc[c] # "idle",
           NEW x \in {"get", "set"}, pc' = [pc EXCEPT ![c] = x],
           UNCHANGED <<config, req, result, listed, calls>>
    PROVE  UNCHANGED Contract!cvars
<1>1. BusyOf' = BusyOf
  BY DEF BusyOf, TypeOK
<1>2. ResultOf' = ResultOf
  BY DEF ResultOf
<1>. QED  BY <1>1, <1>2 DEF Contract!cvars

-----------------------------------------------------------------------------
(* One lemma per action: with the caller c alone, the action keeps its    *)
(* CallInv and is a contract step or a stutter of the contract.           *)

LEMMA InvokeRef ==
    ASSUME TypeOK, NEW c \in Callers, Invoke(c)
    PROVE  CallInv(c)' /\ Contract!Call(c)
<1>1. PICK r \in Requests : req' = [req EXCEPT ![c] = r]
  BY DEF Invoke
<1>2. CallInv(c)'
  BY <1>1 DEF Invoke, CallInv, TypeOK
<1>3. ~BusyOf[c] /\ BusyOf' = [BusyOf EXCEPT ![c] = TRUE]
  BY DEF Invoke, BusyOf, TypeOK
<1>4. ResultOf' = ResultOf
  BY DEF Invoke, ResultOf
<1>5. \E rr \in Contract!Requests : req' = [req EXCEPT ![c] = rr]
  BY <1>1, SameRequests
<1>. QED  BY <1>2, <1>3, <1>4, <1>5 DEF Invoke, Contract!Call

LEMMA AddStartRef ==
    ASSUME TypeOK, NEW c \in Callers, CallInv(c), AddStart(c)
    PROVE  CallInv(c)' /\ [Contract!CNext]_Contract!cvars
<1>. DEFINE r == req[c]
<1>1. r \in Requests
  BY DEF AddStart, CallInv
<1>2. CASE ~r.bucketOK \/ r.arn.form # "ok"
  <2>1. ~Contract!Valid(r)
    BY <1>2, SameData DEF Contract!Valid, ValidArns, AddStart
  <2>2. Contract!Complete(c)
    BY <1>2, <2>1, CompleteError DEF AddStart
  <2>. QED  BY <1>2, <2>2 DEF AddStart, Return, CallInv, Contract!CNext, TypeOK
<1>3. CASE r.bucketOK /\ r.arn.form = "ok"
  <2>1. UNCHANGED Contract!cvars
    BY <1>3, InnerStutter DEF AddStart
  <2>. QED  BY <1>1, <1>3, <2>1 DEF AddStart, CallInv, TypeOK
<1>. QED  BY <1>2, <1>3

LEMMA AddGetRef ==
    ASSUME TypeOK, NEW c \in Callers, CallInv(c), AddGet(c)
    PROVE  CallInv(c)' /\ [Contract!CNext]_Contract!cvars
<1>. DEFINE r == req[c]
<1>1. r \in Requests /\ r.op = "add" /\ r.bucketOK /\ r.arn.form = "ok"
  BY DEF AddGet, CallInv
<1>2. r.arn \in Arns
  BY <1>1, RequestFacts
<1>3. CASE Faults /\ Return(c, "backend")
  <2>1. Contract!Complete(c)
    BY <1>3, CompleteError DEF AddGet
  <2>. QED  BY <1>3, <2>1 DEF Return, CallInv, Contract!CNext, TypeOK
<1>4. CASE ~(Faults /\ Return(c, "backend"))
           /\ (~(r.events \subseteq {"put", "delete"}) \/ r.arn.svc \notin Kinds)
  <2>1. ~Contract!Valid(r)
    BY <1>1, <1>4, SameData DEF Contract!Valid
  <2>2. Return(c, "invalid")
    BY <1>4 DEF AddGet
  <2>3. Contract!Complete(c)
    BY <2>1, <2>2, CompleteError DEF AddGet
  <2>. QED  BY <2>2, <2>3 DEF Return, CallInv, Contract!CNext, TypeOK
<1>5. CASE ~(Faults /\ Return(c, "backend"))
           /\ r.events \subseteq {"put", "delete"} /\ r.arn.svc \in Kinds
  <2>1. /\ mb' = [mb EXCEPT ![c] = AddByArn(config, IdOf(r.arn), NewCfg(r))]
        /\ pc' = [pc EXCEPT ![c] = "set"] /\ UNCHANGED result
    BY <1>5 DEF AddGet
  <2>2. AddByArn(config, IdOf(r.arn), NewCfg(r)) = Contract!Effect(config, r)
    BY <1>1, <1>2, <1>5, AddEffect DEF TypeOK
  <2>3. Contract!Valid(r)
    BY <1>1, <1>2, <1>5, KnownArn, SameData DEF Contract!Valid
  <2>4. CallInv(c)'
    BY <1>1, <2>1, <2>2, <2>3 DEF AddGet, CallInv, TypeOK
  <2>5. UNCHANGED Contract!cvars
    BY <1>1, <2>1, InnerStutter DEF AddGet
  <2>. QED  BY <2>4, <2>5
<1>. QED  BY <1>3, <1>4, <1>5

LEMMA RemoveStartRef ==
    ASSUME TypeOK, NEW c \in Callers, CallInv(c), RemoveStart(c)
    PROVE  CallInv(c)' /\ [Contract!CNext]_Contract!cvars
<1>. DEFINE r == req[c]
<1>1. r \in Requests /\ r.op = "remove"
  BY DEF RemoveStart, CallInv
<1>2. CASE ~r.bucketOK
  <2>1. Contract!Complete(c)
    BY <1>2, CompleteError DEF RemoveStart, Contract!Valid
  <2>. QED  BY <1>2, <2>1 DEF RemoveStart, Return, CallInv, Contract!CNext, TypeOK
<1>3. CASE r.bucketOK /\ r.arn = EmptyArn /\ Faults /\ Return(c, "backend")
           /\ UNCHANGED config
  <2>1. Contract!Complete(c)
    BY <1>3, CompleteError DEF RemoveStart
  <2>. QED  BY <1>3, <2>1 DEF Return, CallInv, Contract!CNext, TypeOK
<1>4. CASE r.bucketOK /\ r.arn = EmptyArn /\ config' = EmptyConfig
           /\ Return(c, "ok")
  <2>1. Contract!Valid(r)
    BY <1>1, <1>4, SameData DEF Contract!Valid
  <2>2. config' = Contract!Effect(config, r)
    BY <1>1, <1>4, RemoveAllEffect
  <2>3. Contract!Complete(c)
    BY <1>1, <1>4, <2>1, <2>2, CompleteOk DEF RemoveStart
  <2>. QED  BY <1>4, <2>3 DEF Return, CallInv, Contract!CNext, TypeOK
<1>5. CASE r.bucketOK /\ r.arn # EmptyArn
  <2>1. pc' = [pc EXCEPT ![c] = "get"] /\ UNCHANGED <<config, result, mb>>
    BY <1>5 DEF RemoveStart
  <2>2. UNCHANGED Contract!cvars
    BY <2>1, InnerStutter DEF RemoveStart
  <2>. QED  BY <1>1, <1>5, <2>1, <2>2 DEF RemoveStart, CallInv, TypeOK
<1>. QED  BY <1>2, <1>3, <1>4, <1>5 DEF RemoveStart

LEMMA RemoveGetRef ==
    ASSUME TypeOK, NEW c \in Callers, CallInv(c), RemoveGet(c)
    PROVE  CallInv(c)' /\ [Contract!CNext]_Contract!cvars
<1>. DEFINE r == req[c]  a == r.arn
<1>1. r \in Requests /\ r.op = "remove" /\ r.bucketOK /\ a # EmptyArn
  BY DEF RemoveGet, CallInv
<1>2. a \in Arns
  BY <1>1, RequestFacts
<1>3. CASE Faults /\ Return(c, "backend")
  <2>1. Contract!Complete(c)
    BY <1>3, CompleteError DEF RemoveGet
  <2>. QED  BY <1>3, <2>1 DEF Return, CallInv, Contract!CNext, TypeOK
<1>4. CASE ~(Faults /\ Return(c, "backend")) /\ (a.form # "ok" \/ a.svc \notin Kinds)
  <2>1. ~Contract!Valid(r)
    BY <1>1, <1>4, SameData DEF Contract!Valid, ValidArns
  <2>2. Return(c, "invalid")
    BY <1>4 DEF RemoveGet
  <2>3. Contract!Complete(c)
    BY <2>1, <2>2, CompleteError DEF RemoveGet
  <2>. QED  BY <2>2, <2>3 DEF Return, CallInv, Contract!CNext, TypeOK
<1>5. CASE ~(Faults /\ Return(c, "backend")) /\ a.form = "ok" /\ a.svc \in Kinds
  <2>1. /\ mb' = [mb EXCEPT ![c] = RemoveByArn(config, IdOf(a))]
        /\ pc' = [pc EXCEPT ![c] = "set"] /\ UNCHANGED result
    BY <1>5 DEF RemoveGet
  <2>2. RemoveByArn(config, IdOf(a)) = Contract!Effect(config, r)
    BY <1>1, RemoveEffect
  <2>3. Contract!Valid(r)
    BY <1>1, <1>2, <1>5, KnownArn, SameData DEF Contract!Valid
  <2>4. CallInv(c)'
    BY <1>1, <2>1, <2>2, <2>3 DEF RemoveGet, CallInv, TypeOK
  <2>5. UNCHANGED Contract!cvars
    BY <2>1, InnerStutter DEF RemoveGet
  <2>. QED  BY <2>4, <2>5
<1>. QED  BY <1>3, <1>4, <1>5

LEMMA SetConfigRef ==
    ASSUME TypeOK, NEW c \in Callers, CallInv(c), SetConfig(c)
    PROVE  CallInv(c)' /\ [Contract!CNext]_Contract!cvars
<1>1. /\ req[c].op \in {"add", "remove"} /\ Contract!Valid(req[c])
      /\ mb[c] = Contract!Effect(config, req[c])
  BY DEF SetConfig, CallInv
<1>2. CASE Faults /\ Return(c, "backend") /\ UNCHANGED config
  <2>1. Contract!Complete(c)
    BY <1>2, CompleteError DEF SetConfig
  <2>. QED  BY <1>2, <2>1 DEF Return, CallInv, Contract!CNext, TypeOK
<1>3. CASE config' = mb[c] /\ Return(c, "ok")
  <2>1. Contract!Complete(c)
    BY <1>1, <1>3, CompleteOk DEF SetConfig
  <2>. QED  BY <1>3, <2>1 DEF Return, CallInv, Contract!CNext, TypeOK
<1>. QED  BY <1>2, <1>3 DEF SetConfig

LEMMA ListConfigsRef ==
    ASSUME TypeOK, NEW c \in Callers, CallInv(c), ListConfigs(c)
    PROVE  CallInv(c)' /\ [Contract!CNext]_Contract!cvars
<1>. DEFINE r == req[c]
<1>1. r \in Requests /\ r.op = "list" /\ r.arn \in Arns
  BY RequestFacts DEF ListConfigs, CallInv
<1>2. CASE ~r.bucketOK
  <2>1. Contract!Complete(c)
    BY <1>2, CompleteError DEF ListConfigs, Contract!Valid
  <2>. QED  BY <1>2, <2>1 DEF ListConfigs, Return, CallInv, Contract!CNext, TypeOK
<1>3. CASE r.bucketOK /\ Faults /\ Return(c, "backend") /\ UNCHANGED listed
  <2>1. Contract!Complete(c)
    BY <1>3, CompleteError DEF ListConfigs
  <2>. QED  BY <1>3, <2>1 DEF Return, CallInv, Contract!CNext, TypeOK
<1>4. CASE r.bucketOK /\ listed' = [listed EXCEPT ![c] = Matching(config, r.arn)]
           /\ Return(c, "ok")
  <2>1. Contract!Valid(r)
    BY <1>1, <1>4 DEF Contract!Valid
  <2>2. config' = Contract!Effect(config, r)
    BY <1>1, ListEffect DEF ListConfigs
  <2>3. listed' = [listed EXCEPT ![c] = Contract!Selected(config, r.arn)]
    BY <1>1, <1>4, MatchingSelected
  <2>4. Contract!Complete(c)
    BY <1>1, <1>4, <2>1, <2>2, <2>3, CompleteOk DEF ListConfigs
  <2>. QED  BY <1>4, <2>4 DEF Return, CallInv, Contract!CNext, TypeOK
<1>. QED  BY <1>2, <1>3, <1>4 DEF ListConfigs

-----------------------------------------------------------------------------
LEMMA RefInit ==
    ASSUME Init PROVE Contract!CInit /\ \A c \in Callers : CallInv(c)
<1>1. BusyOf = [c \in Callers |-> FALSE] /\ ResultOf = [c \in Callers |-> "none"]
  BY DEF Init, BusyOf, ResultOf
<1>2. Contract!CInit
  BY <1>1, SameData, SameRequests DEF Init, Contract!CInit
<1>3. \A c \in Callers : CallInv(c)
  BY DEF Init, CallInv
<1>. QED  BY <1>2, <1>3

LEMMA RefNext ==
    ASSUME NEW c0, Callers = {c0}, TypeOK, CallInv(c0), [Next]_vars
    PROVE  CallInv(c0)' /\ [Contract!CNext]_Contract!cvars
<1>1. CASE UNCHANGED vars
  <2>1. BusyOf' = BusyOf /\ ResultOf' = ResultOf
    BY <1>1 DEF vars, BusyOf, ResultOf
  <2>. QED  BY <1>1, <2>1 DEF vars, CallInv, Contract!cvars
<1>2. CASE Invoke(c0)
  BY <1>2, InvokeRef DEF Contract!CNext
<1>. QED  BY <1>1, <1>2, AddStartRef, AddGetRef, RemoveStartRef, RemoveGetRef,
             SetConfigRef, ListConfigsRef DEF Next, Body

(***************************************************************************)
(* With a single caller, AddNotificationConfig, RemoveNotificationConfig  *)
(* and ListNotificationConfigs (lines 154-338) implement the safety part  *)
(* of the atomic contract for every set of resources, prefixes and event  *)
(* names: each call's read-modify-write takes effect at its return, fails *)
(* only on invalid arguments or a backend error and then changes         *)
(* nothing, and List returns the configurations of its ARN.  With two     *)
(* callers this does not hold (run s3notify_lost_update).                 *)
(***************************************************************************)
THEOREM SingleCallerRefinement ==
    ASSUME NEW c0, Callers = {c0}
    PROVE  Spec => Contract!CInit /\ [][Contract!CNext]_Contract!cvars
<1>. DEFINE Inv == TypeOK /\ CallInv(c0)
<1>1. Init => Inv /\ Contract!CInit
  BY InitType, RefInit
<1>2. Inv /\ [Next]_vars => Inv' /\ [Contract!CNext]_Contract!cvars
  BY NextType, RefNext
<1>. QED  BY <1>1, <1>2, PTL DEF Spec
=============================================================================
