--------------------------- MODULE S3Factory_proofs ---------------------------
(***************************************************************************)
(* Proofs about the client factory (S3Factory) for every set of          *)
(* configurations and every bound: New keeps its state well typed, and   *)
(* it never builds two minio clients for one host name and one pair of   *)
(* keys.  Nothing is assumed of the hash: the argument is that every      *)
(* client built is cached under the hash of its own host and keys, so a  *)
(* second configuration with that host and those keys hits.               *)
(***************************************************************************)
EXTENDS S3Factory, SequenceTheorems, TLAPS

\* The cache key of a built client, from its host name and keys.
KeyOf(cl) == FNV32a(cl.host \o cl.access \o cl.secret)

\* Every client built is cached under its own key.
CacheIndexed ==
    \A i \in 1..Len(clients) :
        KeyOf(clients[i]) \in DOMAIN cache /\ cache[KeyOf(clients[i])] = i

IInv == TypeOK /\ CacheIndexed

-----------------------------------------------------------------------------
\* The client a miss builds is well typed.
LEMMA NewClientType ==
    ASSUME NEW cfg \in ConfigSet
    PROVE  NewClient(cfg) \in Clients
<1>1. HostName(cfg) \in Seq(Bytes)
  BY FactoryAssumption DEF HostName
<1>2. (IF cfg.debug /\ cfg.signature \in {"S3v4", "S3v2"}
       THEN cfg.signature ELSE "none") \in {"S3v4", "S3v2", "none"}
  OBVIOUS
<1>. QED  BY <1>1, <1>2, FactoryAssumption DEF NewClient, Clients

\* It is cached under the key New computed for its configuration.
LEMMA NewClientKey ==
    ASSUME NEW cfg \in ConfigSet
    PROVE  KeyOf(NewClient(cfg)) = ConfKey(cfg)
  BY DEF KeyOf, NewClient, ConfKey

-----------------------------------------------------------------------------
\* The invariant holds initially.
LEMMA InitIInv == Init => IInv
<1>. SUFFICES ASSUME Init PROVE IInv  OBVIOUS
<1>1. TypeOK
  BY FactoryAssumption DEF Init, TypeOK
<1>2. CacheIndexed
  BY DEF Init, CacheIndexed
<1>. QED  BY <1>1, <1>2 DEF IInv

\* A call of New that hits the cache keeps the invariant.
LEMMA HitIInv ==
    ASSUME IInv, NEW cfg \in ConfigSet,
           calls < MaxNew, calls' = calls + 1,
           ConfKey(cfg) \in DOMAIN cache,
           clients' = [clients EXCEPT ![cache[ConfKey(cfg)]].app = cfg.app],
           handles' = Append(handles, [cfg |-> cfg, api |-> cache[ConfKey(cfg)]]),
           UNCHANGED <<cache, failed>>
    PROVE  IInv'
<1> DEFINE k == ConfKey(cfg)  n == cache[k]
<1>1. n \in 1..Len(clients) /\ clients \in Seq(Clients)
  BY DEF IInv, TypeOK
<1>2. clients'[n] = [clients[n] EXCEPT !.app = cfg.app]
  BY <1>1
<1>3. clients'[n] \in Clients
  <2>1. cfg.app \in {c.app : c \in ConfigSet}
    OBVIOUS
  <2>2. clients[n] \in Clients
    BY <1>1
  <2>3. clients'[n] = [host |-> clients[n].host, access |-> clients[n].access,
                       secret |-> clients[n].secret, secure |-> clients[n].secure,
                       sigV2 |-> clients[n].sigV2, insecure |-> clients[n].insecure,
                       trace |-> clients[n].trace, app |-> cfg.app]
    BY <1>2, <2>2 DEF Clients
  <2>. QED  BY <2>1, <2>2, <2>3 DEF Clients
<1>4. clients' \in Seq(Clients) /\ Len(clients') = Len(clients)
  BY <1>1, <1>3
<1>5. \A i \in 1..Len(clients) : KeyOf(clients'[i]) = KeyOf(clients[i])
  BY <1>1, <1>2 DEF KeyOf, Clients
<1>6. TypeOK'
  <2>1. handles' \in Seq([cfg: ConfigSet, api: Nat \ {0}])
    BY <1>1 DEF IInv, TypeOK
  <2>2. \A i \in 1..Len(handles') : handles'[i].api <= Len(clients')
    BY <1>1, <1>4 DEF IInv, TypeOK
  <2>. QED  BY <1>1, <1>4, <2>1, <2>2, FactoryAssumption DEF IInv, TypeOK
<1>7. CacheIndexed'
  BY <1>4, <1>5 DEF IInv, CacheIndexed
<1>. QED  BY <1>6, <1>7 DEF IInv

\* A call of New that misses and builds a client keeps the invariant.
LEMMA MissIInv ==
    ASSUME IInv, NEW cfg \in ConfigSet,
           calls < MaxNew, calls' = calls + 1,
           ConfKey(cfg) \notin DOMAIN cache,
           clients' = Append(clients, NewClient(cfg)),
           cache' = [x \in DOMAIN cache \cup {ConfKey(cfg)} |->
                       IF x = ConfKey(cfg) THEN Len(clients) + 1 ELSE cache[x]],
           handles' = Append(handles, [cfg |-> cfg, api |-> Len(clients) + 1]),
           UNCHANGED failed
    PROVE  IInv'
<1> DEFINE k == ConfKey(cfg)
<1>1. clients \in Seq(Clients) /\ NewClient(cfg) \in Clients
  BY NewClientType DEF IInv, TypeOK
<1>2. clients' \in Seq(Clients) /\ Len(clients') = Len(clients) + 1
  BY <1>1, AppendProperties
<1>3. \A i \in 1..Len(clients) : clients'[i] = clients[i]
  BY <1>1, AppendProperties
<1>4. clients'[Len(clients) + 1] = NewClient(cfg)
  BY <1>1, AppendProperties
<1>0. /\ DOMAIN cache' = DOMAIN cache \cup {k}
      /\ cache'[k] = Len(clients) + 1
      /\ \A x \in DOMAIN cache : cache'[x] = cache[x]
  OBVIOUS
<1>5. TypeOK'
  <2>1. handles' \in Seq([cfg: ConfigSet, api: Nat \ {0}])
    BY AppendProperties DEF IInv, TypeOK
  <2>2. \A i \in 1..Len(handles') : handles'[i].api <= Len(clients')
    <3>1. handles \in Seq([cfg: ConfigSet, api: Nat \ {0}])
      BY DEF IInv, TypeOK
    <3>2. Len(handles') = Len(handles) + 1
          /\ \A i \in 1..Len(handles) : handles'[i] = handles[i]
          /\ handles'[Len(handles) + 1].api = Len(clients) + 1
      BY <3>1, AppendProperties
    <3>3. \A i \in 1..Len(handles) : handles[i].api <= Len(clients)
      BY DEF IInv, TypeOK
    <3>4. Len(clients) \in Nat /\ Len(handles) \in Nat
      BY <1>1, <3>1
    <3>. SUFFICES ASSUME NEW i \in 1..Len(handles')
                  PROVE  handles'[i].api <= Len(clients')
      OBVIOUS
    <3>5. CASE i \in 1..Len(handles)
      <4>1. handles[i] \in [cfg: ConfigSet, api: Nat \ {0}]
        BY <3>1, <3>5, ElementOfSeq
      <4>2. handles[i].api \in Nat /\ handles[i].api <= Len(clients)
        BY <3>3, <3>5, <4>1
      <4>. QED  BY <1>2, <3>2, <3>4, <3>5, <4>2
    <3>6. CASE i = Len(handles) + 1
      BY <1>2, <3>2, <3>4, <3>6
    <3>. QED  BY <3>2, <3>4, <3>5, <3>6
  <2>3. DOMAIN cache' \subseteq {ConfKey(c) : c \in ConfigSet}
    BY <1>0 DEF IInv, TypeOK
  <2>4. \A x \in DOMAIN cache' : cache'[x] \in 1..Len(clients')
    BY <1>0, <1>1, <1>2 DEF IInv, TypeOK
  <2>. QED  BY <1>2, <2>1, <2>2, <2>3, <2>4, FactoryAssumption DEF IInv, TypeOK
<1>6. ASSUME NEW i \in 1..Len(clients)
      PROVE  KeyOf(clients'[i]) \in DOMAIN cache' /\ cache'[KeyOf(clients'[i])] = i
  <2>1. KeyOf(clients[i]) \in DOMAIN cache /\ cache[KeyOf(clients[i])] = i
    BY DEF IInv, CacheIndexed
  <2>2. KeyOf(clients[i]) # k
    BY <2>1
  <2>. QED  BY <1>0, <1>3, <2>1, <2>2
<1>7. KeyOf(clients'[Len(clients) + 1]) = k
  BY <1>4, NewClientKey
<1>8. CacheIndexed'
  <2>. SUFFICES ASSUME NEW i \in 1..Len(clients')
                PROVE  KeyOf(clients'[i]) \in DOMAIN cache' /\ cache'[KeyOf(clients'[i])] = i
    BY DEF CacheIndexed
  <2>1. CASE i \in 1..Len(clients)
    BY <1>6, <2>1
  <2>2. CASE i = Len(clients) + 1
    BY <1>0, <1>7, <2>2
  <2>. QED  BY <1>1, <1>2, <2>1, <2>2
<1>. QED  BY <1>5, <1>8 DEF IInv

\* The invariant is inductive.
LEMMA NextIInv == IInv /\ [Next]_vars => IInv'
<1>. SUFFICES ASSUME IInv, [Next]_vars PROVE IInv'  OBVIOUS
<1>1. CASE UNCHANGED vars
  BY <1>1 DEF vars, IInv, TypeOK, CacheIndexed, KeyOf
<1>2. CASE Next
  <2>1. PICK cfg \in ConfigSet : New(cfg)
    BY <1>2 DEF Next
  <2>2. CASE ConfKey(cfg) \in DOMAIN cache
    BY <2>1, <2>2, HitIInv DEF New
  <2>3. CASE ConfKey(cfg) \notin DOMAIN cache /\ ~cfg.host.valid
    <3>1. failed' = failed + 1 /\ UNCHANGED <<clients, cache, handles>>
          /\ calls < MaxNew /\ calls' = calls + 1
      BY <2>1, <2>3 DEF New
    <3>. QED  BY <3>1, FactoryAssumption DEF IInv, TypeOK, CacheIndexed, KeyOf
  <2>4. CASE ConfKey(cfg) \notin DOMAIN cache /\ cfg.host.valid
    BY <2>1, <2>4, MissIInv DEF New
  <2>. QED  BY <2>2, <2>3, <2>4
<1>. QED  BY <1>1, <1>2

-----------------------------------------------------------------------------
(***************************************************************************)
(* New keeps its state well typed: the cache maps keys New computed to    *)
(* clients it built, and every handle holds one of them.                  *)
(***************************************************************************)
THEOREM TypeCorrect == Spec => []TypeOK
<1>1. IInv => TypeOK  BY DEF IInv
<1>. QED  BY InitIInv, NextIInv, <1>1, PTL DEF Spec

(***************************************************************************)
(* Spec 5: the factory never builds a second minio client for a host name *)
(* and keys it has built one for (the hash at line 93 of the rewritten    *)
(* host and the lookup at 102 under the mutex), for every configuration  *)
(* set.                                                                   *)
(***************************************************************************)
THEOREM NoDuplicate == Spec => []NoDuplicateClient
<1>1. IInv => NoDuplicateClient
  <2>. SUFFICES ASSUME IInv, NEW i \in 1..Len(clients), NEW j \in 1..Len(clients),
                       i # j,
                       << clients[i].host, clients[i].access, clients[i].secret >>
                       = << clients[j].host, clients[j].access, clients[j].secret >>
                PROVE  FALSE
    BY DEF NoDuplicateClient
  <2>1. KeyOf(clients[i]) = KeyOf(clients[j])
    BY DEF KeyOf
  <2>. QED  BY <2>1 DEF IInv, CacheIndexed
<1>. QED  BY InitIInv, NextIInv, <1>1, PTL DEF Spec

=============================================================================
