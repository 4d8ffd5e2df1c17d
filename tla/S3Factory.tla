------------------------------ MODULE S3Factory ------------------------------
(***************************************************************************)
(* The client factory of cmd/client-s3.go: newFactory returns New, which  *)
(* every caller of s3New uses.  New hashes the host name (rewritten for   *)
(* virtual-host style Amazon and Google URLs), the access key and the     *)
(* secret key with FNV-1a, and under one mutex looks the hash up in a     *)
(* process-wide cache of minio clients, building and caching one on a     *)
(* miss; it then sets the caller's application info on the client it got *)
(* and wraps it in a new s3Client handle.  Everything before the lock    *)
(* works on the caller's own values and everything after it up to the    *)
(* return is under the lock, so one New is one step.                      *)
(*                                                                         *)
(* Strings are byte sequences, so that the concatenation and the hash are *)
(* computed as the code computes them.  A host is its name with what the *)
(* glob matches of isAmazon and isGoogle say of it, and whether the SDK   *)
(* accepts it as an endpoint (NewV2 and NewV4 fail otherwise).            *)
(***************************************************************************)
EXTENDS Naturals, Sequences

CONSTANTS
    ConfigSet,       \* the *Config values callers pass to New
    AmazonHostName,  \* the bytes of "s3.amazonaws.com"
    GoogleHostName,  \* the bytes of "storage.googleapis.com"
    MaxNew           \* calls of New

Bytes == 0..255

ASSUME FactoryAssumption ==
    /\ AmazonHostName \in Seq(Bytes) /\ GoogleHostName \in Seq(Bytes)
    /\ MaxNew \in Nat
    /\ \A cfg \in ConfigSet :
          /\ cfg.host.name \in Seq(Bytes) /\ cfg.host.valid \in BOOLEAN
          /\ cfg.access \in Seq(Bytes) /\ cfg.secret \in Seq(Bytes)
          /\ cfg.insecure \in BOOLEAN /\ cfg.debug \in BOOLEAN

VARIABLES
    clients,   \* the minio clients New has built, in order (their identity)
    cache,     \* clientCache: hash -> index in clients
    handles,   \* the s3Client handles New has returned: config and client
    calls,     \* calls of New made
    failed     \* calls that returned an error

vars == <<clients, cache, handles, calls, failed>>

(***************************************************************************)
(* FNV-1a 32 (hash/fnv New32a, Write, Sum32): offset basis 0x811C9DC5,    *)
(* for each byte xor it into the low byte and multiply by 0x01000193      *)
(* modulo 2^32.  The 32-bit state is kept as its two 16-bit halves; the   *)
(* product is computed by halves (0x01000193 = 256 * 2^16 + 403).         *)
(***************************************************************************)
FNVBasis == <<33052, 40389>>
Bit(x, i) == (x \div 2^i) % 2
XorByte(x, b) ==
    LET t(i) == 2^i * ((Bit(x, i) + Bit(b, i)) % 2)
    IN  x - (x % 256) + t(0) + t(1) + t(2) + t(3) + t(4) + t(5) + t(6) + t(7)
FNVStep(h, b) ==
    LET lo == XorByte(h[2], b)
        p == lo * 403
    IN  << (h[1] * 403 + lo * 256 + p \div 65536) % 65536, p % 65536 >>
FNV32a(s) ==
    LET f[i \in 0..Len(s)] == IF i = 0 THEN FNVBasis ELSE FNVStep(f[i - 1], s[i])
    IN  f[Len(s)]

\* The host name New connects to and hashes: a virtual-host style Amazon
\* or Google host is replaced by the provider's endpoint.
HostName(cfg) ==
    IF cfg.host.style = "amazon" THEN AmazonHostName
    ELSE IF cfg.host.style = "google" THEN GoogleHostName
    ELSE cfg.host.name

\* Mutant of ConfKey: the hash is taken of the host before the rewrite.
ConfKeyRawHost(cfg) == FNV32a(cfg.host.name \o cfg.access \o cfg.secret)

\* confHash.Write([]byte(hostName + config.AccessKey + config.SecretKey))
ConfKey(cfg) == FNV32a(HostName(cfg) \o cfg.access \o cfg.secret)

(***************************************************************************)
(* The minio client a miss builds: NewV2 when the signature is S3V2 in    *)
(* any case, NewV4 otherwise, secure unless the scheme is http; then its  *)
(* transport: TLS verification off for Insecure, and for Debug a trace of *)
(* the signature, but only when it is spelled exactly S3v4 or S3v2.       *)
(***************************************************************************)
Upper(sig) == CASE sig \in {"S3v2", "s3v2", "S3V2"} -> "S3V2" [] OTHER -> "OTHER"

\* Mutant of NewClient: Debug traces whatever the signature is spelled.
NewClientTraceAny(cfg) ==
    [host |-> HostName(cfg), access |-> cfg.access, secret |-> cfg.secret,
     secure |-> cfg.scheme # "http",
     sigV2 |-> Upper(cfg.signature) = "S3V2",
     insecure |-> cfg.insecure,
     trace |-> IF cfg.debug THEN cfg.signature ELSE "none",
     app |-> cfg.app]

NewClient(cfg) ==
    [host |-> HostName(cfg), access |-> cfg.access, secret |-> cfg.secret,
     secure |-> cfg.scheme # "http",
     sigV2 |-> Upper(cfg.signature) = "S3V2",
     insecure |-> cfg.insecure,
     trace |-> IF cfg.debug /\ cfg.signature \in {"S3v4", "S3v2"}
               THEN cfg.signature ELSE "none",
     app |-> cfg.app]

Clients == [host: Seq(Bytes), access: Seq(Bytes), secret: Seq(Bytes),
            secure: BOOLEAN, sigV2: BOOLEAN, insecure: BOOLEAN,
            trace: {"S3v4", "S3v2", "none"}, app: {c.app : c \in ConfigSet}]

TypeOK ==
    /\ clients \in Seq(Clients)
    /\ DOMAIN cache \subseteq {ConfKey(cfg) : cfg \in ConfigSet}
    /\ \A k \in DOMAIN cache : cache[k] \in 1..Len(clients)
    /\ handles \in Seq([cfg: ConfigSet, api: Nat \ {0}])
    /\ \A i \in 1..Len(handles) : handles[i].api <= Len(clients)
    /\ calls \in 0..MaxNew /\ failed \in 0..calls

Init ==
    /\ clients = <<>>
    /\ cache = [k \in {} |-> 0]
    /\ handles = <<>>
    /\ calls = 0 /\ failed = 0

(***************************************************************************)
(* New(cfg): a hit reuses the cached client; a miss builds one, and       *)
(* returns the SDK's error before caching anything if the endpoint is     *)
(* refused.  Either way the caller's app name and version are then set   *)
(* on the client (SetAppInfo), shared by every handle that holds it.      *)
(***************************************************************************)
New(cfg) ==
    LET k == ConfKey(cfg) IN
    /\ calls < MaxNew
    /\ calls' = calls + 1
    /\ \/ /\ k \in DOMAIN cache
          /\ clients' = [clients EXCEPT ![cache[k]].app = cfg.app]
          /\ handles' = Append(handles, [cfg |-> cfg, api |-> cache[k]])
          /\ UNCHANGED <<cache, failed>>
       \/ /\ k \notin DOMAIN cache /\ ~cfg.host.valid
          /\ failed' = failed + 1
          /\ UNCHANGED <<clients, cache, handles>>
       \/ /\ k \notin DOMAIN cache /\ cfg.host.valid
          /\ clients' = Append(clients, NewClient(cfg))
          /\ cache' = [x \in DOMAIN cache \cup {k} |->
                         IF x = k THEN Len(clients) + 1 ELSE cache[x]]
          /\ handles' = Append(handles, [cfg |-> cfg, api |-> Len(clients) + 1])
          /\ UNCHANGED failed

Next == \E cfg \in ConfigSet : New(cfg)

Spec == Init /\ [][Next]_vars

-----------------------------------------------------------------------------
\* The endpoint and credentials a configuration asks for.
Target(cfg) == <<HostName(cfg), cfg.access, cfg.secret>>

(***************************************************************************)
(* Spec 5: the factory caches handles keyed by target host and           *)
(* credentials to avoid building a backend client twice.  No two clients  *)
(* New has built are for the same host name and credentials (the         *)
(* rewrite of virtual-host names at lines 80-89 before the hash at 93).   *)
(***************************************************************************)
NoDuplicateClient ==
    \A i, j \in 1..Len(clients) :
        i # j => << clients[i].host, clients[i].access, clients[i].secret >>
                 # << clients[j].host, clients[j].access, clients[j].secret >>

(***************************************************************************)
(* Spec 9: getOrCreate(hostKey, credentials) returns a handle for that    *)
(* host and those credentials.  Every handle New returned holds a client  *)
(* built for its configuration's host name, access key and secret key.   *)
(***************************************************************************)
ClientForCredentials ==
    \A i \in 1..Len(handles) :
        LET cl == clients[handles[i].api]
        IN  << cl.host, cl.access, cl.secret >> = Target(handles[i].cfg)
=============================================================================
