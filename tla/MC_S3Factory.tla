---------------------------- MODULE MC_S3Factory ----------------------------
(***************************************************************************)
(* S3Factory on the configurations of a few hosts: two virtual-host style *)
(* Amazon buckets (one endpoint after the rewrite), a Google bucket, a    *)
(* plain host and one the SDK refuses; two pairs of keys whose            *)
(* concatenations are equal ("a" + "bc" and "ab" + "c"); two application  *)
(* names; and variants of the scheme, signature, Insecure and Debug.      *)
(* Three calls of New cover a miss, a hit, a failed miss and a hit after  *)
(* a different configuration.                                            *)
(***************************************************************************)
EXTENDS S3Factory, TLC

MCAmazonHostName == <<115, 51, 46, 97, 109, 97, 122, 111, 110, 97, 119, 115, 46, 99, 111, 109>>
MCGoogleHostName == <<115, 116, 111, 114, 97, 103, 101, 46, 103, 111, 111, 103, 108, 101, 97, 112, 105, 115, 46, 99, 111, 109>>

MCHosts ==
    { [name |-> <<98, 49, 46, 115, 51, 46, 97, 109, 97, 122, 111, 110, 97, 119, 115, 46, 99, 111, 109>>, style |-> "amazon", valid |-> TRUE],
      [name |-> <<98, 50, 46, 115, 51, 46, 97, 109, 97, 122, 111, 110, 97, 119, 115, 46, 99, 111, 109>>, style |-> "amazon", valid |-> TRUE],
      [name |-> <<98, 49, 46, 115, 116, 111, 114, 97, 103, 101, 46, 103, 111, 111, 103, 108, 101, 97, 112, 105, 115, 46, 99, 111, 109>>, style |-> "google", valid |-> TRUE],
      [name |-> <<112, 108, 97, 121, 46, 109, 105, 110, 46, 105, 111>>, style |-> "none", valid |-> TRUE],
      [name |-> <<98, 97, 100, 32, 104, 111, 115, 116>>, style |-> "none", valid |-> FALSE] }

\* Access and secret keys: "a", "bc" and "ab", "c".
MCKeys == { <<<<97>>, <<98, 99>>>>, <<<<97, 98>>, <<99>>>> }

Base(h, k, app) ==
    [scheme |-> "https", host |-> h, access |-> k[1], secret |-> k[2],
     signature |-> "S3v4", insecure |-> FALSE, debug |-> FALSE, app |-> app]

MCConfigSet ==
    { Base(h, k, app) : h \in MCHosts, k \in MCKeys, app \in {"a1", "a2"} }
    \cup { [Base(h, k, "a1") EXCEPT !.scheme = "http", !.signature = "s3v2",
                                    !.debug = TRUE] : h \in MCHosts, k \in MCKeys }
    \cup { [Base(h, k, "a1") EXCEPT !.signature = "S3v2", !.insecure = TRUE,
                                    !.debug = TRUE] : h \in MCHosts, k \in MCKeys }

\* Test vectors of FNV-1a 32: "a" is 0xE40C292C, "foobar" 0xBF9CF968.
ASSUME FNV32a(<<97>>) = <<58380, 10540>> /\ FNV32a(<<102, 111, 111, 98, 97, 114>>) = <<49052, 63848>>
=============================================================================
