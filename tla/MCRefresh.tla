----------------------------- MODULE MCRefresh -----------------------------
(***************************************************************************)
(* Model values for Refresh: two v4/v6 VRPs, an invalid entry and a        *)
(* duplicate; two good cache documents, one that does not decode and one   *)
(* without "roas"; a filtering and an asserting SLURM file and one that    *)
(* does not decode.                                                        *)
(***************************************************************************)
EXTENDS Refresh, TLC

MCPrefixes == {"p4", "p6"}
MCPrefixLen == [p \in MCPrefixes |-> IF p = "p4" THEN 24 ELSE 32]
MCPrefixWidth == [p \in MCPrefixes |-> IF p = "p4" THEN 32 ELSE 128]
MCPrefixIsV4 == [p \in MCPrefixes |-> p = "p4"]
MCMaxLens == {16, 24, 32, 48}

A == [prefix |-> "p4", asn |-> 1, maxlen |-> 24]
B == [prefix |-> "p6", asn |-> 2, maxlen |-> 48]
C == [prefix |-> "p4", asn |-> 1, maxlen |-> 16]   \* maxLength below the network length
E == [prefix |-> "p6", asn |-> 1, maxlen |-> 32]

MCDocs == {"d1", "d2", "dbad", "dnil"}
MCDocDecodes == [d \in MCDocs |-> d # "dbad"]
MCDocRoas == [d \in MCDocs |-> CASE d = "d1" -> <<A, B>>
                                 [] d = "d2" -> <<A, A, C>>
                                 [] OTHER    -> NoRoas]
MCSlurmDocs == {"s1", "s2", "sbad"}
MCSlurmDecodes == [s \in MCSlurmDocs |-> s # "sbad"]
MCSlurmConf == [s \in MCSlurmDocs |-> IF s = "s1" THEN [filter |-> {B}, assert |-> <<>>]
                                      ELSE [filter |-> {}, assert |-> <<E>>]]
=============================================================================
