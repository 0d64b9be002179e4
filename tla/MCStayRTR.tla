----------------------------- MODULE MCStayRTR -----------------------------
(***************************************************************************)
(* Model values for StayRTR: the VRPs and documents of MCRefresh, a        *)
(* SLURM file that filters B and asserts E, and a bound on how often the   *)
(* upstream changes so that the install bound of the history is never      *)
(* what stops the refresh loop.                                            *)
(***************************************************************************)
EXTENDS StayRTR, TLC

MCPrefixes == {"p4", "p6"}
MCPrefixLen == [p \in MCPrefixes |-> IF p = "p4" THEN 24 ELSE 32]
MCPrefixWidth == [p \in MCPrefixes |-> IF p = "p4" THEN 32 ELSE 128]
MCPrefixIsV4 == [p \in MCPrefixes |-> p = "p4"]
MCMaxLens == {16, 24, 32, 48}

A == [prefix |-> "p4", asn |-> 1, maxlen |-> 24]
B == [prefix |-> "p6", asn |-> 2, maxlen |-> 48]
C == [prefix |-> "p4", asn |-> 1, maxlen |-> 16]   \* maxLength below the network length
E == [prefix |-> "p6", asn |-> 1, maxlen |-> 32]

MCDocs == {"d1", "d2", "dnil"}
MCDocDecodes == [d \in MCDocs |-> TRUE]
MCDocRoas == [d \in MCDocs |-> CASE d = "d1" -> <<A, B>>
                                 [] d = "d2" -> <<A, A, C>>
                                 [] OTHER    -> NoRoas]
MCSlurmDocs == {"s1", "sbad"}
MCSlurmDecodes == [s \in MCSlurmDocs |-> s # "sbad"]
MCSlurmConf == [s \in MCSlurmDocs |-> [filter |-> {B}, assert |-> <<E>>]]

\* An IPv4-mapped IPv6 prefix, ::ffff:10.0.0.0/120: width 128, and To4()
\* is not nil.  Document d1 carries a VRP for it in the _Mapped values.
MCPrefixesMapped == MCPrefixes \cup {"pm"}
MCPrefixLenMapped == [p \in MCPrefixesMapped |-> IF p = "pm" THEN 120 ELSE MCPrefixLen[p]]
MCPrefixWidthMapped == [p \in MCPrefixesMapped |-> IF p = "pm" THEN 128 ELSE MCPrefixWidth[p]]
MCPrefixIsV4Mapped == [p \in MCPrefixesMapped |-> p \in {"p4", "pm"}]
MCMaxLensMapped == MCMaxLens \cup {128}
M == [prefix |-> "pm", asn |-> 1, maxlen |-> 128]
MCDocRoasMapped == [d \in MCDocs |-> IF d = "d1" THEN <<A, B, M>> ELSE MCDocRoas[d]]

\* Every install needs a change of document or SLURM config, plus the two
\* of startup (with and without SLURM).
ASSUME MaxInstalls >= MaxEnvChanges + 2
=============================================================================
