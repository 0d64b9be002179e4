---------------------------- MODULE MCVRPIngest ----------------------------
(***************************************************************************)
(* Checks processData and isValidPrefixLength against a reference written  *)
(* from the VRP invariant of the data model: every list of up to           *)
(* MaxInput decoded entries is an initial state.                           *)
(***************************************************************************)
EXTENDS VRPIngest, TLC

CONSTANT MaxInput   \* longest vrplistjson checked

\* A v4 /24, a v6 /32 and a v4 /0 (rejected: zero network length).
MCPrefixes == {"p4", "p6", "p0"}
MCPrefixLen == [p \in MCPrefixes |-> CASE p = "p4" -> 24 [] p = "p6" -> 32 [] OTHER -> 0]
MCPrefixWidth == [p \in MCPrefixes |-> IF p = "p6" THEN 128 ELSE 32]
MCPrefixIsV4 == [p \in MCPrefixes |-> p # "p6"]
\* maxLength one below and at the v4 network length, at and one past the v4 width.
MCMaxLens == {23, 24, 32, 33}
\* and a number that does not fit the uint8 maxLength field.
MCMaxLensWide == MCMaxLens \cup {256}

VARIABLE input
vars == <<input>>

Init == input \in BoundedSeq(VRPJson, MaxInput)
Next == UNCHANGED input
Spec == Init /\ [][Next]_vars

-----------------------------------------------------------------------------
(* Reference definitions, from the data model: a VRP is kept iff prefix    *)
(* and ASN parse and 0 < network length <= max_length <= family width;     *)
(* the output holds each kept identity triple once, at its first position; *)
(* the counts count kept entries before deduplication.                      *)
RefValid(v) == WellFormedVRP(VRPKey(v))

RefFirst(s) == {i \in 1..Len(s) : RefValid(s[i]) /\
                    \A j \in 1..(i - 1) : ~(RefValid(s[j]) /\ VRPKey(s[j]) = VRPKey(s[i]))}

RefVRPs(s) == LET idx == SetToSortSeq(RefFirst(s), <)
              IN  [k \in 1..Len(idx) |-> VRPKey(s[idx[k]])]

RefCount(s, v4) == Cardinality({i \in 1..Len(s) : RefValid(s[i]) /\ PrefixIsV4[s[i].prefix] = v4})

(* processData (stayrtr.go) returns exactly the valid VRPs, each identity  *)
(* once and in first-occurrence order, with raw (pre-dedup) per-family     *)
(* counts: validation, counting and deduplication agree on every input.    *)
ProcessDataMatchesReference ==
    processData(input) = [vrplist |-> RefVRPs(input),
                          count   |-> RefCount(input, TRUE) + RefCount(input, FALSE),
                          countv4 |-> RefCount(input, TRUE),
                          countv6 |-> RefCount(input, FALSE)]

(* The refresh pipeline drops an entry with an invalid max_length and      *)
(* serves the document's other valid entries (spec 4.E, step 5):          *)
(* decodeJSON and processData together keep exactly the valid entries.     *)
IngestKeepsValidEntries ==
    LET d == decodeJSON(input)
    IN  (IF d.err THEN <<>> ELSE processData(d.data).vrplist) = RefVRPs(input)
=============================================================================
