----------------------------- MODULE VRPIngest -----------------------------
(***************************************************************************)
(* The pure functions of cmd/stayrtr/stayrtr.go that turn a decoded VRP   *)
(* JSON list into the VRPs handed to the RTR server:                       *)
(*   isValidPrefixLength  - the prefix length / maxLength check,           *)
(*   processData          - parse, validate, count and deduplicate,        *)
(* and the SLURM step of updateFromNewState (filter, then append the       *)
(* assertions).  A raw JSON entry is a record whose prefix and ASN are     *)
(* either a parsed value or the marker of a parse error.                   *)
(***************************************************************************)
EXTENDS Integers, Sequences, SequencesExt, FiniteSets

CONSTANTS
    IPPrefixes,     \* parsed prefixes (canonical net.IPNet values)
    PrefixLen,    \* [IPPrefixes -> Nat]: network length, net.IPMask.Size first result
    PrefixWidth,  \* [IPPrefixes -> Nat]: mask width, 32 or 128 (second result)
    PrefixIsV4,   \* [IPPrefixes -> BOOLEAN]: prefix.IP.To4() != nil
    ASNs,         \* parsed origin AS numbers
    MaxLens,      \* maxLength numbers a JSON entry may carry
    BadPrefix,    \* marker: GetPrefix2 returns an error
    BadASN        \* marker: GetASN2 returns an error

ASSUME IngestAssumption ==
    /\ \A p \in IPPrefixes : PrefixWidth[p] \in {32, 128} /\ PrefixLen[p] \in 0..PrefixWidth[p]
    /\ MaxLens \subseteq Nat
    /\ BadPrefix \notin IPPrefixes /\ BadASN \notin ASNs

\* A prefixfile.VRPJson as decoded from the JSON document.
VRPJson == [prefix : IPPrefixes \cup {BadPrefix}, asn : ASNs \cup {BadASN}, maxlen : MaxLens]

\* The deduplication key "%s,%d,%d" of (prefix, asn, maxLength): the
\* formatting is injective on parsed values, so the key is the triple.
VRPKey(v) == <<v.prefix, v.asn, v.maxlen>>

\* A well-formed VRP identity, as the data model states it: parsed prefix
\* and ASN, 0 < network length <= max_length <= family width.
WellFormedVRP(k) ==
    /\ k[1] \in IPPrefixes /\ k[2] \in ASNs
    /\ 0 < PrefixLen[k[1]]
    /\ PrefixLen[k[1]] <= k[3]
    /\ k[3] <= PrefixWidth[k[1]]

\* decodeJSON: json.Decoder into prefixfile.VRPList, whose maxLength field
\* is a uint8; a number outside 0..255 is an UnmarshalTypeError, which
\* Decode returns for the whole document.
decodeJSON(roas) == [data |-> roas,
                     err  |-> \E i \in DOMAIN roas : roas[i].maxlen \notin 0..255]

-----------------------------------------------------------------------------
(* isValidPrefixLength: plen == 0 || plen > maxLength || maxLength > max   *)
(* rejects the entry.                                                      *)
\* Fault: a maxLength equal to the network length rejected.
isValidPrefixLengthStrict(prefix, maxLength) ==
    LET plen == PrefixLen[prefix]
        max  == PrefixWidth[prefix]
    IN  ~(plen = 0 \/ plen >= maxLength \/ maxLength > max)

isValidPrefixLength(prefix, maxLength) ==
    LET plen == PrefixLen[prefix]
        max  == PrefixWidth[prefix]
    IN  ~(plen = 0 \/ plen > maxLength \/ maxLength > max)

\* The three early `continue`s of the loop in processData.
Accepted(v) ==
    /\ v.prefix # BadPrefix
    /\ v.asn # BadASN
    /\ isValidPrefixLength(v.prefix, v.maxlen)

\* Fault: the isValidPrefixLength check dropped from the loop.
ProcessDataStepNoLengthCheck(acc, v) ==
    IF v.prefix = BadPrefix \/ v.asn = BadASN THEN acc
    ELSE LET counted == IF PrefixIsV4[v.prefix]
                        THEN [acc EXCEPT !.countv4 = @ + 1]
                        ELSE [acc EXCEPT !.countv6 = @ + 1]
         IN  IF VRPKey(v) \in acc.seen THEN counted
             ELSE [counted EXCEPT !.seen = @ \cup {VRPKey(v)},
                                  !.vrplist = Append(@, VRPKey(v))]

(* One iteration of the loop of processData over an accumulator holding    *)
(* filterDuplicates (seen), vrplist and the two family counters.  The     *)
(* counters are incremented before the duplicate check.                    *)
ProcessDataStep(acc, v) ==
    IF ~Accepted(v) THEN acc
    ELSE LET counted == IF PrefixIsV4[v.prefix]
                        THEN [acc EXCEPT !.countv4 = @ + 1]
                        ELSE [acc EXCEPT !.countv6 = @ + 1]
         IN  IF VRPKey(v) \in acc.seen THEN counted
             ELSE [counted EXCEPT !.seen = @ \cup {VRPKey(v)},
                                  !.vrplist = Append(@, VRPKey(v))]

\* processData: the deduplicated VRP list and the (total, v4, v6) counts.
\* loop[i] is the state after the first i iterations of the range loop.
processData(vrplistjson) ==
    LET loop[i \in 0..Len(vrplistjson)] ==
            IF i = 0 THEN [seen |-> {}, vrplist |-> <<>>, countv4 |-> 0, countv6 |-> 0]
            ELSE ProcessDataStep(loop[i - 1], vrplistjson[i])
        acc == loop[Len(vrplistjson)]
    IN  [vrplist |-> acc.vrplist, count |-> acc.countv4 + acc.countv6,
         countv4 |-> acc.countv4, countv6 |-> acc.countv6]

-----------------------------------------------------------------------------
(* SLURM (prefixfile.SlurmConfig, not part of this repository): a config   *)
(* is modelled by the set of entries its prefix filters match and the      *)
(* sequence of entries its assertions produce.                              *)
FilterOnVRPs(vrps, filtered) == SelectSeq(vrps, LAMBDA v : v \notin filtered)

\* updateFromNewState: vrpsjson = append(kept, asserted...) when s.slurm != nil.
ApplySlurm(vrps, slurm) == FilterOnVRPs(vrps, slurm.filter) \o slurm.assert
=============================================================================
