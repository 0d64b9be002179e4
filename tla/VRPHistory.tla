----------------------------- MODULE VRPHistory -----------------------------
(***************************************************************************)
(* The RTR library's VRP set manager (spec 4.B), driven by the AddVRPs     *)
(* call of updateFromNewState and created by run() with KeepDifference 3:  *)
(* the current set, its serial (modulo SerialSpace), and the last K deltas *)
(* between consecutive serials.  A delta records the serial it starts      *)
(* from and the VRPs it announces and withdraws.                           *)
(***************************************************************************)
EXTENDS Naturals, Sequences, SequencesExt

CONSTANTS VRPs,          \* VRP identities (prefix, asn, maxLength)
          K,             \* deltas retained: ServerConfiguration.KeepDifference
          SerialSpace,   \* 2^32 in the library; smaller here
          MaxInstalls,   \* bound on the installs of a behaviour
          Reset          \* diff_since's ResetRequired

ASSUME HistoryAssumption ==
    /\ K \in Nat \ {0} /\ SerialSpace \in Nat \ {0}
    /\ MaxInstalls \in Nat /\ MaxInstalls < SerialSpace

VARIABLES current, serial, deltas, installs

historyVars == <<current, serial, deltas, installs>>

Serials == 0 .. SerialSpace - 1
NoDelta == [ann |-> {}, wd |-> {}]
Delta == [from : Serials, ann : SUBSET VRPs, wd : SUBSET VRPs]

HistoryTypeOK ==
    /\ current \subseteq VRPs /\ serial \in Serials
    /\ Len(deltas) <= K /\ ToSet(deltas) \subseteq Delta /\ installs \in 0 .. MaxInstalls

HistoryInit ==
    /\ current = {} /\ serial = 0 /\ deltas = <<>> /\ installs = 0

\* Fault: one delta too many kept.
EvictOffByOne(ds) == IF Len(ds) > K + 1 THEN Tail(ds) ELSE ds

\* Keep only the newest K deltas.
Evict(ds) == IF Len(ds) > K THEN Tail(ds) ELSE ds

\* install(newSet): a no-op when the set is unchanged; otherwise the next
\* serial, the delta from the previous set, and eviction beyond K.
AddVRPs(new) ==
    IF new = current
    THEN UNCHANGED historyVars
    ELSE /\ installs < MaxInstalls
         /\ current' = new
         /\ serial' = (serial + 1) % SerialSpace
         /\ deltas' = Evict(Append(deltas, [from |-> serial, ann |-> new \ current,
                                            wd |-> current \ new]))
         /\ installs' = installs + 1

\* Fault: deltas concatenated without compaction.
ComposeNoCompaction(acc, d) == [ann |-> acc.ann \cup d.ann, wd |-> acc.wd \cup d.wd]

\* Concatenating two deltas, compacted: a VRP announced then withdrawn (or
\* withdrawn then announced) within the walk cancels out.
Compose(acc, d) ==
    [ann |-> (acc.ann \ d.wd) \cup (d.ann \ acc.wd),
     wd  |-> (acc.wd \ d.ann) \cup (d.wd \ acc.ann)]

\* diff_since(client_serial): nothing for the current serial, the compacted
\* walk from the delta that starts at the client's serial, else Reset.
DiffSince(cs) ==
    IF cs = serial THEN NoDelta
    ELSE IF \E i \in DOMAIN deltas : deltas[i].from = cs
         THEN LET i == CHOOSE j \in DOMAIN deltas : deltas[j].from = cs
              IN  FoldLeft(Compose, NoDelta, SubSeq(deltas, i, Len(deltas)))
         ELSE Reset

=============================================================================
