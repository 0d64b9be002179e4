---------------------------- MODULE MCRTRServer ----------------------------
(***************************************************************************)
(* Two routers, two VRPs, KeepDifference 3 as run() configures it, and up  *)
(* to five installs, so deltas are evicted and a lagging router is sent a  *)
(* Cache Reset.  Serials take three bits and do not wrap within five       *)
(* installs.                                                               *)
(***************************************************************************)
EXTENDS RTRServer, TLC

MCSymmetry == Permutations(Routers) \cup Permutations(VRPs)
=============================================================================
