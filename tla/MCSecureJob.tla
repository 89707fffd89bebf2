---------------------------- MODULE MCSecureJob -----------------------------
(* Security printing for TLC: three users, one of them final authority and  *)
(* acting under a delegation, two material lines, two production runs.      *)
EXTENDS SecureJob, TLC

CONSTANTS ann, bob, max, paper, foil

MCUsers == {ann, bob, max}
MCRequirements == {paper, foil}
MCRequired == paper :> 1 @@ foil :> 2
Symmetry == Permutations({ann, bob})
=============================================================================
