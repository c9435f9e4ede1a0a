------------------------- MODULE MCCredentialRefresh -------------------------
(* Instances of CredentialRefresh for TLC.                                 *)
EXTENDS CredentialRefresh, TLC

\* Orderly restarts with a disk that works; a failing disk without a restart.
ManagedMixes == { {"stop"}, {"diskFails"} }
AnythingMix  == { {"forced", "diskFails", "lossyIdp", "stop", "abrupt"} }
ForcedMix    == { {"forced", "stop"} }
FlushMix     == { {"diskFails", "stop"} }

CallerSymmetry == Permutations(Callers)
==============================================================================
