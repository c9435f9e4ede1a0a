-------------------------------- MODULE Filter --------------------------------
(***************************************************************************)
(* What a loop with a continue in it leaves of a list.                     *)
(***************************************************************************)
EXTENDS Naturals, Sequences, SequencesExt

\* The elements of s that are in S, in order.
Kept(s, S) == FlattenSeq([k \in DOMAIN s |-> IF s[k] \in S THEN <<s[k]>> ELSE <<>>])
==============================================================================
