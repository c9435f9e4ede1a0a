-------------------------------- MODULE OnePart --------------------------------
(***************************************************************************)
(* Components that share no state are composed by taking one of them in a  *)
(* behaviour: the variables of the others are unused.                      *)
(***************************************************************************)
CONSTANT Parts  \* the components that may be taken

VARIABLE part

On(p)  == part = p
Unused == "unused"
================================================================================
