------------------------------ MODULE DurableStore ------------------------------
(***************************************************************************)
(* What config/config.go promises of the configuration, whatever it does   *)
(* with locks and files: readers see a value that is on disk, a new one    *)
(* is stored before they see it, and a restart finds what they saw or a    *)
(* value stored since.                                                     *)
(***************************************************************************)
CONSTANTS
  Values,  \* configurations
  None     \* nothing readable

VARIABLES
  stored,    \* what a start would read from the primary file now
  possible,  \* what it may read after a power loss
  view       \* what readers of the running process see

vars == <<stored, possible, view>>

Init ==
  /\ stored \in Values \cup {None}
  /\ possible = {stored}
  /\ view = None

\* A complete new file replaces the old one.
Store(v) ==
  /\ stored' = v
  /\ possible' = possible \cup {v}
  /\ UNCHANGED view

\* The new file is on disk, whatever happens next.
Sync ==
  /\ possible' = {stored}
  /\ UNCHANGED <<stored, view>>

\* Readers see what is stored, and a power loss cannot take it from them.
Show ==
  /\ stored \in Values
  /\ possible' = {stored}
  /\ view' = stored
  /\ UNCHANGED stored

\* The process is killed, or the machine loses power.
Stop ==
  /\ stored' \in possible
  /\ possible' = {stored'}
  /\ view' = None

\* Something else writes the file.
Damage ==
  /\ stored' = None
  /\ possible' = {None}
  /\ UNCHANGED view

Next == (\E v \in Values : Store(v)) \/ Sync \/ Show \/ Stop \/ Damage

Spec == Init /\ [][Next]_vars
==============================================================================
