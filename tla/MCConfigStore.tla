------------------------------ MODULE MCConfigStore ------------------------------
(* Instances of ConfigStore for TLC.                                       *)
EXTENDS ConfigStore, TLC

\* Setters that restore memory, with failing saves; setters that do not, with
\* saves that succeed.
StoreMixes == { {"ban", "edit", "refresh", "fail"}, {"stats", "edit", "ban"} }
RefreshMix == { {"refresh"} }
==============================================================================
