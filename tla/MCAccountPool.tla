----------------------------- MODULE MCAccountPool -----------------------------
(* Instances of AccountPool for TLC.                                       *)
EXTENDS AccountPool, TLC

CONSTANTS a1, a2

\* Two accounts, the first of weight two.
WeightedTwo == <<a1, a1, a2>>

\* Reloads against configuration changes; selections against bans, cooldowns and
\* model lists; selections against refreshes.
PoolMixes ==
  { {"enabled", "overage", "quota", "refresh"},
    {"select", "enabled", "cooldown", "models"},
    {"select", "enabled", "refresh"} }

SelectOnly == { {"select"} }
==============================================================================
