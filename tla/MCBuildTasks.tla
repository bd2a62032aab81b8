----------------------------- MODULE MCBuildTasks -----------------------------
(* Instances of BuildTasks for TLC.                                          *)
EXTENDS BuildTasks

\* The first configuration, one with another mapping and one with other keys.
MCFirstConfig == [mapping |-> 0, keys |-> 0]
MCConfigs == {MCFirstConfig, [mapping |-> 1, keys |-> 0], [mapping |-> 0, keys |-> 1]}
===============================================================================
