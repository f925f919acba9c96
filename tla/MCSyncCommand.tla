----------------------------- MODULE MCSyncCommand ----------------------------
(* Two commands, so that a replay can follow a first sync or overlap it, of *)
(* more blocks than a chunk holds.                                          *)
EXTENDS SyncCommand

ASSUME InstanceAssumption == MaxBlock > Chunk /\ MaxCommands >= 2
===============================================================================
