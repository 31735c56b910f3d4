---------------------------- MODULE MCPendingSets ----------------------------
(* PendingSets for TLC: three sets, of which two write the same key, and two *)
(* actions.                                                                  *)
EXTENDS PendingSets, TLC

CONSTANTS name, mail, save, send

MCKeys == {name, mail}
MCActions == {save, send}
MCKeyOf == <<name, mail, name>>
=============================================================================
