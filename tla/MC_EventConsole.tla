---------------------------- MODULE MC_EventConsole ----------------------------
(* Two issues and two scopes of telemetry, and a panel of everything or of *)
(* one of them.                                                             *)
EXTENDS EventConsole

CONSTANTS issue1, issue2, progress, error

MCFilter == {Scope, {progress}}
=============================================================================
