----------------------------- MODULE MC_EventCache -----------------------------
(* An issue and two scopes of telemetry.                                    *)
EXTENDS EventCache

CONSTANTS issue1, progress, error
=============================================================================
