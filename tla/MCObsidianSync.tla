--------------------------- MODULE MCObsidianSync ---------------------------
(* An instance of ObsidianSync for TLC.                                    *)
EXTENDS ObsidianSync, TLC

CONSTANTS a, b, pass, t1
=============================================================================
