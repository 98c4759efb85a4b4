-------------------------- MODULE MCRefreshWindow ---------------------------
(* Two records; the clock, diffTime and commit lag are set by each cfg.  *)
EXTENDS RefreshWindow

CONSTANTS k1, k2

MCKeys == {k1, k2}

=============================================================================
