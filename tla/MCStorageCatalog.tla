--------------------------- MODULE MCStorageCatalog ---------------------------
(* Two calls in the daemon, which recovers when it starts, and one in a      *)
(* helper process, which does not.  A behaviour is followed up to the state  *)
(* in which a second kind of incident happens.                               *)
EXTENDS StorageCatalog

CONSTANTS d1, d2, h1, daemon, helper

MaxIncidents == 1

Isolated == Cardinality(incidents) <= MaxIncidents

MCHome == [t \in Tasks |-> IF t = h1 THEN helper ELSE daemon]

=============================================================================
