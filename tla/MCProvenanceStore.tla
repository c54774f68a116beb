------------------------- MODULE MCProvenanceStore -------------------------
(* Two processes, two streams and two decision ids: two records in a      *)
(* stream, an id met again in the other stream, and a retry.                *)
EXTENDS ProvenanceStore
=============================================================================
