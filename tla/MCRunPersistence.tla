-------------------------- MODULE MCRunPersistence --------------------------
(* Two runs of two results: all well, an error, an id met twice in a run    *)
(* and in both, an answer without scores, one without an id, only errors.   *)
EXTENDS RunPersistence

CONSTANTS a, b

MCIds == {a, b}
Answer(id, scored) == [answered |-> TRUE, id |-> id, scored |-> scored]
MCResultLists == {<<Answer(a, TRUE), Answer(b, TRUE)>>,
                  <<Answer(b, TRUE), NoOutcome>>,
                  <<Answer(a, TRUE), Answer(a, TRUE)>>,
                  <<Answer(a, TRUE), Answer(b, FALSE)>>,
                  <<Answer(NoId, TRUE), Answer(b, TRUE)>>,
                  <<NoOutcome, NoOutcome>>}
\* Ids as providers give them, and one answer the scorer made nothing of.
MCUnscoredList == {<<Answer(a, TRUE), Answer(b, FALSE)>>}
=============================================================================
