---------------------------- MODULE MCOperations ----------------------------
EXTENDS Operations

CONSTANTS b1, b2, f1, f2, r1, r2

\* Prices go up, down and to nothing, and rows of two models part.
MCLists == {[r \in {r1, r2} |-> 5], [r \in {r1, r2} |-> IF r = r1 THEN 7 ELSE 5],
            [r \in {r1, r2} |-> IF r = r1 THEN 0 ELSE 3]}

Held(id) == [id |-> id, passed |-> TRUE]
GaveIn(id) == [id |-> id, passed |-> FALSE]

MCReports ==
  {Report(TRUE, age, 2, 2, 0, 100, <<Held("c1"), Held("c2")>>) : age \in {"fresh", "stale", "future"}}
  \cup {Report(FALSE, "fresh", 2, 2, 0, 100, <<Held("c1"), Held("c2")>>),
        [Report(TRUE, "fresh", 2, 2, 0, 100, <<>>) EXCEPT !.present = FALSE]}
  \cup {Report(TRUE, "fresh", 2, p, 2 - p, s, cases) :
          p \in 1..2, s \in {NaN, 50, 100},
          cases \in {<<Held("c1"), GaveIn("c2")>>, <<Held("c1"), Held("c1")>>,
                    <<Held("c1"), NotAnObject>>, <<Held("c1")>>}}
=============================================================================
