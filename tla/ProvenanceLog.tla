--------------------------- MODULE ProvenanceLog ---------------------------
(***************************************************************************)
(* What the provenance store promises: per stream a list that only grows,  *)
(* each entry linked to the one before it by its digest, each decision id  *)
(* recorded once in all streams together, and an acknowledgement only for  *)
(* an entry that is in a list, and so stays there.                         *)
(***************************************************************************)
EXTENDS Integers, Sequences

CONSTANTS Streams,   \* stream ids
          Ids,       \* decision ids
          Keys,      \* signing keys
          Genesis    \* previous_record_digest of a first entry

VARIABLES log,    \* the entries of each stream, in order
          acked   \* decision ids whose caller was told they are stored

vars == <<log, acked>>

Digest(r) == <<r.id, r.seq, r.prev>>

Recorded(id) == \E s \in Streams : \E n \in DOMAIN log[s] : log[s][n].id = id

Entry(s, id, key) ==
  [stream |-> s, id |-> id, signer |-> key, key |-> key,
   seq |-> Len(log[s]) + 1,
   prev |-> IF log[s] = <<>> THEN Genesis ELSE Digest(log[s][Len(log[s])])]

Init == /\ log = [s \in Streams |-> <<>>]
        /\ acked = {}

AppendEntry(s, id, key) == /\ ~Recorded(id)
                           /\ log' = [log EXCEPT ![s] = Append(@, Entry(s, id, key))]
                           /\ UNCHANGED acked

Acknowledge(id) == /\ Recorded(id)
                   /\ acked' = acked \cup {id}
                   /\ UNCHANGED log

Next == \E id \in Ids : \/ Acknowledge(id)
                        \/ \E s \in Streams, key \in Keys : AppendEntry(s, id, key)

Spec == Init /\ [][Next]_vars
=============================================================================
