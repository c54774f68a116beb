-------------------------- MODULE ProvenanceStore --------------------------
(***************************************************************************)
(* security/provenance_store.py: processes that append signed decision     *)
(* records to the streams of one SQLite file, each call on a connection of *)
(* its own, with the rollback-journal locks of SQLite that the code relies *)
(* on (external: BEGIN takes no lock, the SELECT takes SHARED and keeps    *)
(* it, the INSERT upgrades to RESERVED or fails at once, the commit takes  *)
(* PENDING, which bars new readers, and waits for the old ones).           *)
(*                                                                         *)
(* A caller reads the head of a stream and signs a record that extends it  *)
(* before it calls append; other appends may come between.  A process may  *)
(* crash anywhere: its locks are freed and the next reader rolls the       *)
(* journal back.                                                           *)
(*                                                                         *)
(* The digest stands for the fields the model keeps of the canonical       *)
(* payload: SHA-256 does not collide.  The stream id is not among them.    *)
(***************************************************************************)
EXTENDS Integers, Sequences, FiniteSets

CONSTANTS Writers,   \* processes with a ProvenanceStore on the same file
          Streams,   \* stream ids
          Ids,       \* decision ids; a caller may use one again
          Signers,   \* keys that records are signed with
          Keys,      \* keys that append is called with
          Genesis,   \* previous_record_digest of a first record
          NoCall     \* a writer with no append under way

VARIABLES rows,   \* the committed rows of decision_provenance_stream
          pc,     \* where each writer's append stands, and so its lock
          call,   \* the record and key each writer calls append with
          head,   \* the head each writer's transaction selected
          acked   \* history: decision ids whose append returned True

vars == <<rows, pc, call, head, acked>>

Digest(r) == <<r.id, r.seq, r.prev>>

RowsOf(s) == {r \in rows : r.stream = s}
Recorded(id) == \E r \in rows : r.id = id

-----------------------------------------------------------------------------
(* Locks of SQLite's rollback journal *)

\* A transaction that has selected holds SHARED until it ends.
Reading(w) == pc[w] \in {"selected", "inserted", "committing"}
\* RESERVED from the INSERT on, PENDING once it commits.
Reserved(w) == pc[w] \in {"inserted", "committing"}
Pending(w) == pc[w] = "committing"

OthersRead(w) == \E v \in Writers \ {w} : Reading(v)
OthersReserve(w) == \E v \in Writers \ {w} : Reserved(v)
ReadersBarred == \E v \in Writers : Pending(v)

-----------------------------------------------------------------------------
(* Records and the checks of append *)

\* ORDER BY stream_sequence DESC LIMIT 1.  A first record must have sequence
\* 1 and link to GENESIS, as if it followed a record of sequence 0.
NoHead == [seq |-> 0, digest |-> Genesis]
HeadOf(s) ==
  IF RowsOf(s) = {} THEN NoHead
  ELSE LET r == CHOOSE q \in RowsOf(s) : \A o \in RowsOf(s) : o.seq <= q.seq
       IN  [seq |-> r.seq, digest |-> Digest(r)]

\* What create refuses to build.
Creatable_AnySequence(seq) == TRUE
Creatable(seq) == seq > 0

\* Records callers sign after reading head h: the one that extends it, and
\* ones with a sequence off by one or a link to no record.
Candidates(h) == {<<h.seq + 1, h.digest>>, <<h.seq, h.digest>>,
                  <<h.seq + 2, h.digest>>, <<h.seq + 1, Genesis>>}

Verifies_Any(c) == TRUE
Verifies(c) == c.row.signer = c.key

Fits_SequenceOnly(r, h) == r.seq = h.seq + 1
Fits(r, h) == /\ r.seq = h.seq + 1
              /\ r.prev = h.digest

\* UNIQUE on decision_id, over all streams, and the primary key.
Violates_PerStream(r) ==
  \E q \in rows : q.stream = r.stream /\ (q.id = r.id \/ q.seq = r.seq)
Violates(r) ==
  \E q \in rows : q.id = r.id \/ (q.stream = r.stream /\ q.seq = r.seq)

-----------------------------------------------------------------------------
(* One append *)

Goto(w, from, to) == /\ pc[w] = from
                     /\ pc' = [pc EXCEPT ![w] = to]

\* append raises, or its process died: nothing of it stays in the file.
End(w) == /\ pc' = [pc EXCEPT ![w] = "idle"]
          /\ call' = [call EXCEPT ![w] = NoCall]
          /\ head' = [head EXCEPT ![w] = NoHead]
          /\ UNCHANGED rows

\* The caller reads the head, signs a record and calls append.
Call(w, s, id, signer, key) ==
  /\ ~ReadersBarred
  /\ Goto(w, "idle", "called")
  /\ \E c \in Candidates(HeadOf(s)) :
       /\ Creatable(c[1])
       /\ call' = [call EXCEPT ![w] =
            [key |-> key,
             row |-> [stream |-> s, id |-> id, seq |-> c[1], prev |-> c[2],
                      signer |-> signer, key |-> key]]]
  /\ UNCHANGED <<rows, head, acked>>

\* verify_signature raises, before any connection is opened.
RejectSignature(w) == /\ pc[w] = "called"
                      /\ ~Verifies(call[w])
                      /\ End(w)
                      /\ UNCHANGED acked

\* BEGIN TRANSACTION and the SELECT of the head.
Select(w) == /\ Goto(w, "called", "selected")
             /\ Verifies(call[w])
             /\ ~ReadersBarred
             /\ head' = [head EXCEPT ![w] = HeadOf(call[w].row.stream)]
             /\ UNCHANGED <<rows, call, acked>>

\* The SELECT waited 10 s for a commit to end.
SelectTimesOut(w) == /\ pc[w] = "called"
                     /\ Verifies(call[w])
                     /\ ReadersBarred
                     /\ End(w)
                     /\ UNCHANGED acked

\* A gap, a stale sequence or a broken link: DecisionProvenanceError.
RejectLink(w) == /\ pc[w] = "selected"
                 /\ ~Fits(call[w].row, head[w])
                 /\ End(w)
                 /\ UNCHANGED acked

\* Another transaction has RESERVED: SQLITE_BUSY at once, since waiting with
\* SHARED in hand could never end.
InsertBusy_Waits(w) == FALSE
InsertBusy(w) == /\ pc[w] = "selected"
                 /\ Fits(call[w].row, head[w])
                 /\ OthersReserve(w)
                 /\ End(w)
                 /\ UNCHANGED acked

\* IntegrityError: the decision id is in the table.
RejectDuplicate(w) == /\ pc[w] = "selected"
                      /\ Fits(call[w].row, head[w])
                      /\ ~OthersReserve(w)
                      /\ Violates(call[w].row)
                      /\ End(w)
                      /\ UNCHANGED acked

Insert(w) == /\ Goto(w, "selected", "inserted")
             /\ Fits(call[w].row, head[w])
             /\ ~OthersReserve(w)
             /\ ~Violates(call[w].row)
             /\ UNCHANGED <<rows, call, head, acked>>

StartCommit(w) == /\ Goto(w, "inserted", "committing")
                  /\ UNCHANGED <<rows, call, head, acked>>

\* The last reader is gone: EXCLUSIVE, and the journal is deleted.
Commit_OverReaders(w) == /\ Goto(w, "committing", "committed")
                         /\ rows' = rows \cup {call[w].row}
                         /\ UNCHANGED <<call, head, acked>>
Commit(w) == /\ ~OthersRead(w)
             /\ Goto(w, "committing", "committed")
             /\ rows' = rows \cup {call[w].row}
             /\ UNCHANGED <<call, head, acked>>

\* A reader stalled for 10 s: commit raises and append rolls back.
CommitTimesOut_Unnoticed(w) == /\ OthersRead(w)
                               /\ Goto(w, "committing", "committed")
                               /\ UNCHANGED <<rows, call, head, acked>>
CommitTimesOut(w) == /\ pc[w] = "committing"
                     /\ OthersRead(w)
                     /\ End(w)
                     /\ UNCHANGED acked

\* append returns True.
Return(w) == /\ pc[w] = "committed"
             /\ End(w)
             /\ acked' = acked \cup {call[w].row.id}

\* The process dies, before or after its commit.
Crash(w) == /\ pc[w] # "idle"
            /\ End(w)
            /\ UNCHANGED acked

-----------------------------------------------------------------------------
Init == /\ rows = {}
        /\ pc = [w \in Writers |-> "idle"]
        /\ call = [w \in Writers |-> NoCall]
        /\ head = [w \in Writers |-> NoHead]
        /\ acked = {}

\* The statements of append, when nothing stalls.
Step(w) == \/ RejectSignature(w) \/ Select(w) \/ SelectTimesOut(w)
           \/ RejectLink(w) \/ InsertBusy(w) \/ RejectDuplicate(w) \/ Insert(w)
           \/ StartCommit(w) \/ Commit(w) \/ Return(w)

Next == \E w \in Writers :
          \/ \E s \in Streams, id \in Ids, signer \in Signers, key \in Keys :
               Call(w, s, id, signer, key)
          \/ Step(w)
          \/ CommitTimesOut(w)
          \/ Crash(w)

\* A process runs its statements.  Nothing forces a call, a crash, or a
\* reader to stall long enough for a commit to time out.
Fairness == \A w \in Writers : WF_vars(Step(w))

Spec == Init /\ [][Next]_vars /\ Fairness
-----------------------------------------------------------------------------
(* Properties *)

Link == {Genesis} \cup {Digest(r) : r \in rows}
Row == [stream : Streams, id : Ids, seq : Nat \ {0}, prev : Link,
        signer : Signers, key : Keys]

\* Every variable holds a value of its type; sequences count from 1, and no
\* record links to a digest that was never stored.
TypeOK ==
  /\ rows \subseteq Row
  /\ pc \in [Writers -> {"idle", "called", "selected", "inserted",
                         "committing", "committed"}]
  /\ call \in [Writers -> {NoCall} \cup [key : Keys, row : Row]]
  /\ \A w \in Writers : pc[w] # "idle" => call[w] \in [key : Keys, row : Row]
  /\ head \in [Writers -> [seq : Nat, digest : Link]]
  /\ acked \subseteq Ids

\* The head a transaction selected is the head of its stream for as long as
\* the transaction lasts, so what its checks compared with still holds when it
\* commits, whatever other appenders do meanwhile.
HeadStable ==
  \A w \in Writers : Reading(w) => head[w] = HeadOf(call[w].row.stream)

\* Every stored record links to the stored record of the sequence before it,
\* and no sequence is taken twice, through concurrent appends and crashes.
ChainIntact ==
  \A r \in rows :
    /\ \A q \in RowsOf(r.stream) : q.seq = r.seq => q = r
    /\ IF r.seq = 1 THEN r.prev = Genesis
       ELSE \E q \in RowsOf(r.stream) : q.seq = r.seq - 1 /\ r.prev = Digest(q)

\* A decision is recorded once in all streams together, also when its caller
\* retries after a crash that hid the outcome.
RecordedOnce == \A q, r \in rows : q.id = r.id => q = r

\* validate_chain, over get_stream_records.
ValidateChain(recs, k) ==
  /\ recs # <<>>
  /\ \A n \in DOMAIN recs :
       /\ recs[n].signer = k
       /\ recs[n].seq = n
       /\ recs[n].prev = IF n = 1 THEN Genesis ELSE Digest(recs[n - 1])
       /\ \A m \in 1..(n - 1) : recs[m].id # recs[n].id

\* get_stream_records: ORDER BY stream_sequence ASC.
Ascending(recs) == \A m, n \in DOMAIN recs : m < n => recs[m].seq < recs[n].seq
StreamRecords(s) == CHOOSE recs \in [1..Cardinality(RowsOf(s)) -> RowsOf(s)] : Ascending(recs)

\* What append lets in under one key, verify_stored_stream accepts under it:
\* the checks of one record against a head add up to those of the whole chain.
StreamsValidate ==
  \A s \in Streams, k \in Keys :
    /\ RowsOf(s) # {}
    /\ \A r \in RowsOf(s) : r.key = k
    => ValidateChain(StreamRecords(s), k)

\* Appenders never wait for each other for good: without any commit timing
\* out, every append returns or raises.
AppendReturns == \A w \in Writers : (pc[w] # "idle") ~> (pc[w] = "idle")

Log == INSTANCE ProvenanceLog WITH log <- [s \in Streams |-> StreamRecords(s)]

\* The store implements the promise of an append-only log.
ImplementsLog == Log!Spec
=============================================================================
