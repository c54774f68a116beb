----------------------- MODULE ProvenanceStore_proofs -----------------------
(***************************************************************************)
(* Why the stored chains stay intact, for any number of processes,         *)
(* streams, decisions and keys.                                            *)
(*                                                                         *)
(* A commit waits for every other reader, so it cannot change a head that  *)
(* another transaction has selected (HeadStable).  Hence what a            *)
(* transaction checked at its INSERT (Checked) still holds when it         *)
(* commits, and the row it adds is a new last row (LastRowExists), linked  *)
(* to the last row before it.                                              *)
(***************************************************************************)
EXTENDS ProvenanceStore, FiniteSetTheorems, SumTheorems, TLAPS

LastRowExists ==
  \A s \in Streams :
    RowsOf(s) # {} => \E q \in RowsOf(s) : \A o \in RowsOf(s) : o.seq <= q.seq

Checked ==
  \A w \in Writers : Reserved(w) => /\ Fits(call[w].row, head[w])
                                    /\ ~Violates(call[w].row)

StoreInv == /\ TypeOK
            /\ ChainIntact
            /\ RecordedOnce
            /\ LastRowExists
            /\ HeadStable
            /\ Checked

\* The head is that of no row or that of the last one.
LEMMA HeadCases ==
  ASSUME NEW s \in Streams, LastRowExists
  PROVE  \/ RowsOf(s) = {} /\ HeadOf(s) = NoHead
         \/ \E q \in RowsOf(s) : /\ HeadOf(s) = [seq |-> q.seq, digest |-> Digest(q)]
                                 /\ \A o \in RowsOf(s) : o.seq <= q.seq
<1>1. CASE RowsOf(s) = {}
  BY <1>1 DEF HeadOf
<1>2. CASE RowsOf(s) # {}
  <2> DEFINE last == CHOOSE q \in RowsOf(s) : \A o \in RowsOf(s) : o.seq <= q.seq
  <2>1. last \in RowsOf(s) /\ \A o \in RowsOf(s) : o.seq <= last.seq
    BY <1>2 DEF LastRowExists
  <2>2. HeadOf(s) = [seq |-> last.seq, digest |-> Digest(last)]
    BY <1>2 DEF HeadOf
  <2> HIDE DEF last
  <2> QED BY <2>1, <2>2
<1> QED BY <1>1, <1>2

LEMMA HeadTyped ==
  ASSUME NEW s \in Streams, LastRowExists, TypeOK
  PROVE  HeadOf(s) \in [seq : Nat, digest : Link]
<1>1. CASE RowsOf(s) = {} /\ HeadOf(s) = NoHead
  BY <1>1 DEF NoHead, Link
<1>2. ASSUME NEW q \in RowsOf(s), HeadOf(s) = [seq |-> q.seq, digest |-> Digest(q)]
      PROVE  HeadOf(s) \in [seq : Nat, digest : Link]
  <2>1. q \in rows /\ q.seq \in Nat
    BY DEF RowsOf, TypeOK, Row
  <2> QED BY <1>2, <2>1 DEF Link
<1> QED BY <1>1, <1>2, HeadCases

\* The heart of the argument: a row that fits the head and violates no
\* constraint of the table extends the chain of its stream.
LEMMA RowExtendsChain ==
  ASSUME NEW r, r.stream \in Streams, r \in Row,
         TypeOK, ChainIntact, RecordedOnce, LastRowExists,
         Fits(r, HeadOf(r.stream)), ~Violates(r), rows' = rows \cup {r}
  PROVE  ChainIntact' /\ RecordedOnce' /\ LastRowExists'
<1>t. /\ \A q \in rows : q.seq \in Nat \ {0}
      /\ r.seq \in Nat \ {0}
  BY DEF TypeOK, Row
<1>n. \A q \in rows : q.id # r.id /\ (q.stream = r.stream => q.seq # r.seq)
  BY DEF Violates
<1>f. r.seq = HeadOf(r.stream).seq + 1 /\ r.prev = HeadOf(r.stream).digest
  BY DEF Fits
<1>1. \/ RowsOf(r.stream) = {} /\ r.seq = 1 /\ r.prev = Genesis
      \/ \E q \in RowsOf(r.stream) : /\ r.seq = q.seq + 1 /\ r.prev = Digest(q)
                                     /\ \A o \in RowsOf(r.stream) : o.seq <= q.seq
  <2>1. CASE RowsOf(r.stream) = {} /\ HeadOf(r.stream) = NoHead
    BY <1>f, <2>1 DEF NoHead
  <2>2. ASSUME NEW q \in RowsOf(r.stream),
               HeadOf(r.stream) = [seq |-> q.seq, digest |-> Digest(q)],
               \A o \in RowsOf(r.stream) : o.seq <= q.seq
        PROVE  /\ r.seq = q.seq + 1 /\ r.prev = Digest(q)
               /\ \A o \in RowsOf(r.stream) : o.seq <= q.seq
    BY <1>f, <2>2
  <2> QED BY <2>1, <2>2, HeadCases
<1>2. \A s : RowsOf(s)' = IF s = r.stream THEN RowsOf(s) \cup {r} ELSE RowsOf(s)
  BY DEF RowsOf
<1>3. RecordedOnce'
  BY <1>n DEF RecordedOnce
<1>4. LastRowExists'
  <2> SUFFICES ASSUME NEW s \in Streams, RowsOf(s)' # {}
               PROVE  \E q \in RowsOf(s)' : \A o \in RowsOf(s)' : o.seq <= q.seq
    BY DEF LastRowExists
  <2>1. CASE s = r.stream
    <3>1. \A o \in RowsOf(s) : o.seq <= r.seq
      BY <1>1, <1>t, <2>1 DEF RowsOf
    <3> QED BY <1>2, <1>t, <2>1, <3>1
  <2>2. CASE s # r.stream
    BY <1>2, <2>2 DEF LastRowExists
  <2> QED BY <2>1, <2>2
<1>5. ChainIntact'
  <2> DEFINE Linked(x, R) == IF x.seq = 1 THEN x.prev = Genesis
                             ELSE \E q \in R : q.seq = x.seq - 1 /\ x.prev = Digest(q)
  <2>1. ASSUME NEW x \in rows
        PROVE  /\ \A q \in RowsOf(x.stream)' : q.seq = x.seq => q = x
               /\ Linked(x, RowsOf(x.stream)')
    <3>1. \A q \in RowsOf(x.stream) : q.seq = x.seq => q = x
      BY DEF ChainIntact
    <3>2. Linked(x, RowsOf(x.stream))
      BY DEF ChainIntact
    <3>3. x.stream = r.stream => x.seq # r.seq
      BY <1>n
    <3> QED BY <1>2, <3>1, <3>2, <3>3
  <2>2. \A q \in RowsOf(r.stream)' : q.seq = r.seq => q = r
    BY <1>2, <1>n DEF RowsOf
  <2>3. Linked(r, RowsOf(r.stream)')
    <3>1. CASE RowsOf(r.stream) = {} /\ r.seq = 1 /\ r.prev = Genesis
      BY <3>1
    <3>2. ASSUME NEW q \in RowsOf(r.stream), r.seq = q.seq + 1, r.prev = Digest(q)
          PROVE  Linked(r, RowsOf(r.stream)')
      <4>1. q.seq \in Nat \ {0} /\ q.seq = r.seq - 1 /\ r.seq # 1
        BY <1>t, <3>2 DEF RowsOf
      <4> QED BY <1>2, <3>2, <4>1
    <3> QED BY <1>1, <3>1, <3>2
  <2>4. \A x \in rows' : /\ \A q \in RowsOf(x.stream)' : q.seq = x.seq => q = x
                         /\ Linked(x, RowsOf(x.stream)')
    BY <2>1, <2>2, <2>3
  <2>5. \A x : Digest(x)' = Digest(x)
    BY DEF Digest
  <2> QED BY <2>4 DEF ChainIntact, RowsOf, Digest
<1> QED BY <1>3, <1>4, <1>5

-----------------------------------------------------------------------------
(* Steps that leave the table alone *)

LEMMA SameRows ==
  ASSUME UNCHANGED rows
  PROVE  /\ Link' = Link /\ Row' = Row
         /\ \A s : RowsOf(s)' = RowsOf(s) /\ HeadOf(s)' = HeadOf(s)
         /\ \A r : Violates(r)' = Violates(r)
         /\ ChainIntact => ChainIntact'
         /\ RecordedOnce => RecordedOnce'
         /\ LastRowExists => LastRowExists'
<1>1. Link' = Link
  BY DEF Link, Digest
<1>2. Row' = Row
  BY <1>1 DEF Row
<1>3. \A s : RowsOf(s)' = RowsOf(s)
  BY DEF RowsOf
<1>4. \A s : HeadOf(s)' = HeadOf(s)
  BY <1>3 DEF HeadOf, NoHead, Digest
<1>5. \A r : Violates(r)' = Violates(r)
  BY DEF Violates
<1>6. ChainIntact => ChainIntact'
  BY <1>3 DEF ChainIntact, Digest
<1>7. RecordedOnce => RecordedOnce'
  BY DEF RecordedOnce
<1>8. LastRowExists => LastRowExists'
  BY <1>3 DEF LastRowExists
<1> QED BY <1>1, <1>2, <1>3, <1>4, <1>5, <1>6, <1>7, <1>8

\* What HeadStable and Checked say of one writer.
Sound(w) ==
  /\ Reading(w) => head[w] = HeadOf(call[w].row.stream)
  /\ Reserved(w) => Fits(call[w].row, head[w]) /\ ~Violates(call[w].row)

LEMMA SoundWriters ==
  (\A w \in Writers : Sound(w)) <=> HeadStable /\ Checked
BY DEF Sound, HeadStable, Checked

LEMMA SoundWritersPrimed ==
  (\A w \in Writers : Sound(w)') <=> HeadStable' /\ Checked'
BY DEF Sound, HeadStable, Checked

\* Another writer's step that leaves the table alone leaves w sound.
LEMMA OthersStaySound ==
  ASSUME NEW w \in Writers, Sound(w), UNCHANGED rows,
         pc'[w] = pc[w], call'[w] = call[w], head'[w] = head[w]
  PROVE  Sound(w)'
<1>1. Reading(w)' = Reading(w) /\ Reserved(w)' = Reserved(w)
  BY DEF Reading, Reserved
<1>2. \A r, h : Fits(r, h)' = Fits(r, h)
  BY DEF Fits
<1> QED BY <1>1, <1>2, SameRows DEF Sound, Fits

\* A step of one writer that leaves the table alone keeps the invariant if it
\* keeps the types and leaves that writer sound.
LEMMA StepOffTheTable ==
  ASSUME StoreInv, NEW w \in Writers, UNCHANGED rows,
         \A v \in Writers \ {w} : /\ pc'[v] = pc[v]
                                  /\ call'[v] = call[v]
                                  /\ head'[v] = head[v],
         TypeOK', Sound(w)'
  PROVE  StoreInv'
<1>1. \A v \in Writers : Sound(v)
  BY SoundWriters DEF StoreInv
<1>2. \A v \in Writers \ {w} : Sound(v)'
  BY <1>1, OthersStaySound
<1>3. HeadStable' /\ Checked'
  BY <1>2, SoundWritersPrimed
<1> QED BY <1>3, SameRows DEF StoreInv

LEMMA EndKeepsInv ==
  ASSUME StoreInv, NEW w \in Writers, End(w), acked' \subseteq Ids
  PROVE  StoreInv'
<1>1. /\ pc \in [Writers -> {"idle", "called", "selected", "inserted", "committing", "committed"}]
      /\ call \in [Writers -> {NoCall} \cup [key : Keys, row : Row]]
      /\ head \in [Writers -> [seq : Nat, digest : Link]]
      /\ rows \subseteq Row
      /\ \A v \in Writers : pc[v] # "idle" => call[v] \in [key : Keys, row : Row]
  BY DEF StoreInv, TypeOK
<1>2. /\ pc' = [pc EXCEPT ![w] = "idle"]
      /\ call' = [call EXCEPT ![w] = NoCall]
      /\ head' = [head EXCEPT ![w] = NoHead]
      /\ UNCHANGED rows
  BY DEF End
<1>3. NoHead \in [seq : Nat, digest : Link]
  BY DEF NoHead, Link
<1>4. TypeOK'
  <2>1. Link' = Link /\ Row' = Row
    BY <1>2, SameRows
  <2>2. \A v \in Writers : pc'[v] # "idle" => call'[v] \in [key : Keys, row : Row]
    BY <1>1, <1>2
  <2> QED BY <1>1, <1>2, <1>3, <2>1, <2>2 DEF TypeOK
<1>5. Sound(w)'
  BY <1>1, <1>2 DEF Sound, Reading, Reserved
<1>6. \A v \in Writers \ {w} : /\ pc'[v] = pc[v]
                               /\ call'[v] = call[v]
                               /\ head'[v] = head[v]
  BY <1>1, <1>2
<1> QED BY <1>2, <1>4, <1>5, <1>6, StepOffTheTable

LEMMA CallKeepsInv ==
  ASSUME StoreInv, NEW w \in Writers, NEW s \in Streams, NEW id \in Ids,
         NEW signer \in Signers, NEW key \in Keys, Call(w, s, id, signer, key)
  PROVE  StoreInv'
<1>1. PICK c \in Candidates(HeadOf(s)) :
         /\ Creatable(c[1])
         /\ call' = [call EXCEPT ![w] =
              [key |-> key,
               row |-> [stream |-> s, id |-> id, seq |-> c[1], prev |-> c[2],
                        signer |-> signer, key |-> key]]]
  BY DEF Call
<1>2. /\ pc[w] = "idle" /\ pc' = [pc EXCEPT ![w] = "called"]
      /\ UNCHANGED <<rows, head, acked>>
  BY DEF Call, Goto
<1>t. /\ pc \in [Writers -> {"idle", "called", "selected", "inserted", "committing", "committed"}]
      /\ call \in [Writers -> {NoCall} \cup [key : Keys, row : Row]]
      /\ \A v \in Writers : pc[v] # "idle" => call[v] \in [key : Keys, row : Row]
      /\ TypeOK /\ LastRowExists
  BY DEF StoreInv, TypeOK
<1>3. c[1] \in Nat \ {0} /\ c[2] \in Link
  <2>1. HeadOf(s).seq \in Nat /\ HeadOf(s).digest \in Link
    BY <1>t, HeadTyped
  <2>2. Genesis \in Link
    BY DEF Link
  <2>3. /\ c[1] \in {HeadOf(s).seq, HeadOf(s).seq + 1, HeadOf(s).seq + 2}
        /\ c[2] \in {HeadOf(s).digest, Genesis}
    BY DEF Candidates
  <2> QED BY <1>1, <2>1, <2>2, <2>3 DEF Creatable
<1>4. call'[w] \in [key : Keys, row : Row]
  BY <1>1, <1>3, <1>t DEF Row
<1>5. \A v \in Writers \ {w} : pc'[v] = pc[v] /\ call'[v] = call[v] /\ head'[v] = head[v]
  BY <1>1, <1>2, <1>t
<1>6. TypeOK'
  <2>1. Link' = Link /\ Row' = Row
    BY <1>2, SameRows
  <2>2. call' \in [Writers -> {NoCall} \cup [key : Keys, row : Row]]
    BY <1>1, <1>4, <1>t
  <2>3. \A v \in Writers : pc'[v] # "idle" => call'[v] \in [key : Keys, row : Row]
    BY <1>4, <1>5, <1>t
  <2> QED BY <1>2, <1>t, <2>1, <2>2, <2>3 DEF TypeOK
<1>7. Sound(w)'
  BY <1>2, <1>t DEF Sound, Reading, Reserved
<1> QED BY <1>2, <1>5, <1>6, <1>7, StepOffTheTable

LEMMA SelectKeepsInv ==
  ASSUME StoreInv, NEW w \in Writers, Select(w)
  PROVE  StoreInv'
<1>1. /\ pc[w] = "called" /\ pc' = [pc EXCEPT ![w] = "selected"]
      /\ head' = [head EXCEPT ![w] = HeadOf(call[w].row.stream)]
      /\ UNCHANGED <<rows, call, acked>>
  BY DEF Select, Goto
<1>t. /\ pc \in [Writers -> {"idle", "called", "selected", "inserted", "committing", "committed"}]
      /\ head \in [Writers -> [seq : Nat, digest : Link]]
      /\ \A v \in Writers : pc[v] # "idle" => call[v] \in [key : Keys, row : Row]
      /\ TypeOK /\ LastRowExists
  BY DEF StoreInv, TypeOK
<1>2. HeadOf(call[w].row.stream) \in [seq : Nat, digest : Link]
  <2>1. call[w].row.stream \in Streams
    BY <1>1, <1>t DEF Row
  <2> QED BY <1>t, <2>1, HeadTyped
<1>3. TypeOK'
  <2>1. Link' = Link /\ Row' = Row
    BY <1>1, SameRows
  <2>2. head' \in [Writers -> [seq : Nat, digest : Link]]
    BY <1>1, <1>2, <1>t
  <2>3. pc' \in [Writers -> {"idle", "called", "selected", "inserted", "committing", "committed"}]
    BY <1>1, <1>t
  <2>4. \A v \in Writers : pc'[v] # "idle" => call'[v] \in [key : Keys, row : Row]
    BY <1>1, <1>t
  <2> QED BY <1>1, <1>t, <2>1, <2>2, <2>3, <2>4 DEF TypeOK
<1>4. Sound(w)'
  <2>1. pc'[w] = "selected" /\ head'[w] = HeadOf(call[w].row.stream)
    BY <1>1, <1>t
  <2>2. HeadOf(call[w].row.stream)' = HeadOf(call[w].row.stream)
    BY <1>1, SameRows DEF HeadOf, RowsOf, NoHead, Digest
  <2> QED BY <2>1, <2>2 DEF Sound, Reading, Reserved
<1>5. \A v \in Writers \ {w} : pc'[v] = pc[v] /\ call'[v] = call[v] /\ head'[v] = head[v]
  BY <1>1, <1>t
<1> QED BY <1>1, <1>3, <1>4, <1>5, StepOffTheTable

LEMMA LockStepKeepsInv ==
  ASSUME StoreInv, NEW w \in Writers, Insert(w) \/ StartCommit(w)
  PROVE  StoreInv'
<1>1. /\ pc[w] \in {"selected", "inserted"}
      /\ \E to \in {"inserted", "committing"} : pc' = [pc EXCEPT ![w] = to]
      /\ UNCHANGED <<rows, call, head, acked>>
  BY DEF Insert, StartCommit, Goto
<1>t. /\ pc \in [Writers -> {"idle", "called", "selected", "inserted", "committing", "committed"}]
      /\ TypeOK
  BY DEF StoreInv, TypeOK
<1>2. TypeOK'
  <2>1. Link' = Link /\ Row' = Row
    BY <1>1, SameRows
  <2>2. pc' \in [Writers -> {"idle", "called", "selected", "inserted", "committing", "committed"}]
    BY <1>1, <1>t
  <2>3. \A v \in Writers : pc'[v] # "idle" => pc[v] # "idle"
    BY <1>1, <1>t
  <2> QED BY <1>1, <1>t, <2>1, <2>2, <2>3 DEF TypeOK
<1>3. Sound(w)'
  <2>1. Fits(call[w].row, head[w]) /\ ~Violates(call[w].row)
    <3>1. CASE Insert(w)
      BY <3>1 DEF Insert
    <3>2. CASE StartCommit(w)
      BY <3>2 DEF StartCommit, Goto, StoreInv, Checked, Reserved
    <3> QED BY <3>1, <3>2
  <2>2. head[w] = HeadOf(call[w].row.stream)
    BY <1>1 DEF StoreInv, HeadStable, Reading
  <2>3. HeadOf(call[w].row.stream)' = HeadOf(call[w].row.stream)
    BY <1>1 DEF HeadOf, RowsOf, NoHead, Digest
  <2>4. Fits(call[w].row, head[w])' /\ ~Violates(call[w].row)'
    BY <1>1, <2>1 DEF Fits, Violates
  <2> QED BY <1>1, <2>2, <2>3, <2>4 DEF Sound
<1>4. \A v \in Writers \ {w} : pc'[v] = pc[v] /\ call'[v] = call[v] /\ head'[v] = head[v]
  BY <1>1, <1>t
<1> QED BY <1>1, <1>2, <1>3, <1>4, StepOffTheTable

-----------------------------------------------------------------------------
(* The step that writes the table *)

LEMMA CommitKeepsInv ==
  ASSUME StoreInv, NEW w \in Writers, Commit(w)
  PROVE  StoreInv'
<1> DEFINE r == call[w].row
<1>1. /\ pc[w] = "committing" /\ pc' = [pc EXCEPT ![w] = "committed"]
      /\ rows' = rows \cup {r} /\ UNCHANGED <<call, head, acked>>
      /\ \A v \in Writers \ {w} : ~Reading(v)
  BY DEF Commit, Goto, OthersRead
<1>t. /\ pc \in [Writers -> {"idle", "called", "selected", "inserted", "committing", "committed"}]
      /\ call \in [Writers -> {NoCall} \cup [key : Keys, row : Row]]
      /\ \A v \in Writers : pc[v] # "idle" => call[v] \in [key : Keys, row : Row]
      /\ head \in [Writers -> [seq : Nat, digest : Link]]
      /\ rows \subseteq Row /\ acked \subseteq Ids
  BY DEF StoreInv, TypeOK
<1>2. r \in Row /\ r.stream \in Streams
  BY <1>1, <1>t DEF Row
<1>3. Fits(r, HeadOf(r.stream)) /\ ~Violates(r)
  BY <1>1 DEF StoreInv, HeadStable, Checked, Reading, Reserved
<1>4. ChainIntact' /\ RecordedOnce' /\ LastRowExists'
  <2> HIDE DEF r
  <2> QED BY <1>1, <1>2, <1>3, RowExtendsChain DEF StoreInv
<1>5. \A v \in Writers : ~Reading(v)' /\ ~Reserved(v)'
  BY <1>1, <1>t DEF Reading, Reserved
<1>6. HeadStable' /\ Checked'
  BY <1>5 DEF HeadStable, Checked
<1>7. TypeOK'
  <2>1. Link \subseteq Link'
    BY <1>1 DEF Link, Digest
  <2>2. Row \subseteq Row'
    BY <2>1 DEF Row
  <2>3. rows' \subseteq Row'
    BY <1>1, <1>2, <1>t, <2>2
  <2>4. /\ call' \in [Writers -> {NoCall} \cup [key : Keys, row : Row']]
        /\ \A v \in Writers : pc'[v] # "idle" => call'[v] \in [key : Keys, row : Row']
    BY <1>1, <1>t, <2>2
  <2>5. head' \in [Writers -> [seq : Nat, digest : Link']]
    BY <1>1, <1>t, <2>1
  <2>6. pc' \in [Writers -> {"idle", "called", "selected", "inserted", "committing", "committed"}]
        /\ acked' \subseteq Ids
    BY <1>1, <1>t
  <2> QED BY <2>3, <2>4, <2>5, <2>6 DEF TypeOK
<1> QED BY <1>4, <1>6, <1>7 DEF StoreInv

-----------------------------------------------------------------------------
LEMMA InitStoreInv == Init => StoreInv
<1> SUFFICES ASSUME Init PROVE StoreInv
  OBVIOUS
<1>1. NoHead \in [seq : Nat, digest : Link]
  BY DEF NoHead, Link
<1>2. TypeOK
  BY <1>1 DEF Init, TypeOK
<1>3. ChainIntact /\ RecordedOnce /\ LastRowExists
  BY DEF Init, ChainIntact, RecordedOnce, LastRowExists, RowsOf
<1>4. HeadStable /\ Checked
  BY DEF Init, HeadStable, Checked, Reading, Reserved
<1> QED BY <1>2, <1>3, <1>4 DEF StoreInv

LEMMA NextStoreInv == StoreInv /\ [Next]_vars => StoreInv'
<1> SUFFICES ASSUME StoreInv, [Next]_vars PROVE StoreInv'
  OBVIOUS
<1>a. acked \subseteq Ids
  BY DEF StoreInv, TypeOK
<1>1. ASSUME NEW w \in Writers, Step(w) PROVE StoreInv'
  <2>1. CASE Select(w)
    BY <2>1, SelectKeepsInv
  <2>2. CASE Insert(w) \/ StartCommit(w)
    BY <2>2, LockStepKeepsInv
  <2>3. CASE Commit(w)
    BY <2>3, CommitKeepsInv
  <2>4. CASE RejectSignature(w) \/ SelectTimesOut(w) \/ RejectLink(w)
             \/ InsertBusy(w) \/ RejectDuplicate(w)
    <3>1. End(w) /\ acked' = acked
      BY <2>4 DEF RejectSignature, SelectTimesOut, RejectLink, InsertBusy, RejectDuplicate
    <3> QED BY <1>a, <3>1, EndKeepsInv
  <2>5. CASE Return(w)
    <3>1. End(w) /\ acked' = acked \cup {call[w].row.id} /\ pc[w] = "committed"
      BY <2>5 DEF Return
    <3>2. call[w].row.id \in Ids
      BY <3>1 DEF StoreInv, TypeOK, Row
    <3> QED BY <1>a, <3>1, <3>2, EndKeepsInv
  <2> QED BY <1>1, <2>1, <2>2, <2>3, <2>4, <2>5 DEF Step
<1>2. ASSUME NEW w \in Writers, CommitTimesOut(w) \/ Crash(w) PROVE StoreInv'
  BY <1>a, <1>2, EndKeepsInv DEF CommitTimesOut, Crash
<1>3. ASSUME NEW w \in Writers, NEW s \in Streams, NEW id \in Ids,
             NEW signer \in Signers, NEW key \in Keys, Call(w, s, id, signer, key)
      PROVE  StoreInv'
  BY <1>3, CallKeepsInv
<1>4. CASE UNCHANGED vars
  <2>1. UNCHANGED <<rows, pc, call, head, acked>>
    BY <1>4 DEF vars
  <2>2. TypeOK'
    BY <2>1, SameRows DEF StoreInv, TypeOK
  <2>3. HeadStable' /\ Checked'
    <3>1. \A w \in Writers : Sound(w)
      BY SoundWriters DEF StoreInv
    <3>2. \A w \in Writers : Sound(w)'
      BY <2>1, <3>1, OthersStaySound
    <3> QED BY <3>2, SoundWritersPrimed
  <2> QED BY <2>1, <2>2, <2>3, SameRows DEF StoreInv
<1> QED BY <1>1, <1>2, <1>3, <1>4 DEF Next

LEMMA StoreSafety == Spec => []StoreInv
BY InitStoreInv, NextStoreInv, PTL DEF Spec

\* The table only ever holds well-formed rows whose links are digests of
\* stored rows.
THEOREM StoreTypes == Spec => []TypeOK
BY StoreSafety, PTL DEF StoreInv

\* No other appender moves the head under a transaction that has read it.
THEOREM HeadsAreStable == Spec => []HeadStable
BY StoreSafety, PTL DEF StoreInv

\* Every stored record links to its predecessor, in every stream, however
\* appends interleave and wherever processes crash.
THEOREM ChainsAreIntact == Spec => []ChainIntact
BY StoreSafety, PTL DEF StoreInv

\* No decision is recorded twice, in one stream or in two.
THEOREM DecisionsAreRecordedOnce == Spec => []RecordedOnce
BY StoreSafety, PTL DEF StoreInv

-----------------------------------------------------------------------------
(***************************************************************************)
(* Streams as lists.  The sequences of a stream are 1 to the number of its *)
(* rows (Numbered), so the row of sequence n is the n-th that ORDER BY     *)
(* returns.  Every row was signed with the key append was called with      *)
(* (Authentic), and what an append has committed is in the table when it   *)
(* returns (Stored).                                                       *)
(***************************************************************************)

Sequential(R) == IsFiniteSet(R) /\ {r.seq : r \in R} = 1..Cardinality(R)
Distinct(R) == \A q, r \in R : q.seq = r.seq => q = r
InOrder(R) == CHOOSE recs \in [1..Cardinality(R) -> R] : Ascending(recs)

Numbered == \A s \in Streams : Sequential(RowsOf(s))

Authentic ==
  /\ \A r \in rows : r.signer = r.key
  /\ \A w \in Writers : pc[w] # "idle" => call[w].row.key = call[w].key
  /\ \A w \in Writers : Reading(w) => Verifies(call[w])

Stored == \A w \in Writers : pc[w] = "committed" => call[w].row \in rows

ListInv == Numbered /\ Authentic /\ Stored

\* Numbers that ascend from 1 to N in N steps leave none out.
LEMMA AscendingIsCounting ==
  ASSUME NEW N \in Nat, NEW f, \A n \in 1..N : f[n] \in 1..N,
         \A m, n \in 1..N : m < n => f[m] < f[n]
  PROVE  \A n \in 1..N : f[n] = n
<1> DEFINE S == 1..N
           low == {T \in SUBSET S : \A n \in S : T = 1..n => f[n] >= n}
           high == {T \in SUBSET S : \A n \in S : T = n..N => f[n] <= n}
<1>1. IsFiniteSet(S)
  BY FS_Interval
<1>2. ASSUME NEW T \in SUBSET S, \A U \in SUBSET T : U # T => U \in low
      PROVE  T \in low
  <2> SUFFICES ASSUME NEW n \in S, T = 1..n PROVE f[n] >= n
    OBVIOUS
  <2>1. CASE n = 1
    BY <2>1
  <2>2. CASE n # 1
    <3>1. n - 1 \in S /\ n - 1 < n /\ 1..(n - 1) \in SUBSET T /\ 1..(n - 1) # T
      BY <2>2
    <3>2. 1..(n - 1) \in low
      BY <1>2, <3>1
    <3>3. f[n - 1] >= n - 1
      BY <3>1, <3>2
    <3>4. f[n - 1] < f[n] /\ f[n - 1] \in Int /\ f[n] \in Int
      BY <3>1
    <3> QED
      BY <3>3, <3>4
  <2> QED
    BY <2>1, <2>2
<1>3. ASSUME NEW T \in SUBSET S, \A U \in SUBSET T : U # T => U \in high
      PROVE  T \in high
  <2> SUFFICES ASSUME NEW n \in S, T = n..N PROVE f[n] <= n
    OBVIOUS
  <2>1. CASE n = N
    BY <2>1
  <2>2. CASE n # N
    <3>1. n + 1 \in S /\ n < n + 1 /\ (n + 1)..N \in SUBSET T /\ (n + 1)..N # T
      BY <2>2
    <3>2. (n + 1)..N \in high
      BY <1>3, <3>1
    <3>3. f[n + 1] <= n + 1
      BY <3>1, <3>2
    <3>4. f[n] < f[n + 1] /\ f[n + 1] \in Int /\ f[n] \in Int
      BY <3>1
    <3> QED
      BY <3>3, <3>4
  <2> QED
    BY <2>1, <2>2
<1> HIDE DEF low, high, S
<1>4. \A T \in SUBSET S : T \in low /\ T \in high
  BY <1>1, <1>2, <1>3, SubsetInduction
<1> QED
  <2> SUFFICES ASSUME NEW n \in 1..N PROVE f[n] = n
    OBVIOUS
  <2>1. 1..n \in low /\ n..N \in high
    BY <1>4 DEF S
  <2>2. f[n] >= n /\ f[n] <= n
    BY <2>1 DEF S, low, high
  <2> QED
    BY <2>2

\* The rows of a stream in order: the n-th has sequence n.
LEMMA OrderedRows ==
  ASSUME NEW R, Sequential(R), Distinct(R)
  PROVE  /\ InOrder(R) \in Seq(R) /\ Len(InOrder(R)) = Cardinality(R)
         /\ DOMAIN InOrder(R) = 1..Cardinality(R) /\ Cardinality(R) \in Nat
         /\ \A n \in 1..Cardinality(R) : InOrder(R)[n] \in R /\ InOrder(R)[n].seq = n
<1> DEFINE N == Cardinality(R)
           recs == InOrder(R)
<1>1. N \in Nat
  BY FS_CardinalityType DEF Sequential
<1>2. \A n \in 1..N : \E r \in R : r.seq = n
  BY DEF Sequential
<1>3. \A r \in R : r.seq \in 1..N
  BY DEF Sequential
<1> HIDE DEF N
<1> DEFINE f == [n \in 1..N |-> CHOOSE r \in R : r.seq = n]
<1>4. \A n \in 1..N : f[n] \in R /\ f[n].seq = n
  BY <1>2
<1>5. f \in [1..N -> R] /\ Ascending(f)
  BY <1>4 DEF Ascending
<1> HIDE DEF f
<1>6. recs \in [1..N -> R] /\ Ascending(recs)
  BY <1>5 DEF InOrder, N
<1> HIDE DEF recs
<1> DEFINE g == [n \in 1..N |-> recs[n].seq]
<1>7. \A n \in 1..N : g[n] = recs[n].seq /\ g[n] \in 1..N
  BY <1>3, <1>6
<1>8. \A m, n \in 1..N : m < n => g[m] < g[n]
  BY <1>6, <1>7 DEF Ascending
<1> HIDE DEF g
<1>9. \A n \in 1..N : g[n] = n
  BY <1>1, <1>7, <1>8, AscendingIsCounting
<1>10. recs \in Seq(R) /\ Len(recs) = N /\ DOMAIN recs = 1..N
  BY <1>1, <1>6
<1> QED
  BY <1>1, <1>6, <1>7, <1>9, <1>10 DEF recs, N

\* A row of the next sequence comes last.
LEMMA NextRow ==
  ASSUME NEW R, Sequential(R), Distinct(R), NEW r, r.seq = Cardinality(R) + 1
  PROVE  /\ Sequential(R \cup {r}) /\ Distinct(R \cup {r})
         /\ InOrder(R \cup {r}) = Append(InOrder(R), r)
<1> DEFINE N == Cardinality(R)
           Q == R \cup {r}
<1>1. N \in Nat /\ \A q \in R : q.seq \in 1..N
  BY FS_CardinalityType DEF Sequential
<1>2. r \notin R
  BY <1>1
<1>3. IsFiniteSet(Q) /\ Cardinality(Q) = N + 1
  BY <1>2, FS_AddElement DEF Sequential
<1>4. {q.seq : q \in Q} = 1..(N + 1)
  <2>1. {q.seq : q \in Q} = {q.seq : q \in R} \cup {r.seq}
    OBVIOUS
  <2>2. {q.seq : q \in R} = 1..N
    BY DEF Sequential
  <2> HIDE DEF N
  <2>3. r.seq = N + 1 /\ 1..(N + 1) = (1..N) \cup {N + 1}
    BY <1>1 DEF N
  <2> QED
    BY <2>1, <2>2, <2>3
<1>5. Sequential(Q)
  BY <1>3, <1>4 DEF Sequential
<1>6. Distinct(Q)
  BY <1>1 DEF Distinct
<1>7. /\ InOrder(Q) \in Seq(Q) /\ Len(InOrder(Q)) = N + 1 /\ DOMAIN InOrder(Q) = 1..(N + 1)
      /\ \A n \in 1..(N + 1) : InOrder(Q)[n] \in Q /\ InOrder(Q)[n].seq = n
  <2> HIDE DEF Q
  <2> QED
    BY <1>3, <1>5, <1>6, OrderedRows
<1>8. /\ InOrder(R) \in Seq(R) /\ Len(InOrder(R)) = N
      /\ \A n \in 1..N : InOrder(R)[n] \in R /\ InOrder(R)[n].seq = n
  BY OrderedRows
<1> HIDE DEF N
<1>9. /\ DOMAIN Append(InOrder(R), r) = 1..(N + 1)
      /\ \A n \in 1..N : Append(InOrder(R), r)[n] = InOrder(R)[n]
      /\ Append(InOrder(R), r)[N + 1] = r
  BY <1>1, <1>8
<1>10. ASSUME NEW n \in 1..(N + 1)
       PROVE  InOrder(Q)[n] = Append(InOrder(R), r)[n]
  <2>1. Append(InOrder(R), r)[n] \in Q /\ Append(InOrder(R), r)[n].seq = n
    <3>1. CASE n \in 1..N
      BY <1>8, <1>9, <3>1
    <3>2. CASE n = N + 1
      BY <1>9, <3>2 DEF N
    <3>3. n \in 1..N \/ n = N + 1
      BY <1>1
    <3> QED
      BY <3>1, <3>2, <3>3
  <2>2. InOrder(Q)[n] \in Q /\ InOrder(Q)[n].seq = n
    BY <1>7
  <2> HIDE DEF Q
  <2> QED
    BY <1>6, <2>1, <2>2 DEF Distinct
<1>11. InOrder(Q) = Append(InOrder(R), r)
  <2> DEFINE F == InOrder(Q)
             G == Append(InOrder(R), r)
  <2>1. F \in Seq(Q) /\ G \in Seq(Q) /\ Len(F) = N + 1 /\ Len(G) = N + 1
    BY <1>1, <1>7, <1>8
  <2>2. \A n \in 1..(N + 1) : F[n] = G[n]
    BY <1>10
  <2> HIDE DEF F, G, Q
  <2>3. F = G
    BY <2>1, <2>2
  <2> QED
    BY <2>3 DEF F, G
<1> QED
  BY <1>5, <1>6, <1>11

\* The head of a stream carries the number of its rows, and digests the last.
LEMMA HeadCounts ==
  ASSUME NEW s \in Streams, LastRowExists, Numbered, Distinct(RowsOf(s))
  PROVE  /\ HeadOf(s).seq = Cardinality(RowsOf(s))
         /\ HeadOf(s).digest =
              IF RowsOf(s) = {} THEN Genesis
              ELSE Digest(InOrder(RowsOf(s))[Cardinality(RowsOf(s))])
         /\ RowsOf(s) = {} <=> Cardinality(RowsOf(s)) = 0
<1> DEFINE R == RowsOf(s)
           N == Cardinality(R)
<1>1. Sequential(R) /\ N \in Nat /\ (R = {} <=> N = 0)
  BY FS_CardinalityType, FS_EmptySet DEF Numbered, Sequential
<1>2. CASE R = {} /\ HeadOf(s) = NoHead
  BY <1>1, <1>2 DEF NoHead
<1>3. ASSUME NEW q \in R, HeadOf(s) = [seq |-> q.seq, digest |-> Digest(q)],
             \A o \in R : o.seq <= q.seq
      PROVE  HeadOf(s).seq = N /\ HeadOf(s).digest = Digest(InOrder(R)[N])
  <2>1. q.seq \in 1..N /\ N \in 1..N
    BY <1>1, <1>3 DEF Sequential
  <2>2. InOrder(R)[N] \in R /\ InOrder(R)[N].seq = N
    BY <1>1, <2>1, OrderedRows
  <2>3. q.seq = N
    BY <1>3, <2>1, <2>2
  <2>4. q = InOrder(R)[N]
    BY <2>2, <2>3 DEF Distinct
  <2> QED
    BY <1>3, <2>3, <2>4
<1> QED
  BY <1>1, <1>2, <1>3, HeadCases

LEMMA StreamsDistinct ==
  ASSUME ChainIntact, NEW s \in Streams PROVE Distinct(RowsOf(s))
BY DEF ChainIntact, Distinct, RowsOf

\* What a commit makes of the lists.
LEMMA CommitAppends ==
  ASSUME StoreInv, Numbered, NEW w \in Writers, Commit(w)
  PROVE  LET r == call[w].row
         IN  /\ r \in Row /\ ~Violates(r) /\ Fits(r, HeadOf(r.stream))
             /\ r.seq = Cardinality(RowsOf(r.stream)) + 1
             /\ \A s \in Streams :
                  /\ Sequential(RowsOf(s)')
                  /\ InOrder(RowsOf(s)') =
                       IF s = r.stream THEN Append(InOrder(RowsOf(s)), r) ELSE InOrder(RowsOf(s))
<1> DEFINE r == call[w].row
<1>1. pc[w] = "committing" /\ rows' = rows \cup {r}
  BY DEF Commit, Goto
<1>2. r \in Row /\ r.stream \in Streams
  BY <1>1 DEF StoreInv, TypeOK, Row
<1>3. Fits(r, HeadOf(r.stream)) /\ ~Violates(r)
  BY <1>1 DEF StoreInv, HeadStable, Checked, Reading, Reserved
<1> HIDE DEF r
<1>4. \A s \in Streams : Distinct(RowsOf(s))
  BY StreamsDistinct DEF StoreInv
<1>5. r.seq = Cardinality(RowsOf(r.stream)) + 1
  BY <1>2, <1>3, <1>4, HeadCounts DEF Fits, StoreInv
<1>6. ASSUME NEW s \in Streams
      PROVE  /\ Sequential(RowsOf(s)')
             /\ InOrder(RowsOf(s)') =
                  IF s = r.stream THEN Append(InOrder(RowsOf(s)), r) ELSE InOrder(RowsOf(s))
  <2>1. RowsOf(s)' = IF s = r.stream THEN RowsOf(s) \cup {r} ELSE RowsOf(s)
    BY <1>1 DEF RowsOf
  <2>2. Sequential(RowsOf(s))
    BY DEF Numbered
  <2>3. CASE s = r.stream
    BY <1>4, <1>5, <2>1, <2>2, <2>3, NextRow
  <2>4. CASE s # r.stream
    BY <2>1, <2>2, <2>4
  <2> QED
    BY <2>3, <2>4
<1> QED
  BY <1>2, <1>3, <1>5, <1>6 DEF r

\* What Authentic and Stored say of one writer.
Honest(w) ==
  /\ pc[w] # "idle" => call[w].row.key = call[w].key
  /\ Reading(w) => Verifies(call[w])
  /\ pc[w] = "committed" => call[w].row \in rows

\* A step that only moves writer w, and keeps it honest, keeps the lists.
LEMMA StepOffTheLists ==
  ASSUME ListInv, NEW w \in Writers, UNCHANGED rows,
         \A v \in Writers \ {w} : pc'[v] = pc[v] /\ call'[v] = call[v],
         Honest(w)'
  PROVE  ListInv'
<1>1. \A v \in Writers \ {w} : Honest(v)'
  BY DEF ListInv, Authentic, Stored, Honest, Reading, Verifies
<1>2. Authentic' /\ Stored'
  BY <1>1 DEF ListInv, Authentic, Stored, Honest
<1>3. Numbered'
  BY DEF ListInv, Numbered, RowsOf
<1> QED
  BY <1>2, <1>3 DEF ListInv

LEMMA EndKeepsLists ==
  ASSUME StoreInv, ListInv, NEW w \in Writers, End(w)
  PROVE  ListInv'
<1>1. /\ UNCHANGED rows /\ pc'[w] = "idle"
      /\ \A v \in Writers \ {w} : pc'[v] = pc[v] /\ call'[v] = call[v]
  BY DEF End, StoreInv, TypeOK
<1>2. Honest(w)'
  BY <1>1 DEF Honest, Reading
<1> QED
  BY <1>1, <1>2, StepOffTheLists

LEMMA CallKeepsLists ==
  ASSUME StoreInv, ListInv, NEW w \in Writers, NEW s, NEW id, NEW signer, NEW key,
         Call(w, s, id, signer, key)
  PROVE  ListInv'
<1>t. /\ pc \in [Writers -> {"idle", "called", "selected", "inserted", "committing", "committed"}]
      /\ call \in [Writers -> {NoCall} \cup [key : Keys, row : Row]]
  BY DEF StoreInv, TypeOK
<1>1. PICK c \in Candidates(HeadOf(s)) :
         call' = [call EXCEPT ![w] =
              [key |-> key,
               row |-> [stream |-> s, id |-> id, seq |-> c[1], prev |-> c[2],
                        signer |-> signer, key |-> key]]]
  BY DEF Call
<1>2. pc' = [pc EXCEPT ![w] = "called"] /\ UNCHANGED rows
  BY DEF Call, Goto
<1>3. Honest(w)'
  BY <1>t, <1>1, <1>2 DEF Honest, Reading
<1> QED
  BY <1>t, <1>1, <1>2, <1>3, StepOffTheLists

LEMMA WorkKeepsLists ==
  ASSUME StoreInv, ListInv, NEW w \in Writers, Select(w) \/ Insert(w) \/ StartCommit(w)
  PROVE  ListInv'
<1>t. pc \in [Writers -> {"idle", "called", "selected", "inserted", "committing", "committed"}]
  BY DEF StoreInv, TypeOK
<1>1. /\ pc[w] # "idle" /\ UNCHANGED <<rows, call>>
      /\ \E to \in {"selected", "inserted", "committing"} : pc' = [pc EXCEPT ![w] = to]
  BY DEF Select, Insert, StartCommit, Goto
<1>2. Verifies(call[w])
  BY DEF Select, Insert, StartCommit, Goto, ListInv, Authentic, Reading
<1>3. Honest(w)'
  BY <1>t, <1>1, <1>2 DEF Honest, ListInv, Authentic, Verifies
<1> QED
  BY <1>t, <1>1, <1>3, StepOffTheLists

LEMMA CommitKeepsLists ==
  ASSUME StoreInv, ListInv, NEW w \in Writers, Commit(w)
  PROVE  ListInv'
<1> DEFINE r == call[w].row
<1>t. pc \in [Writers -> {"idle", "called", "selected", "inserted", "committing", "committed"}]
  BY DEF StoreInv, TypeOK
<1>1. /\ pc[w] = "committing" /\ pc' = [pc EXCEPT ![w] = "committed"]
      /\ rows' = rows \cup {r} /\ UNCHANGED call
  BY DEF Commit, Goto
<1>2. r.signer = r.key
  BY <1>1 DEF ListInv, Authentic, Reading, Verifies
<1>3. Numbered'
  BY CommitAppends DEF ListInv, Numbered
<1>4. Authentic'
  BY <1>t, <1>1, <1>2 DEF ListInv, Authentic, Reading, Verifies
<1>5. Stored'
  BY <1>t, <1>1 DEF ListInv, Stored
<1> QED
  BY <1>3, <1>4, <1>5 DEF ListInv

LEMMA InitListInv == Init => ListInv
<1> SUFFICES ASSUME Init PROVE ListInv
  OBVIOUS
<1>1. \A s \in Streams : RowsOf(s) = {}
  BY DEF Init, RowsOf
<1>2. Sequential({})
  BY FS_EmptySet DEF Sequential
<1>3. Authentic /\ Stored
  BY DEF Init, Authentic, Stored, Reading
<1> QED
  BY <1>1, <1>2, <1>3 DEF ListInv, Numbered

LEMMA NextListInv == StoreInv /\ ListInv /\ [Next]_vars => ListInv'
<1> SUFFICES ASSUME StoreInv, ListInv, [Next]_vars PROVE ListInv'
  OBVIOUS
<1>1. ASSUME NEW w \in Writers, Step(w) \/ CommitTimesOut(w) \/ Crash(w)
      PROVE  ListInv'
  <2>1. End(w) \/ Select(w) \/ Insert(w) \/ StartCommit(w) \/ Commit(w)
    BY <1>1 DEF Step, CommitTimesOut, Crash, RejectSignature, SelectTimesOut, RejectLink,
                InsertBusy, RejectDuplicate, Return
  <2> QED
    BY <2>1, EndKeepsLists, WorkKeepsLists, CommitKeepsLists
<1>2. CASE UNCHANGED vars
  BY <1>2 DEF vars, ListInv, Numbered, RowsOf, Authentic, Stored, Reading, Verifies
<1> QED
  BY <1>1, <1>2, CallKeepsLists DEF Next

LEMMA ListSafety == Spec => [](StoreInv /\ ListInv)
BY StoreSafety, InitListInv, NextListInv, PTL DEF Spec

\* A stream whose rows were all appended under one key is accepted by
\* validate_chain under it: what append checks of a record against a head it
\* read, between other appenders and crashes, adds up to the whole chain.
THEOREM StreamsAreValid == Spec => []StreamsValidate
<1>1. StoreInv /\ ListInv => StreamsValidate
  <2> SUFFICES ASSUME StoreInv, ListInv, NEW s \in Streams, NEW k \in Keys,
                      RowsOf(s) # {}, \A r \in RowsOf(s) : r.key = k
               PROVE  ValidateChain(StreamRecords(s), k)
    BY DEF StreamsValidate
  <2> DEFINE R == RowsOf(s)
             N == Cardinality(R)
             recs == StreamRecords(s)
  <2>1. Sequential(R) /\ Distinct(R)
    BY StreamsDistinct DEF ListInv, Numbered, StoreInv
  <2>2. recs = InOrder(R)
    BY DEF StreamRecords, InOrder
  <2>3. /\ N \in Nat /\ Len(recs) = N /\ DOMAIN recs = 1..N
        /\ \A n \in 1..N : recs[n] \in R /\ recs[n].seq = n
    BY <2>1, <2>2, OrderedRows
  <2>4. recs # <<>>
    BY <2>1, <2>3, FS_EmptySet DEF Sequential
  <2>5. ASSUME NEW n \in 1..N
        PROVE  /\ recs[n].signer = k /\ recs[n].seq = n
               /\ recs[n].prev = IF n = 1 THEN Genesis ELSE Digest(recs[n - 1])
               /\ \A m \in 1..(n - 1) : recs[m].id # recs[n].id
    <3> DEFINE x == recs[n]
    <3>1. x \in R /\ x \in rows /\ x.seq = n /\ x.stream = s
      BY <2>3 DEF RowsOf
    <3>2. x.signer = k
      BY <3>1 DEF ListInv, Authentic
    <3>3. x.prev = IF n = 1 THEN Genesis ELSE Digest(recs[n - 1])
      <4>1. CASE n = 1
        BY <3>1, <4>1 DEF StoreInv, ChainIntact
      <4>2. CASE n # 1
        <5>1. n - 1 \in 1..N /\ recs[n - 1] \in R /\ recs[n - 1].seq = n - 1
          BY <2>3, <4>2
        <5> HIDE DEF x, recs, R
        <5>2. PICK q \in RowsOf(s) : q.seq = n - 1 /\ x.prev = Digest(q)
          BY <3>1, <4>2 DEF StoreInv, ChainIntact
        <5>3. q = recs[n - 1]
          BY <2>1, <5>1, <5>2 DEF Distinct, R
        <5> QED
          BY <4>2, <5>2, <5>3
      <4> QED
        BY <4>1, <4>2
    <3>4. ASSUME NEW m \in 1..(n - 1) PROVE recs[m].id # x.id
      <4>1. m \in 1..N /\ recs[m] \in rows /\ recs[m].seq = m /\ m # n
        BY <2>3 DEF RowsOf
      <4> HIDE DEF x, recs
      <4> QED
        BY <3>1, <4>1 DEF StoreInv, RecordedOnce
    <3> QED
      BY <3>1, <3>2, <3>3, <3>4
  <2>6. DOMAIN recs = 1..N
    BY <2>3
  <2> HIDE DEF recs, R, N
  <2>7. ValidateChain(recs, k)
    BY <2>4, <2>5, <2>6 DEF ValidateChain
  <2> QED
    BY <2>7 DEF recs
<1> QED
  BY <1>1, ListSafety, PTL

-----------------------------------------------------------------------------
(***************************************************************************)
(* The refinement: a commit appends to the list of its stream the entry    *)
(* the promise asks for, the return of append acknowledges it, and all     *)
(* else, crashes among it, is stuttering.                                  *)
(***************************************************************************)

MappedLog == [s \in Streams |-> StreamRecords(s)]

\* The lists of the table.
LEMMA LogLists ==
  ASSUME StoreInv, ListInv
  PROVE  \A s \in Streams :
           /\ MappedLog[s] = InOrder(RowsOf(s))
           /\ Len(MappedLog[s]) = Cardinality(RowsOf(s)) /\ Cardinality(RowsOf(s)) \in Nat
           /\ DOMAIN MappedLog[s] = 1..Cardinality(RowsOf(s))
           /\ MappedLog[s] = <<>> <=> RowsOf(s) = {}
           /\ \A n \in DOMAIN MappedLog[s] : MappedLog[s][n] \in RowsOf(s)
           /\ \A r \in RowsOf(s) : \E n \in DOMAIN MappedLog[s] : MappedLog[s][n] = r
<1> SUFFICES ASSUME NEW s \in Streams
             PROVE  /\ MappedLog[s] = InOrder(RowsOf(s))
                    /\ Len(MappedLog[s]) = Cardinality(RowsOf(s)) /\ Cardinality(RowsOf(s)) \in Nat
                    /\ DOMAIN MappedLog[s] = 1..Cardinality(RowsOf(s))
                    /\ MappedLog[s] = <<>> <=> RowsOf(s) = {}
                    /\ \A n \in DOMAIN MappedLog[s] : MappedLog[s][n] \in RowsOf(s)
                    /\ \A r \in RowsOf(s) : \E n \in DOMAIN MappedLog[s] : MappedLog[s][n] = r
  OBVIOUS
<1> DEFINE R == RowsOf(s)
           N == Cardinality(R)
           recs == InOrder(R)
<1>1. MappedLog[s] = recs
  BY DEF MappedLog, StreamRecords, InOrder
<1>2. Sequential(R) /\ Distinct(R)
  BY StreamsDistinct DEF ListInv, Numbered, StoreInv
<1> HIDE DEF R
<1>3. /\ recs \in Seq(R) /\ Len(recs) = N /\ DOMAIN recs = 1..N /\ N \in Nat
      /\ \A n \in 1..N : recs[n] \in R /\ recs[n].seq = n
  BY <1>2, OrderedRows
<1>4. \A r \in R : r.seq \in 1..N
  BY <1>2 DEF Sequential
<1> HIDE DEF recs, N
<1>5. \A r \in R : r.seq \in DOMAIN recs /\ recs[r.seq] = r
  BY <1>2, <1>3, <1>4 DEF Distinct
<1>6. R = {} <=> N = 0
  BY <1>2, FS_EmptySet DEF N, Sequential
<1>7. recs = <<>> <=> R = {}
  BY <1>3, <1>6
<1>8. /\ Len(MappedLog[s]) = N /\ N \in Nat /\ DOMAIN MappedLog[s] = 1..N
      /\ MappedLog[s] = <<>> <=> R = {}
      /\ \A n \in DOMAIN MappedLog[s] : MappedLog[s][n] \in R
      /\ \A r \in R : \E n \in DOMAIN MappedLog[s] : MappedLog[s][n] = r
  BY <1>1, <1>3, <1>5, <1>7
<1> QED
  BY <1>1, <1>8 DEF R, N, recs

LEMMA InitLog == Init => Log!Init
<1> SUFFICES ASSUME Init PROVE Log!Init
  OBVIOUS
<1>1. \A s \in Streams : RowsOf(s) = {}
  BY DEF Init, RowsOf
<1>2. StoreInv /\ ListInv
  BY InitStoreInv, InitListInv
<1>3. \A s \in Streams : StreamRecords(s) = <<>>
  BY <1>1, <1>2, LogLists DEF MappedLog
<1> QED
  BY <1>3 DEF Log!Init, Init

LEMMA LogSays ==
  ASSUME NEW id
  PROVE  Log!Recorded(id) <=> \E s \in Streams : \E n \in DOMAIN MappedLog[s] : MappedLog[s][n].id = id
BY DEF Log!Recorded, MappedLog

LEMMA CommitIsAppend ==
  ASSUME StoreInv, ListInv, NEW w \in Writers, Commit(w)
  PROVE  \E id \in Ids, s \in Streams, key \in Keys : Log!AppendEntry(s, id, key)
<1> DEFINE r == call[w].row
           s == r.stream
<1>1. pc[w] = "committing" /\ acked' = acked
  BY DEF Commit, Goto
<1>2. /\ r \in Row /\ ~Violates(r) /\ Fits(r, HeadOf(s))
      /\ r.seq = Cardinality(RowsOf(s)) + 1
      /\ \A x \in Streams :
           InOrder(RowsOf(x)') = IF x = s THEN Append(InOrder(RowsOf(x)), r)
                                 ELSE InOrder(RowsOf(x))
  BY CommitAppends DEF ListInv
<1>3. r.signer = r.key
  BY <1>1 DEF ListInv, Authentic, Reading, Verifies
<1> HIDE DEF r
<1>4. s \in Streams /\ r.id \in Ids /\ r.key \in Keys
  BY <1>2 DEF Row
<1>5. ~Log!Recorded(r.id)
  <2>1. \A x \in Streams : \A n \in DOMAIN MappedLog[x] : MappedLog[x][n] \in rows
    BY LogLists DEF RowsOf
  <2> QED
    BY <1>2, <2>1, LogSays DEF Violates
<1>6. r = Log!Entry(s, r.id, r.key)
  <2> DEFINE L == MappedLog[s]
             N == Cardinality(RowsOf(s))
  <2>1. /\ L = InOrder(RowsOf(s)) /\ Len(L) = N /\ (L = <<>> <=> RowsOf(s) = {})
    BY <1>4, LogLists
  <2>2. r.prev = IF RowsOf(s) = {} THEN Genesis ELSE Digest(InOrder(RowsOf(s))[N])
    BY <1>2, <1>4, HeadCounts, StreamsDistinct DEF Fits, StoreInv, ListInv
  <2>3. r.prev = IF L = <<>> THEN Genesis ELSE Digest(L[Len(L)])
    BY <2>1, <2>2
  <2>4. Log!Entry(s, r.id, r.key) =
          [stream |-> s, id |-> r.id, signer |-> r.key, key |-> r.key,
           seq |-> Len(L) + 1, prev |-> IF L = <<>> THEN Genesis ELSE Digest(L[Len(L)])]
    BY <1>4 DEF Log!Entry, Log!Digest, Digest, MappedLog
  <2>5. r = [stream |-> r.stream, id |-> r.id, seq |-> r.seq, prev |-> r.prev,
             signer |-> r.signer, key |-> r.key]
    BY <1>2 DEF Row
  <2> HIDE DEF L, N
  <2> QED
    BY <1>2, <1>3, <2>1, <2>3, <2>4, <2>5 DEF N
<1>7. MappedLog' = [MappedLog EXCEPT ![s] = Append(@, r)]
  <2>1. \A x \in Streams : MappedLog[x] = InOrder(RowsOf(x)) /\ MappedLog'[x] = InOrder(RowsOf(x)')
    BY DEF MappedLog, StreamRecords, InOrder, Ascending
  <2>2. MappedLog' = [x \in Streams |-> MappedLog'[x]] /\ MappedLog = [x \in Streams |-> MappedLog[x]]
    BY DEF MappedLog
  <2> QED
    BY <1>2, <1>4, <2>1, <2>2
<1>8. Log!AppendEntry(s, r.id, r.key)
  <2>1. MappedLog' = [MappedLog EXCEPT ![s] = Append(@, Log!Entry(s, r.id, r.key))]
    BY <1>6, <1>7
  <2> QED
    BY <1>1, <1>5, <2>1 DEF Log!AppendEntry, MappedLog
<1> QED
  BY <1>4, <1>8

LEMMA ReturnIsAcknowledgement ==
  ASSUME StoreInv, ListInv, NEW w \in Writers, Return(w)
  PROVE  \E id \in Ids : Log!Acknowledge(id)
<1> DEFINE r == call[w].row
<1>1. pc[w] = "committed" /\ acked' = acked \cup {r.id} /\ UNCHANGED rows
  BY DEF Return, End
<1>2. r \in rows /\ r \in Row
  BY <1>1 DEF ListInv, Stored, StoreInv, TypeOK
<1>3. r.stream \in Streams /\ r.id \in Ids /\ r \in RowsOf(r.stream)
  BY <1>2 DEF Row, RowsOf
<1> HIDE DEF r
<1>4. Log!Recorded(r.id)
  BY <1>3, LogLists, LogSays
<1>5. MappedLog' = MappedLog
  BY <1>1 DEF MappedLog, StreamRecords, RowsOf, Ascending
<1> QED
  BY <1>1, <1>3, <1>4, <1>5 DEF Log!Acknowledge, MappedLog

LEMMA StepImplementsLog ==
  StoreInv /\ ListInv /\ [Next]_vars => [Log!Next]_(Log!vars)
<1> SUFFICES ASSUME StoreInv, ListInv, [Next]_vars
             PROVE  Log!Next \/ UNCHANGED Log!vars
  OBVIOUS
<1>1. ASSUME UNCHANGED <<rows, acked>> PROVE UNCHANGED Log!vars
  BY <1>1 DEF Log!vars, StreamRecords, RowsOf, Ascending
<1>2. ASSUME NEW w \in Writers, Commit(w) PROVE Log!Next
  BY <1>2, CommitIsAppend DEF Log!Next
<1>3. ASSUME NEW w \in Writers, Return(w) PROVE Log!Next
  BY <1>3, ReturnIsAcknowledgement DEF Log!Next
<1>4. ASSUME NEW w \in Writers, Step(w) \/ CommitTimesOut(w) \/ Crash(w),
             ~Commit(w), ~Return(w)
      PROVE  UNCHANGED <<rows, acked>>
  BY <1>4 DEF Step, CommitTimesOut, Crash, RejectSignature, Select, SelectTimesOut, RejectLink,
              InsertBusy, RejectDuplicate, Insert, StartCommit, End
<1>5. ASSUME NEW w \in Writers, NEW s, NEW id, NEW signer, NEW key, Call(w, s, id, signer, key)
      PROVE  UNCHANGED <<rows, acked>>
  BY <1>5 DEF Call
<1>6. CASE UNCHANGED vars
  BY <1>1, <1>6 DEF vars
<1> QED
  BY <1>1, <1>2, <1>3, <1>4, <1>5, <1>6 DEF Next

\* The table, with its locks, transactions, rejections and crashes, is the
\* append-only log that its callers are promised: each decision is recorded at
\* most once, in one stream, linked to the entry before it, and acknowledged
\* only when it is there to stay.
THEOREM StoreImplementsLog == Spec => ImplementsLog
<1>1. Init => Log!Init
  BY InitLog
<1>2. StoreInv /\ ListInv /\ [Next]_vars => [Log!Next]_(Log!vars)
  BY StepImplementsLog
<1> QED
  BY <1>1, <1>2, ListSafety, PTL DEF Spec, ImplementsLog, Log!Spec

-----------------------------------------------------------------------------
(* What a caller may rely on *)

\* A decision whose append returned True is in the table.
AckedIsStored == \A id \in acked : Recorded(id)

\* What append acknowledged is in the table, and no crash, rejection or later
\* append takes a row out again: an acknowledged decision is there for good.
THEOREM AcknowledgedStays ==
  Spec => /\ []AckedIsStored
          /\ [][rows \subseteq rows' /\ acked \subseteq acked']_vars
<1>1. [Next]_vars => [rows \subseteq rows' /\ acked \subseteq acked']_vars
  BY DEF Next, Step, CommitTimesOut, Crash, RejectSignature, Select, SelectTimesOut, RejectLink,
         InsertBusy, RejectDuplicate, Insert, StartCommit, Commit, Return, End, Call
<1>2. Init => AckedIsStored
  BY DEF Init, AckedIsStored
<1>3. StoreInv /\ ListInv /\ AckedIsStored /\ [Next]_vars => AckedIsStored'
  <2> SUFFICES ASSUME StoreInv, ListInv, AckedIsStored, [Next]_vars,
                      NEW id \in acked', id \notin acked
               PROVE  Recorded(id)
    BY <1>1 DEF AckedIsStored, Recorded, vars
  <2>1. PICK w \in Writers : Return(w)
    BY DEF Next, Step, CommitTimesOut, Crash, RejectSignature, Select, SelectTimesOut, RejectLink,
           InsertBusy, RejectDuplicate, Insert, StartCommit, Commit, Call, vars
  <2> QED
    BY <2>1 DEF Return, ListInv, Stored, Recorded
<1> QED
  BY <1>1, <1>2, <1>3, ListSafety, PTL DEF Spec

-----------------------------------------------------------------------------
(***************************************************************************)
(* Why every append ends.  That it does needs fairness and is left to TLC; *)
(* that the locks never close a circle is proved.                          *)
(***************************************************************************)

\* RESERVED and PENDING are for one transaction at a time.
OneReserver == \A v, w \in Writers : Reserved(v) /\ Reserved(w) => v = w

\* A commit waits for transactions that have selected and hold no more than
\* SHARED; those go on to their INSERT or end, and wait for nobody.
NoWaitingInCircles ==
  \A v, w \in Writers : Pending(w) /\ v # w /\ Reading(v) => pc[v] = "selected"

\* The guards of Step(w): only a commit waits, for readers; a SELECT that is
\* barred ends by its timeout.
CanStep(w) == \/ pc[w] \in {"called", "selected", "inserted", "committed"}
              \/ pc[w] = "committing" /\ ~OthersRead(w)

\* While an append is under way, one has a step to take.
SomeAppendGoesOn == (\E w \in Writers : pc[w] # "idle") => \E w \in Writers : CanStep(w)

LEMMA NextOneReserver == TypeOK /\ OneReserver /\ [Next]_vars => OneReserver'
<1> SUFFICES ASSUME TypeOK, OneReserver, [Next]_vars PROVE OneReserver'
  OBVIOUS
<1>t. pc \in [Writers -> {"idle", "called", "selected", "inserted", "committing", "committed"}]
  BY DEF TypeOK
<1>1. ASSUME NEW w \in Writers, Insert(w) PROVE OneReserver'
  <2>1. pc' = [pc EXCEPT ![w] = "inserted"] /\ \A v \in Writers \ {w} : ~Reserved(v)
    BY <1>1 DEF Insert, Goto, OthersReserve
  <2> QED
    BY <1>t, <2>1 DEF OneReserver, Reserved
<1>2. ASSUME NEW w \in Writers, StartCommit(w) PROVE OneReserver'
  BY <1>t, <1>2 DEF StartCommit, Goto, OneReserver, Reserved
<1>3. ASSUME NEW w \in Writers,
             \E to \in {"idle", "called", "selected", "committed"} : pc' = [pc EXCEPT ![w] = to]
      PROVE  OneReserver'
  BY <1>t, <1>3 DEF OneReserver, Reserved
<1>4. ASSUME NEW w \in Writers, Step(w) \/ CommitTimesOut(w) \/ Crash(w),
             ~Insert(w), ~StartCommit(w)
      PROVE  \E to \in {"idle", "called", "selected", "committed"} : pc' = [pc EXCEPT ![w] = to]
  BY <1>4 DEF Step, CommitTimesOut, Crash, RejectSignature, Select, SelectTimesOut, RejectLink,
              InsertBusy, RejectDuplicate, Commit, Return, End, Goto
<1>5. ASSUME NEW w \in Writers, NEW s, NEW id, NEW signer, NEW key, Call(w, s, id, signer, key)
      PROVE  pc' = [pc EXCEPT ![w] = "called"]
  BY <1>5 DEF Call, Goto
<1>6. CASE UNCHANGED vars
  BY <1>6 DEF vars, OneReserver, Reserved
<1> QED
  BY <1>1, <1>2, <1>3, <1>4, <1>5, <1>6 DEF Next

\* A commit never waits for a transaction that waits itself, and while any
\* append is under way one of them has a step to take: SQLite's locks, in the
\* order append takes them, cannot lock up.
THEOREM LocksNeverLockUp == Spec => [](NoWaitingInCircles /\ SomeAppendGoesOn)
<1>1. Init => OneReserver
  BY DEF Init, OneReserver, Reserved
<1>2. OneReserver => NoWaitingInCircles
  BY DEF OneReserver, NoWaitingInCircles, Reserved, Pending, Reading
<1>3. TypeOK /\ NoWaitingInCircles => SomeAppendGoesOn
  <2> SUFFICES ASSUME TypeOK, NoWaitingInCircles, NEW w \in Writers, pc[w] # "idle",
                      ~CanStep(w)
               PROVE  \E v \in Writers : CanStep(v)
    BY DEF SomeAppendGoesOn
  <2>1. pc[w] = "committing" /\ OthersRead(w)
    BY DEF TypeOK, CanStep
  <2> QED
    BY <2>1 DEF NoWaitingInCircles, Pending, OthersRead, CanStep
<1> QED
  BY <1>1, <1>2, <1>3, NextOneReserver, StoreTypes, PTL DEF Spec
=============================================================================
