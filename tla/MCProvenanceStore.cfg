SPECIFICATION Spec
CONSTANTS
  Writers = {w1, w2}
  Streams = {decisions, audits}
  Ids = {d1, d2}
  Signers = {k1, k2}
  Keys = {k1}
  Genesis = GENESIS
  NoCall = NoCall
INVARIANTS
  TypeOK
  HeadStable
  ChainIntact
  RecordedOnce
  StreamsValidate
PROPERTIES
  AppendReturns
  ImplementsLog
