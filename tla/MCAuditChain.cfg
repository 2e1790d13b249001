SPECIFICATION Spec
CONSTANTS
  Legacy <- MCLegacy
  Retention = 1
  MaxAppends = 3
  MaxTime = 3
  MaxEdits = 1
  MaxSkews = 1
  MaxReaders = 1
INVARIANTS
  TypeOK
  UntouchedVerifies
  EvidenceStays
  PageTruthful
  CacheTruthful
PROPERTIES
  PrunesOldPrefix
