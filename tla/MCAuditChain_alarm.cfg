SPECIFICATION Spec
CONSTANTS
  Legacy <- MCLegacy
  Retention = 1
  MaxAppends = 3
  MaxTime = 3
  MaxEdits = 0
  MaxSkews = 0
  MaxReaders = 1
INVARIANT NoFalseAlarm
