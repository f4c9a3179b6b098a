\* Two threads on one manager with two strategies; two managers to set.
CONSTANTS
  Threads = {t1, t2}
  Managers = {m1, m2}
  Names = {a, b}
  Unknown = unknown
  Null = null
SPECIFICATION Spec
INVARIANTS
  TypeOK
  NameMatchesStrategy
PROPERTIES
  ReplacesOnlyInARace
  LookupsKeepWorking
