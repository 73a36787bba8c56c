SPECIFICATION Spec
CONSTANTS
  MaxReports = 3
INVARIANTS TypeOK SentInOrder
PROPERTIES CacheKept CacheDrained
