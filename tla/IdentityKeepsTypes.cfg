SPECIFICATION Spec
CONSTANTS
  Instruments <- MCInstruments
  ProtectedMetrics = {}
  ProtectedPrefixes = {"up"}
  StartsWith <- MCStartsWith
  Coercion <- MCCoercion
  Before <- MCBefore
  ContextAttributes = {"service.shard"}
  Absent = Absent
INVARIANT DecidedByItsOwnIdentity
