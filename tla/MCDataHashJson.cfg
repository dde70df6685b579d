SPECIFICATION Spec
CONSTANT DataHashes <- PlainBindings
INVARIANT
  ReadsBack
\* to_json has returned.
CHECK_DEADLOCK FALSE
