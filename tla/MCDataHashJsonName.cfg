SPECIFICATION Spec
CONSTANT DataHashes <- QuotedBindings
INVARIANT
  ReadsBack
\* to_json has returned.
CHECK_DEADLOCK FALSE
