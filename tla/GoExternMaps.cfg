CONSTANT
  Signatures <- MCSignatures
SPECIFICATION Spec
INVARIANTS MarksOwnFrame
CHECK_DEADLOCK FALSE
