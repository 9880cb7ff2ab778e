CONSTANT Words <- MCWords
SPECIFICATION Spec
INVARIANT TypeOK
INVARIANT DecodersAgree
INVARIANT OnlyHintOverlaps
INVARIANT EveryInstructionDecodes
CHECK_DEADLOCK FALSE
