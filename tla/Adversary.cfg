CONSTANTS
  n1 = n1
  n2 = n2
  n3 = n3
  NoNode = NoNode
  Unknown = Unknown
  NodeOrder <- ThreeInOrder
SPECIFICATION Spec
INVARIANTS
  TypeOK
  SomeNodeAnswers
PROPERTIES
  DamageIsFinal
CHECK_DEADLOCK FALSE
