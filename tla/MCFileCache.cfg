\* Four nodes for three places, two contents: every order of use, evictions.
SPECIFICATION Spec
CONSTANTS
  Node = {n1, n2, n3, n4}
  Guard = Guard
  Null = Null
  Capacity = 3
  Content <- MCContent
INVARIANTS
  TypeOK
  ListIsSound
PROPERTIES
  ImplementsLRU
