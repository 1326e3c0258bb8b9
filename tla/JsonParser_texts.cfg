\* Every text up to the bound, every allocation that can fail.
SPECIFICATION Spec
CONSTANTS
  Strings = {"a"}
  MaxTokens = 9
  NestLimit = 3
INVARIANTS
  TypeOK
  OneOwner
  ListsLinked
  ReadsInPlace
  ReadsTheText
  RejectsOnlyBadText
\* A parse ends.
CHECK_DEADLOCK FALSE
