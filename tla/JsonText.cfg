SPECIFICATION MCSpec
CONSTANTS
  Parts = {"text", "pointer"}
  Texts <- MCTexts
  FlagSets <- MCFlagSets
  WriteFlagSets <- MCWriteFlagSets
  StrLens = {0, 20}
  Rewritten <- Whole
  DocTrees <- MCDocTrees
  Pointers <- MCPointers
  NewTrees <- MCNewTrees
  Patches <- MCPatches
  MaxRoom = 5
  MaxCtxOps = 2
CHECK_DEADLOCK FALSE
INVARIANTS
  ReadsTheGrammar
  MemoryExact
  ErrorsTell
  RereadSame
  CopiesAgree
  PointersAgree
