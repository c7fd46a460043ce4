SPECIFICATION Spec
CONSTANTS
  Run = {r1, r2}
  NumSections = 2
  Pairs = {1}
  MaxSaves = 3
  MaxConversions = 2
  MaxIndexed = 2
  Index = {es}
  BatchSize = 1
  RowsUnordered = FALSE
INVARIANTS TypeOK OneCurrentArtifact ChunksTraceable OneVoice StageCovers
PROPERTIES AnswersReplaced
SYMMETRY Runs
