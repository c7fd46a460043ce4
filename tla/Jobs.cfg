SPECIFICATION Spec
CONSTANTS
  Descriptions <- MCDescriptions
  Transcript <- MCTranscript
  MaxPopulated = 1
  Id <- MCId
  PageSize = 2
  Points <- MCPoints
  SectionTexts <- MCTexts
  Concept = {"topic"}
  Levels <- MCLevels
  Threshold = 1
  QueryLimit = 2
  BatchSize = 3
  Verdicts = {"entailment", "contradiction"}
  Orders <- MCOrders
  Page <- MCPage
  Worker = {"w1", "w2"}
  Recipe = {"u", "v", "x"}
  Links <- MCLinks
  MaxTries = 2
INVARIANTS SectionsHoldTheirTime EditsStoredWhole HeadLacksOneKey DiffBracketed DuplicatesExact PairsOnce ConceptsScored ScanComplete
PROPERTIES DowngradeLosesOneKey TextsKept ScanEnds
CHECK_DEADLOCK FALSE
