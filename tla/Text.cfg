SPECIFICATION MCSpec
CONSTANTS
  Patterns <- RuleGlobs
  Names <- Subjects
  Foci = {"glob", "edits", "diff", "box", "line", "search", "skills", "images", "chat"}
CHECK_DEADLOCK FALSE
INVARIANTS
  VerdictIsRight
  AnswersAreRight
  ScreenIsTrue
PROPERTIES
  EditsAreExact
  LoopsEnd
