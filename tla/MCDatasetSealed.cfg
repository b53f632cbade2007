SPECIFICATION Spec
CONSTANTS
  Bars <- MCBars
  Specs <- MCSpecs
  Samples <- MCSamples
  Overshoots <- MCOvershoots
  MaxBars = 5
INVARIANTS
  AnswersSealed
