SPECIFICATION Spec
CONSTANTS
  Bars <- MCBars
  Specs <- MCSpecs
  Samples <- MCSamples
  Overshoots <- MCOvershoots
  MaxBars = 5
INVARIANTS
  WindowsSealed
  RacesAgree
PROPERTIES
  AnsweredForGood
  LabelsOnlyTighten
