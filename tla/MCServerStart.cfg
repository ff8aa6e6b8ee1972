SPECIFICATION FairSpec
CONSTANTS
  Choices <- MCChoices
INVARIANTS
  AcceptedSettingsStart
  EverythingReleased
PROPERTIES
  StopsWhenAsked
