\* The settings page against other surfaces, failures and restarts.
SPECIFICATION Spec
CONSTANTS
  Slots <- MCSlots
  MaxEvents = 3
INVARIANT
  TypeOK
  ShownIsCurrent
PROPERTY
  SettingsEditsSurvive
  SleepEditsSurvive
