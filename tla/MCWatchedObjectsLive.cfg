SPECIFICATION FairSpec
CONSTANTS
  Service = {"messaging", "networking"}
  Uses <- MCUses
  Topics = {"stacklight"}
  MaxEvents = 2
PROPERTIES RenderedCurrent CopiesCurrent TfFieldsKept
CHECK_DEADLOCK FALSE
