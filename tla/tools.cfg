\* One call each, over all ranges of days and all widths of masks.
SPECIFICATION ToolsSpec
CONSTANTS
  Day = 4
  Days = 5
  Offset = 1
  Saved = 1
  Summer <- MCSummer
  Epoch = 1
  Nows = {4, 16}
  Width = 2
  Calendars <- MCCalendars
  Masks <- MCMasks
  Addresses <- MCAddresses
INVARIANTS
  DaysExact
  NetsExact
CHECK_DEADLOCK FALSE
