SPECIFICATION ScreensSpec
CONSTANTS
    Components <- ComponentTable
    Page <- PageTable
    Legacy <- LegacyTable
INVARIANTS  GatesHold WantedKept
PROPERTIES RedirectsEnd
CHECK_DEADLOCK FALSE
