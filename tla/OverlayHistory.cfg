SPECIFICATION Spec
CONSTANTS
    Overlays = {"a", "b", "c"}
    Pages = {"p", "q"}
    Queries = {0, 1}
    MaxIds = 4
    MaxOps = 5
INVARIANTS BackClosesTop NoStaleEntry EntriesMatchStack
PROPERTIES ClosingKeepsUrl
