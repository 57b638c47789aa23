CONSTANTS
  c1 = c1
  e1 = e1
  e2 = e2
  Calendars = {c1}
  Events = {e1, e2}
  Carries <- OneCalendar
  Hashes = {h1, h2}
  Ends = {x1}
  Tagged = {}
  Blocked = {}
  Workers = {w1, w2}
  MaxQueue = 1
  MaxChanges = 2
  Modes = {"incremental", "reseed"}
  Faults = {"api", "expiry", "notoken", "precheck", "db", "crash", "abort", "enrich"}
  NoToken = NoToken
SPECIFICATION FairSpec
INVARIANTS Mirrored CompletedMeansPersisted
PROPERTIES JobTerminates
