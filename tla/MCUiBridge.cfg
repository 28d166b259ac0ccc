SPECIFICATION Spec
CONSTANTS
  d1 = d1 d2 = d2
  Dialogs = {d1, d2}
  Timed = {d2}
  Tabs = {t1}
  Answers = {yes, Cancelled}
  Cancelled = Cancelled
  MaxRuns = 2
INVARIANTS TypeOK CardsTrue HistoryTrue
PROPERTY KeepsPromise
CHECK_DEADLOCK FALSE
