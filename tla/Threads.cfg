SPECIFICATION FairSpec
CONSTANTS
  Workers = {w1, w2}
  Cancellers = {c1, c2}
  Readers = {r1}
  NoOne = NoOne
  Contenders = {t1, t2, t3}
  Attempts = 2
  Permits = 2
  Word = 4
  Rounds = 1
INVARIANTS TypeOK OneVerdict RefusedCancelMeansDecided ReadersSeeTheVerdict
INVARIANTS MutualExclusion BuiltBeforeUse PermitsConserved PeakCoversReports
PROPERTY CallsReturn
CHECK_DEADLOCK FALSE
