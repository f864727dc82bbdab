SPECIFICATION SegmentsSpec
CONSTANTS
  Writer = {w1}
  Reader = {r1, r2}
  Line = {l1, l2}
  Segment = {g1, g2, g3, g4}
SYMMETRY Symmetry
INVARIANTS FaultsOnlyByRivals LetterBoxWhenAlone
