SPECIFICATION Spec
CONSTANTS
  Blocks <- MCBlocks
  FalseGroups <- MCFalseGroups
  Nid1Width = 256
  ConfigNid2 = 3
  Drifts <- MCDrifts
INVARIANTS SearchIdentifiesBlock MibNamesItsCell FirstBlocksDecode LockedHypothesis PayloadRestsOnPilots CorrectionNeverHurts
