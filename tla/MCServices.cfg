SPECIFICATION Spec
CONSTANTS
  CoolingSetups <- AllSetups
  Energies = {0, 2}
  MinDuration = 1
  DefaultDuration = 2
  Milliseconds = 1
  Words = 5
  CalibrateReference <- TwoPressures
  CheckPressures = {"50"}
  MinPointSize = 2
  Requests = 2
  Servers = {"s1", "s2", "s3"}
  Machines = {"m1"}
  AddressOf <- PeerAddress
INVARIANTS
  CoolingOffInWeld
  PointsMeasured
  LinkServesConfig
PROPERTIES
  CoolingEnds
  CalibrationAnswered
  LinkComes
CHECK_DEADLOCK FALSE
