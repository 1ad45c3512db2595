\* More slots than neurons, and thresholds no slot reaches.
CONSTANTS
  NLog = 2
  NPhys = 3
  Tau = 2
  VThreshold = 5
  AgeThresh = 100
  PotThresh <- Unreachable
  Currents <- AnySign
  MaxAge = 3
SPECIFICATION Spec
PROPERTY ReproducesSoma
