SPECIFICATION FairSpec
CONSTANTS
  Clouds <- MCClouds
  Kinds <- MCKinds
  MaxFaults = 2
  MaxEdits = 2
INVARIANTS WiredIsConnected ScanTells
PROPERTIES ExportsCatchUp ImportsEnd
