SPECIFICATION FairSpec
CONSTANTS
  Requests <- MCRequests
  Directories <- MCDirectories
  Variants <- MCVariants
  Dependencies = {"curl", "flite"}
  Present = {"curl"}
  Preference <- MCPreference
  Configurations <- MCConfigurations
  Descriptors = {1, 2, 3, 4}
  Timeout = TRUE
  MaxTroubles = 2
  MaxSignals = 2
  MaxConnects = 1
INVARIANT RightModule
INVARIANT OwnDescriptors
INVARIANT NoOrphans
PROPERTY IdleQuits
CHECK_DEADLOCK FALSE
