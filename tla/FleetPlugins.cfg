\* Plugins on the broker or on two other clusters, one of which comes or goes;
\* one edit.
SPECIFICATION PluginFairSpec
CONSTANTS
  c1 = c1
  c2 = c2
  c3 = c3
  Member <- const_Member
  NoCluster = NoCluster
  Broker = c1
  FirstReady <- const_FirstReady
  FleetSpec <- const_FleetSpec
  MaxPluginEdits = 1
  MaxFaults = 1
PROPERTIES
  KeepsPromise
  ReleasesFollowSpec
CHECK_DEADLOCK FALSE
