CONSTANTS
  MaxDescriptors = 3
  Spawners = {s1, s2}
  Mains = {f}
  Names = {n}
  Unnamed = u
  lib1 = lib1
  lib2 = lib2
  Libraries = {lib1, lib2}
  MaxOpen = 3
  MaxPath = 2
  MaxBuffer = 6
  MaxText = 6
  Letters = {"a"}
  Words <- MCWords
  Ports <- MCPorts
SPECIFICATION MCSpec
INVARIANTS HandedOver PluginReferences ConfigMatches UriRoundTrip PathsAgree
PROPERTY SpawnReturns
CHECK_DEADLOCK FALSE
