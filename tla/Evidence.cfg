SPECIFICATION Spec
CONSTANTS
  InputFiles <- MCInputFiles
  CoreFiles <- MCCoreFiles
  Added <- MCAdded
  MaxEdits = 1
  CPU_CORE_PORTS <- MCPorts
  Combinational = {"AND"}
  FlipFlop = {"DFF"}
  MaxDepth = 256
  Designs <- MCDesigns
  plan_tests <- MCPlan
  Programs <- MCPrograms
  negative_cases <- MCNegative
  sources <- MCSources
  Categories <- MCCategories
  Bins = {"load_hazard"}
  Dumps <- MCDumps
  Period = 2
  MaxTime = 8
  CommandLines <- MCCommandLines
  Edited <- MCEdited
  AlteredDesigns <- MCAltered
INVARIANTS
  PassedAsTested
  PublishedAsTested
  ToolsHonoured
  NetlistCounted
  PublishedNetlist
  AssetsLinked
  PanelsMeasured
