CONSTANTS
  p1 = p1
  p2 = p2
  Procs <- TwoProcs
  Commands <- AllCommands
  MiB = 2
  Full = 3
  StubSizes <- UpToMiB
  MaxOverwriters = 2
SPECIFICATION Spec
SYMMETRY Shells2
PROPERTY InstallNeverOverwrites
