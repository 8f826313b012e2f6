SPECIFICATION SwitchSpec
CONSTANTS
  AddrSpace = 32
  Task <- MCTask
  Layouts <- MCLayouts
  Flash <- MCFlash
  Contents <- MCContents
  Value <- MCValue
  Places = 2
  Result <- MCResult
  Entries <- MCEntries
INVARIANTS GrantIsExact NoTransientGrant AcceptedBuffersAreOwn KernelStackReady
PROPERTIES TrapsAreTransparent
