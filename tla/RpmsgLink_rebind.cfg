SPECIFICATION Spec
CONSTANTS
  Arp = Arp
  f1 = f1
  f2 = f2
  Frame <- MCFrame
  PbufCount <- MCPbufCount
  Dummy = Dummy
  EptPriv = {"null", "priv"}
  RingSize = 2
  MaxBinds = 2
INVARIANT FakePacketComesFirst
CHECK_DEADLOCK FALSE
