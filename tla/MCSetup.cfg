CONSTANTS
  Commands <- MCCommands
  Ports <- MCPorts
  Inherited <- MCInherited
  Clients = {"c1", "c2"}
  MaxInbox = 2
SPECIFICATION Spec
INVARIANTS
  SetupTypeOK
  SocketNotLeft
  FileIsNotSocket
  PeerIsFirst
  UsesOperands
CHECK_DEADLOCK FALSE
