SPECIFICATION Spec
CONSTANTS
  Conns <- MCConns
  Ports <- MCPorts
  Addresses <- MCAddresses
  Origins <- MCOrigins
  None = None
INVARIANTS TypeOK ConnsAreLive ThrewOnlyIfGone FallIsExplained
PROPERTY GoneIsFreed
CHECK_DEADLOCK FALSE
