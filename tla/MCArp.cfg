\* Files of four lines and files that overflow the tables, and three packets.
SPECIFICATION ArpSpec
CONSTANTS
    RingSize = 3
    MaxSend = 35
    AddrSlots = 4
    RouteSlots = 32
    None = None
    ConfigFile <- Files
    Gateway <- Gateways
INVARIANTS
    ConfigUnderstood
    AnsweredOnce
    ResolvedByGateway
PROPERTY
    ArpUsesDriver
