SPECIFICATION RingSpec
CONSTANTS
    PACKET_BUFFER_SIZE = 3
    Packet <- MCPacket
PROPERTY ImplementsQueue
