\* The ring as a first-in first-out tape writer, with sockets too small for
\* the data of a request.
SPECIFICATION Spec
CONSTANTS
    N = 3
    MaxReq = 6
    SocketHolds = FALSE
PROPERTIES
    ImplementsVolumeWriter
    VolumeEnds
