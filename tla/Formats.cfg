SPECIFICATION Spec
INVARIANT BitfieldDecoding
INVARIANT SelectionSound
INVARIANT RarestFirstIsRarest
INVARIANT HandshakeAccepted
INVARIANT MetainfoLayout
INVARIANT TrackerPeersAgree
CHECK_DEADLOCK FALSE
INVARIANT DiskRoundTrip
INVARIANT BlocksTilePieces
INVARIANT IntegrationReport
INVARIANT BencodeRoundTrip
INVARIANT MessageRoundTrip
