\* A sink that accepts either the whole buffer or nothing, as in the unit
\* tests: BytesWriter refines FramedPacket.
CONSTANTS
  PayloadLens <- MCPayloadLens
  Stream <- MCStream
  MaxBuf = 3
  PartialWrites = FALSE
  WireCap <- MCWireCap

SPECIFICATION Spec

PROPERTY Refinement

\* After poll_shutdown has shut the sink down the writer is finished.
CHECK_DEADLOCK FALSE
