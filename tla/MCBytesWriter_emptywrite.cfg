\* A sink that accepts whole buffers; the caller may pass an empty buffer.
CONSTANTS
  PayloadLens <- MCPayloadLens
  Stream <- MCStream
  MaxBuf = 1
  PartialWrites = FALSE
  WireCap <- MCWireCap

SPECIFICATION Spec

INVARIANT EmptyWriteAccepted

\* After poll_shutdown has shut the sink down the writer is finished.
CHECK_DEADLOCK FALSE
