\* A sink that accepts either the whole buffer or nothing (Vec<u8>, the
\* tokio_test mocks of the unit tests).
CONSTANTS
  PayloadLens <- MCPayloadLens
  Stream <- MCStream
  MaxBuf = 3
  PartialWrites = FALSE
  WireCap <- MCWireCap

SPECIFICATION FairSpec

INVARIANT WireIsFramePrefix

PROPERTY PollTerminates

\* After poll_shutdown has shut the sink down the writer is finished.
CHECK_DEADLOCK FALSE
