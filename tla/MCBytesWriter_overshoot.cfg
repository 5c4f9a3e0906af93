\* A sink that may accept any non-empty prefix of a buffer (a socket or a
\* pipe under backpressure; the unit test mock that takes 4 size bytes).
CONSTANTS
  PayloadLens <- MCPayloadLens
  Stream <- MCStream
  MaxBuf = 3
  PartialWrites = TRUE
  WireCap <- MCWireCap

SPECIFICATION Spec

INVARIANT WireIsFramePrefix

\* After poll_shutdown has shut the sink down the writer is finished.
CHECK_DEADLOCK FALSE
