------------------------------ MODULE B3Digest ------------------------------
(***************************************************************************)
(* B3Digest of src/store/src/digests.rs: a BLAKE3 digest, constructed     *)
(* from bytes only if there are exactly 32 of them.  The digest bytes are *)
(* abstracted to an identity and a length, the only parts construction    *)
(* looks at.                                                               *)
(***************************************************************************)
EXTENDS Naturals

\* Raw digest bytes as a protobuf message carries them: [id, len].
RawDigest(id, n) == [id |-> id, len |-> n]

\* Result<B3Digest, Error>
Ok(v) == [ok |-> TRUE, val |-> v]
\* Error::InvalidDigestLen(usize)
InvalidDigestLen(n) == [ok |-> FALSE, err |-> n]

\* Mutant: the length check only refuses digests that are too long.
TryFromVecTooLongOnly(value) ==
  IF value.len > 32 THEN InvalidDigestLen(value.len) ELSE Ok(value)

\* impl TryFrom<Vec<u8>> for B3Digest
TryFromVec(value) ==
  IF value.len # 32 THEN InvalidDigestLen(value.len) ELSE Ok(value)

\* impl TryFrom<bytes::Bytes> for B3Digest: the same check.
TryFromBytes(value) ==
  IF value.len # 32 THEN InvalidDigestLen(value.len) ELSE Ok(value)

=============================================================================
