\* One name, two digests of three lengths, sizes 0 and 3, two inodes and
\* populated directories of up to one child: every variant of InodeData,
\* every digest length check outcome, and every attribute call.
CONSTANTS
  Names = {n1}
  DigestIds = {d1, d2}
  DigestLens <- MCDigestLens
  Sizes = {0, 3}
  Targets <- MCTargets
  Inodes = {1, 2}
  MaxChildren = 1
  BitOr <- MCBitOr
  BitAnd <- MCBitAnd
SPECIFICATION Spec
INVARIANTS FromNodeFaithful AttrAgreesWithType
\* After from_node has panicked the inode is gone; a converted inode's
\* attributes can be asked for forever.
CHECK_DEADLOCK FALSE
