---------------------------- MODULE MCInodeData ----------------------------
EXTENDS InodeData, Bitwise

\* The bitwise operators of u32 on the naturals below 2^32.
MCBitOr(a, b) == a | b
MCBitAnd(a, b) == a & b

\* Digests one byte short, exact, and one byte long.
MCDigestLens == {31, 32, 33}
\* An empty target and a two-byte one ("/a").
MCTargets == {<<>>, <<47, 97>>}

=============================================================================
