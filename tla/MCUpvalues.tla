----------------------------- MODULE MCUpvalues -----------------------------
EXTENDS Upvalues

\* Two plain values tell a resolved slot from a wrongly resolved one.
MCVals == {"a", "b"}

=============================================================================
