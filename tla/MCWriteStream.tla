---------------------------- MODULE MCWriteStream ----------------------------
EXTENDS WriteStream

\* A part's digest is its length.
Lengths == 1..PartSize
=============================================================================
