---------------------------- MODULE MCQuarantine ----------------------------
\* An instance of ImageQuarantine for TLC.
EXTENDS ImageQuarantine

CONSTANTS i1, i2

=============================================================================
