----------------------------- MODULE MCCoverage -----------------------------
\* Coverage as it is: three imports over six instants meet in every way two
\* neighbours and a third can.
EXTENDS Coverage

=============================================================================
