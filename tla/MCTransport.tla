---------------------------- MODULE MCTransport ----------------------------
EXTENDS Transport

CONSTANTS a, b, c

\* a and b have each other as bootstrap peers, and a has c as well.
Bootstrap == {<<a, b>>, <<b, a>>, <<a, c>>}
=============================================================================
