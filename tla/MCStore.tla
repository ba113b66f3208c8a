------------------------------- MODULE MCStore -------------------------------
EXTENDS Store

\* The whole stream, and a range that begins and ends inside of it.
MCRanges == {<<None, None>>, <<2, 4>>}
=============================================================================
