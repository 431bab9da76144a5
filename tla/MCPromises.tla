----------------------------- MODULE MCPromises -----------------------------
\* Instances of Promises; the constants are numbers given in the cfg files.
EXTENDS Promises
=============================================================================
