--------------------------- MODULE MCResourcePage ---------------------------
\* Instances of ResourcePage for TLC; the .cfg files give the constants.
EXTENDS ResourcePage
=============================================================================
