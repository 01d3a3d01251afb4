-------------------------- MODULE MCClusterWrites --------------------------
\* Instances of ClusterWrites for TLC; the .cfg files give the constants.
EXTENDS ClusterWrites
=============================================================================
