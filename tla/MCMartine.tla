------------------------------ MODULE MCMartine ------------------------------
\* Instances of Martine's daemons.
EXTENDS Martine, TLC
=============================================================================
