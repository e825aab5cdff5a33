--------------------------------- MODULE MCIP ---------------------------------
EXTENDS IP
=============================================================================
