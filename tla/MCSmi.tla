-------------------------------- MODULE MCSmi --------------------------------
EXTENDS Smi
=============================================================================
