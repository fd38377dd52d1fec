--------------------------- MODULE MCMasternodeList ---------------------------
EXTENDS MasternodeList
===============================================================================
