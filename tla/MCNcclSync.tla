----------------------------- MODULE MCNcclSync -----------------------------
EXTENDS NcclSync
AllStyles == {"fixed", "explorer_driven", "trainer_driven", "fully_async"}
=============================================================================
