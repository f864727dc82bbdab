------------------------ MODULE MCThreadManagement ------------------------
EXTENDS ThreadManagement
=============================================================================
