----------------------------- MODULE MCFileLocks -----------------------------
EXTENDS FileLocks
=============================================================================
