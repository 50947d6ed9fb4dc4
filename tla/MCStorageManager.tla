--------------------------- MODULE MCStorageManager ---------------------------
EXTENDS StorageManager
=============================================================================
