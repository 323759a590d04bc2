------------------------------ MODULE MCOfflineFS ------------------------------
EXTENDS OfflineFS

CONSTANTS fileA, fileB      \* two paths of the share
================================================================================
