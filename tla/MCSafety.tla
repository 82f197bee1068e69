------------------------------ MODULE MCSafety ------------------------------
EXTENDS SafetyLockdown
=============================================================================
