----------------------------- MODULE MCLogScan -----------------------------
EXTENDS LogScan
============================================================================
