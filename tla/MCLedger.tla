------------------------------ MODULE MCLedger ------------------------------
EXTENDS LedgerMachine
=============================================================================
