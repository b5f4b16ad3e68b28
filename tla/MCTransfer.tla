----------------------------- MODULE MCTransfer -----------------------------
EXTENDS TransferInvariant
=============================================================================
