----------------------------- MODULE MCWallets -----------------------------
EXTENDS Wallets
=============================================================================
