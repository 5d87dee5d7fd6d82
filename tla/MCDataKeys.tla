----------------------------- MODULE MCDataKeys -----------------------------
EXTENDS DataKeys
=============================================================================
