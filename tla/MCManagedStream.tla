--------------------------- MODULE MCManagedStream ---------------------------
EXTENDS ManagedStream
=============================================================================
