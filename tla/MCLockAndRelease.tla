-------------------------- MODULE MCLockAndRelease --------------------------
EXTENDS LockAndRelease
=============================================================================
