----------------------------- MODULE MCUpdater -----------------------------
\* The instance of the header's update and tools dialogs that TLC checks.
EXTENDS Updater
=============================================================================
