-------------------------- MODULE MCProgressWindow --------------------------
\* The instance of the progress window that TLC checks.
EXTENDS ProgressWindow
=============================================================================
