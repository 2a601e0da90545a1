-------------------------- MODULE MCExtensionConfig --------------------------
\* Two choices and two ports.
EXTENDS ExtensionConfig

CONSTANTS never, hover, p, q
=============================================================================
