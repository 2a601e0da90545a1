----------------------------- MODULE MCExtension -----------------------------
\* Two browser downloads of one address: the second is what an alert asks for, or
\* the page once more.
EXTENDS Extension, TLC

CONSTANTS a, b, u

SameUrl == (a :> u @@ b :> u)
=============================================================================
