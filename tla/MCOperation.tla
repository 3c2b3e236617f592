----------------------------- MODULE MCOperation -----------------------------
\* Two forms and a page that loads share an operation.
EXTENDS Operation
=============================================================================
