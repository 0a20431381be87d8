------------------------------- MODULE MCSession -------------------------------
\* Session for TLC, with the inductive invariant of its proofs; the parameters are
\* sets of names, given in the cfg.
EXTENDS SessionProofs
================================================================================
