-------------------------------- MODULE MCRemote --------------------------------
\* Remote for TLC; the parameters are given in the cfg.
EXTENDS Remote
================================================================================
