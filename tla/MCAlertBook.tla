------------------------------ MODULE MCAlertBook ------------------------------
EXTENDS Alerts, TLC
EpisodeSymmetry == Permutations(Episodes)
================================================================================
