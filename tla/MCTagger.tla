------------------------------ MODULE MCTagger ------------------------------
EXTENDS Tagger, TLC
Symmetry == Permutations(Clients) \cup Permutations(Domains) \cup Permutations(Payloads)
=============================================================================
