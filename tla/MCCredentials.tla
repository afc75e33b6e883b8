--------------------------- MODULE MCCredentials ---------------------------
EXTENDS Credentials, TLC

\* Nothing tells two rows, two accounts or two secrets apart.
Symmetry == Permutations(Ids) \union Permutations(Accounts) \union Permutations(Secrets)
=============================================================================
