------------------------------ MODULE MCSignIn ------------------------------
EXTENDS SignIn, TLC

Symmetries == Permutations(Req) \cup Permutations(Session) \cup Permutations(Challenge)
                \cup Permutations(Browser)
=============================================================================
