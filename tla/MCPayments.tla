------------------------------ MODULE MCPayments ------------------------------
EXTENDS Payments, TLC

\* The records are alike, and so are the chats.
Alike == Permutations(Purchases) \cup Permutations(Chats)

=============================================================================
