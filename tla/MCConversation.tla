--------------------------- MODULE MCConversation ---------------------------
EXTENDS Conversation, TLC

CONSTANTS w1, w2, ann, bob, cleo, dora

Symmetry == Permutations({w1, w2}) \cup Permutations({bob, cleo})
=============================================================================
