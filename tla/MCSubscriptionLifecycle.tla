----------------------- MODULE MCSubscriptionLifecycle -----------------------
EXTENDS SubscriptionLifecycle, TLC

CONSTANTS s1, s2, w1
=============================================================================
