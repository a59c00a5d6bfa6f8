----------------------------- MODULE MCLifecycle -----------------------------
EXTENDS Onboarding, TLC

=============================================================================
