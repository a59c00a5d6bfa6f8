---------------------------- MODULE MCCredentials ----------------------------
EXTENDS Credentials, TLC

=============================================================================
