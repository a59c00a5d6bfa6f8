------------------------------- MODULE MCBridge -------------------------------
EXTENDS Bridge, TLC

CONSTANT Replayed              \* the message that Discord delivers again

MCDeliveries == [m \in Messages |-> IF m = Replayed THEN 3 ELSE 1]

=============================================================================
