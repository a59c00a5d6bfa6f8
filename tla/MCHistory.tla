------------------------------- MODULE MCHistory -------------------------------
EXTENDS History, TLC

MCCost == "user" :> 2 @@ "call" :> 1 @@ "return" :> 3 @@ "text" :> 2
=============================================================================
