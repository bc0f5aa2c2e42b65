------------------------------ MODULE MCFraming ------------------------------
EXTENDS Framing
ClientSends == [client |-> 2, server |-> 0]
=============================================================================
