------------------------- MODULE MCResultDispatcher -------------------------
\* Instance for TLC: two states and one detail that may change without them, a
\* queue that overflows with its third message, and two faults.
EXTENDS ResultDispatcher
=============================================================================
