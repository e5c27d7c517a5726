--------------------------- MODULE MCShmemTarget ---------------------------
EXTENDS ShmemTarget

CONSTANTS a, b, c

NoControl == [t \in {a, b, c} |-> <<>>]
\* b forwards what it reads to a.
Forwards == [NoControl EXCEPT ![b] = <<a>>]
\* a has two consumers.
Chain == [links |-> <<<<a, b>>, <<b, a>>, <<c, a>>>>, control |-> NoControl,
          tooLong |-> FALSE, data |-> 2]
\* Two targets that are each other's source.
Pair == [links |-> <<<<a, b>>, <<b, a>>>>, control |-> Forwards,
         tooLong |-> TRUE, data |-> 2]
\* a has two sources.
TwoSources == [links |-> <<<<a, b>>, <<a, c>>, <<c, b>>>>, control |-> NoControl,
               tooLong |-> FALSE, data |-> 2]
MCSetups == {Chain, Pair, TwoSources}
============================================================================
