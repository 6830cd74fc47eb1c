------------------------------- MODULE MCSsufs -------------------------------
EXTENDS Ssufs

\* One buffer, in which every byte tells its position, and seeks in both directions.
MCBuffers == {[k \in 0..MaxBytes - 1 |-> k + 1]}
MCSeeks == {-1, 2}
=============================================================================
