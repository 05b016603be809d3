------------------------------ MODULE MCStartup -------------------------------
EXTENDS Startup

\* Congruent to a port modulo 4 are -3, 5 and 61; 61 is no count, and negative
\* once signed.
MCNumbers == {-3, 0, 1, 2, 5, 61}

==============================================================================
