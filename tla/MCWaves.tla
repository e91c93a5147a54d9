------------------------------- MODULE MCWaves -------------------------------
\* Waves for TLC: every suite of N tests over these lists of capabilities.
EXTENDS Waves

\* Absent, one capability, two, and one listed twice.
FewLists == {<<>>, <<"A">>, <<"B">>, <<"A", "B">>, <<"A", "A">>}

=============================================================================
