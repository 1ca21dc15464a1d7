--------------------------- MODULE MCRepositories ---------------------------
EXTENDS Repositories, TLC

CONSTANT dev

MCPath == {<<"a">>, <<"a", "b">>, <<"c">>}
MCBinary == {<<"c">>}
=============================================================================
