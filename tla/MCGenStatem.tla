---------------------------- MODULE MCGenStatem ----------------------------
EXTENDS GenStatem
SomeActions ==
    {<<>>, <<"reply">>, <<"postpone">>, <<"timeout">>,
     <<"timeout", "timeout">>, <<"internal", "postpone">>,
     <<"reply_old", "postpone">>}
=============================================================================
