---------------------------- MODULE MCSVScoped ----------------------------
EXTENDS SVScoped

MCScopes == {<<"TOP">>, <<"TOP", "a">>, <<"TOP", "a", "b">>, <<"TOP", "b">>}

MCPaths == {<<>>, <<"a">>, <<"b">>, <<"a", "b">>, <<"TOP">>, <<"TOP", "a">>}

MCNames == [dots : 0 .. 4, path : MCPaths]
===========================================================================
