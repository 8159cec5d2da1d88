---------------------------- MODULE MCHttpMessage ----------------------------
(* Short strings for HttpMessage. *)
EXTENDS HttpMessage

MCChars == {"/", "?", "s", "t", "m", "x", "y", "c", "C"}
MCtolower(ch) == IF ch = "C" THEN "c" ELSE ch

MCUrls   == {<<"/", "m", "x">>, <<"/", "s", "/", "m", "x">>, <<"/", "s", "/", "t", "/", "m">>,
             <<"/", "s", "/", "m", "?", "/", "x">>, <<"/", "s", "/">>}
MCNames  == {<<"c", "x">>, <<"C", "x">>, <<"t">>}
MCValues == {<< >>, <<"x", "y">>}
MCBodies == {<< >>, <<"x", "m">>}

MCContentLength == <<"c", "x">>
MCContentType   == <<"c", "y">>

=============================================================================
