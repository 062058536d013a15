---------------------------- MODULE MCHttpServer ----------------------------
\* Module HttpServer with requests that are answered with 200, 404 and 400,
\* that keep the connection or not, one with a query, one with a body.
EXTENDS HttpServer

MCBytes == {"GET", "POST", "BREW", "/", "/hello", "/none", "?", "q", "SP",
            "HTTP/1.0", "HTTP/1.1", "CR", "LF", ":", "Connection",
            "Keep-Alive", "x", "0"}

Kept == <<"Connection", ":", "SP", "Keep-Alive">>

Request(method, path, query, version, headers, body) ==
    [method |-> method, path |-> path, query |-> query, version |-> version,
     headers |-> headers, body |-> body]

MCRequests == {
    Request("GET", "/", <<>>, "HTTP/1.1", <<Kept>>, <<>>),
    Request("GET", "/none", <<>>, "HTTP/1.1", <<Kept>>, <<>>),
    Request("BREW", "/", <<>>, "HTTP/1.1", <<>>, <<>>),
    Request("GET", "/hello", <<"?", "q">>, "HTTP/1.0", <<>>, <<>>),
    Request("POST", "/hello", <<>>, "HTTP/1.1", <<Kept>>, <<"x">>)}

\* These are requests.
ASSUME WellFormedAssumption == \A r \in Requests : WellFormed(r)

MCData == {<<"x", "q">>}
=============================================================================
