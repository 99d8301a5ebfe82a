------------------------------ MODULE MCHttpProxy ------------------------------
(* Instances of the proxy for TLC.                                          *)
EXTENDS HttpProxy

CONSTANTS k1, k2

get(url, version, headers) == [url |-> url, version |-> version, headers |-> headers]

Path     == <<"/page">>
Absolute == <<"http://", "site", "/page">>
LongHost == <<"http://", "www", "long", "site", "name", "/page">>
Bare     == <<"http://", "site">>

Host    == <<"Host">>
Referer == <<"Referer", "http://", "other", "/page">>
Closing == <<"Connection", "clo", "se">>
Keeping == <<"Connection", "keep-", "ali", "ve">>
Short   == <<"Connection", "TE">>

\* Headers that hold a word the edits look for.
Via  == <<"Via", "/1.0">>
Vary == <<"Vary", "Connection">>

\* Requests that shrink when they are edited, keep their length or grow.
Usual == {get(Absolute, "/1.0", <<Host, Keeping>>),
          get(LongHost, "/1.1", <<Host, Via, Referer>>),
          get(Path, "/1.1", <<Host>>)}

\* Requests whose edits go wrong.
Odd == {get(Path, "/1.1", <<Host, Short>>),
        get(Path, "/1.1", <<Referer, Closing>>),
        get(Bare, "/1.1", <<Host, Closing>>)}

TwoClients == [k \in {k1, k2} |->
                  IF k = k1 THEN Usual \cup Odd ELSE {get(Path, "/1.1", <<Host, Keeping, Vary>>)}]

\* Hosts of three lengths, with and without the header.
ManyRequests == [k \in {k1} |->
                    {get(url, "/1.1", <<Host>> \o connection) :
                        url \in {Path, Absolute, LongHost},
                        connection \in {<<>>, <<Closing>>, <<Keeping>>}}]

=============================================================================
