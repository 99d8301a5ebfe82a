------------------------------ MODULE RequestEdit ------------------------------
(***************************************************************************)
(* What the proxy does to the text of a request, in its buffer: it sets    *)
(* the version and the Connection header (parse_request_line and           *)
(* parse_headers) and makes the URL relative (handle_client).  The edits   *)
(* search for words and overwrite, move or insert what follows them.       *)
(*                                                                         *)
(* A text is a sequence of tokens, each of about as many bytes as any      *)
(* other; a header is a sequence of tokens too, its name first.            *)
(***************************************************************************)
EXTENDS Integers, FiniteSetsExt, SequencesExt

\* The text of a request as a client sends it.
Text(q) == <<"GET">> \o q.url \o <<"HTTP", q.version, "CRLF">>
             \o FlattenSeq([i \in DOMAIN q.headers |-> q.headers[i] \o <<"CRLF">>])
             \o <<"CRLF">>

\* strstr() and strchr(): the first token of the set ts from position i on, or 0.
Find(text, i, ts) ==
    LET at == {j \in i .. Len(text) : text[j] \in ts} IN IF at = {} THEN 0 ELSE Min(at)

Slashed  == {"/page", "/1.0", "/1.1"}   \* tokens that begin with a slash
Versions == {"/1.0", "/1.1"}            \* those that parse_request_line accepts
Close    == <<"clo", "se">>

\* Where the name of the last Connection header is, or 0.
LastConnection(text) ==
    LET at == {i \in 2 .. Len(text) : text[i-1] = "CRLF" /\ text[i] = "Connection"}
    IN  IF at = {} THEN 0 ELSE Max(at)

\* memcpy() of the tokens s to position i of a text, whatever was there.
Overwritten(text, i, s) ==
    [j \in DOMAIN text |-> IF j \in i .. i + Len(s) - 1 THEN s[j - i + 1] ELSE text[j]]

-----------------------------------------------------------------------------
(* Slips the code could have had: each stands in for the definition it is    *)
(* named after when the properties are tried out.                            *)

\* The new value is written, and the rest of a longer one stays behind it.
SetConnectionUncut(text) ==
    LET name == LastConnection(text)
    IN  IF name # 0 THEN Overwritten(text, name + 1, Close) ELSE text

-----------------------------------------------------------------------------
(* The edits                                                               *)

\* parse_request_line: whatever the version it has read, HTTP/1.1 is written over
\* the first occurrence of it.
SetVersion(text, version) == Overwritten(text, Find(text, 1, {version}), <<"/1.1">>)

\* parse_headers: the value of the last Connection header becomes close, in
\* place, and a longer value makes the text shorter.  A missing header is
\* inserted before the empty line, with a line end of its own for lack of the
\* one that is found there.
SetConnection(text) ==
    LET name  == LastConnection(text)
        end   == Find(text, name + 1, {"CRLF"})
        value == end - (name + 1)
        empty == Min({j \in 1 .. Len(text) - 1 : SubSeq(text, j, j + 1) = <<"CRLF", "CRLF">>})
    IN  IF name = 0
        THEN SubSeq(text, 1, empty - 1) \o <<"LF", "Connection">> \o Close
               \o <<"CRLF">> \o SubSeq(text, empty, Len(text))
        ELSE IF value > Len(Close)
        THEN SubSeq(text, 1, name) \o Close \o SubSeq(text, end, Len(text))
        ELSE Overwritten(text, name + 1, Close)

\* handle_client: what lies between the first http:// of the text, wherever it
\* is, and the first slash after it is cut out.
MakeRelative(text) ==
    LET url   == Find(text, 1, {"http://"})
        slash == Find(text, url + 1, Slashed)
    IN  IF url = 0 \/ slash = 0 THEN text
        ELSE SubSeq(text, 1, url - 1) \o SubSeq(text, slash, Len(text))

Parsed(q) == SetConnection(SetVersion(Text(q), q.version))
Edited(q) == MakeRelative(Parsed(q))

-----------------------------------------------------------------------------
(* What the edits are for                                                  *)

\* The lines of a text up to the empty one, as a server reads them, which takes
\* a bare line feed for a line end; nothing if there is no empty line.
Lines(text) ==
    LET ends  == {0} \cup {i \in DOMAIN text : text[i] \in {"CRLF", "LF"}}
        empty == {i \in ends : i + 1 \in ends}
    IN  IF empty = {} THEN {}
        ELSE {SubSeq(text, i + 1, Min({j \in ends : j > i}) - 1) :
                 i \in {e \in ends : e < Min(empty)}}

IsConnection(header) == Head(header) = "Connection"

\* The lines the server is meant to see: a path, the headers of the client, and
\* Connection: close.
MeantLines(q) ==
    {<<"GET", "/page", "HTTP", "/1.1">>, <<"Connection">> \o Close}
        \cup {header \in ToSet(q.headers) : ~IsConnection(header)}

\* A URL with a path, no other URL for the search to hit instead, and no
\* Connection value shorter than close.
Plain(q) ==
    /\ Last(q.url) = "/page"
    /\ q.url[1] = "http://" \/ ~Contains(FlattenSeq(q.headers), "http://")
    /\ \A header \in ToSet(q.headers) :
          IsConnection(header) => Len(header) > Len(Close)

=============================================================================
