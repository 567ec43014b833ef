------------------------------- MODULE MCTalk -------------------------------
EXTENDS Talk

\* client.c ends lines with "\n", other clients with "\r\n"; a line one byte
\* too long for buf; another method, or none; half a request.
ClientC == <<"g", LF, "h", LF, CR, LF>>
Crlf == <<"g", CR, LF, "h", CR, LF, CR, LF>>
Long == <<"g", LF, "h", "h", "h", CR, LF, "h", LF, CR, LF>>
Post == <<"p", LF, "h", LF, CR, LF>>
Blank == <<CR, LF, CR, LF>>
Half == <<"g", LF, "h">>

\* All requests of up to six bytes that begin with the method GET.
Short == {<<"g">> \o b : b \in UNION {[1..n -> {"h", CR, LF}] : n \in 0..5}}

Ask(bytes, polite, answer) == [bytes |-> bytes, polite |-> polite, answer |-> answer]
SomeRequests ==
  {Ask(b, p, a) : b \in {ClientC, Crlf}, p \in BOOLEAN, a \in Answers} \cup
  {Ask(b, p, "static") : b \in {Long, Post, Blank, Half}, p \in BOOLEAN} \cup
  {Ask(b, TRUE, "static") : b \in Short}
=============================================================================
