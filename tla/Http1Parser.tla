---------------------------- MODULE Http1Parser -----------------------------
(***************************************************************************)
(* The HTTP/1.1 request parser (crates/riftgate-parser/src/http1.rs), fed  *)
(* a request in pieces.  Bytes are counted, not kept.  A request is the    *)
(* length of its header section, up to the byte httparse refuses if it is  *)
(* malformed, and what the headers say: a content length or chunked.       *)
(***************************************************************************)
EXTENDS Integers, FiniteSets, FiniteSetsExt

CONSTANTS
    HeaderLens, ContentLengths,     \* of the requests
    ReadSizes,                      \* bytes in a call of feed
    MaxHeaderBytes,                 \* MAX_HEADER_BYTES
    MaxBytes                        \* bound on the bytes fed for a request

VARIABLES
    incoming,   \* the request on the connection
    parser,     \* scratch (its length), consumed, remaining and phase
    events      \* history: how many of each event, and body bytes, since reset

http1Vars == <<incoming, parser, events>>

Incoming ==
    [header : HeaderLens, kind : {"sized"}, length : ContentLengths]
        \cup [header : HeaderLens, kind : {"chunked", "malformed"}, length : {0}]

NewParser == [scratch |-> 0, consumed |-> 0, remaining |-> 0, phase |-> "AwaitingHeaders"]
NoEvents == [headers |-> 0, body |-> 0, complete |-> 0, error |-> 0]

Http1Init ==
    /\ incoming = [header |-> 1, kind |-> "sized", length |-> 0]
    /\ parser = NewParser /\ events = NoEvents

\* What taking all that has arrived would consume.
TakeAll(avail, remaining) == avail

Take(avail, remaining) == Min({avail, remaining})

\* The turn of the loop in StreamingBodyContentLength, for s with both parts.
StreamBody(s) ==
    LET take == Take(s.scratch - s.consumed, s.remaining)
        left == s.remaining - take
    IN  IF s.phase # "StreamingBody" \/ s.scratch = s.consumed THEN s
        ELSE [s EXCEPT !.consumed = @ + take, !.remaining = left, !.body = @ + take,
                       !.complete = IF left = 0 THEN @ + 1 ELSE @,
                       !.phase = IF left = 0 THEN "Done" ELSE @]

Fail(s) == [s EXCEPT !.error = @ + 1, !.phase = "Error"]

\* The turn in AwaitingHeaders: the limit is on all that has arrived.
ParseHeaders(s) ==
    LET r == incoming
        whole == [s EXCEPT !.consumed = @ + r.header]
    IN  IF s.phase # "AwaitingHeaders" THEN s
        ELSE IF s.scratch > MaxHeaderBytes THEN Fail(s)
        ELSE IF s.scratch < r.header THEN s
        ELSE IF r.kind = "malformed" THEN Fail(s)
        ELSE IF r.kind = "chunked" THEN Fail(whole)
        ELSE IF r.length = 0
             THEN [whole EXCEPT !.headers = @ + 1, !.complete = @ + 1, !.phase = "Done"]
             ELSE [whole EXCEPT !.headers = @ + 1, !.remaining = r.length,
                                !.phase = "StreamingBody"]

\* feed: an Error swallows the bytes, every other phase keeps them.
Feed(k) ==
    /\ parser.phase # "Error" /\ parser.scratch + k <= MaxBytes
    /\ LET s == [scratch |-> parser.scratch + k, consumed |-> parser.consumed,
                 remaining |-> parser.remaining, phase |-> parser.phase,
                 headers |-> events.headers, body |-> events.body,
                 complete |-> events.complete, error |-> events.error]
           t == StreamBody(ParseHeaders(s))
       IN  /\ parser' = [f \in DOMAIN parser |-> t[f]]
           /\ events' = [f \in DOMAIN events |-> t[f]]
    /\ UNCHANGED incoming

\* reset, for the next request.
Http1Reset ==
    /\ parser.phase \in {"Done", "Error"} \/ parser = NewParser
    /\ parser' = NewParser /\ events' = NoEvents
    /\ incoming' \in Incoming

Http1Next == (\E k \in ReadSizes : Feed(k)) \/ Http1Reset

\* However a request is cut into reads, it yields one HeadersComplete, then
\* exactly its body and one BodyComplete, or one Error and no BodyComplete; and
\* the bytes behind it are left alone.
FramedExactly ==
    LET p == parser  e == events  r == incoming
    IN  CASE p.phase = "AwaitingHeaders" -> e = NoEvents /\ p.consumed = 0
          [] p.phase = "StreamingBody" ->
                /\ e = [headers |-> 1, body |-> r.length - p.remaining,
                        complete |-> 0, error |-> 0]
                /\ p.consumed = p.scratch /\ p.remaining > 0
          [] p.phase = "Done" ->
                /\ e = [headers |-> 1, body |-> r.length, complete |-> 1, error |-> 0]
                /\ p.consumed = r.header + r.length
          [] p.phase = "Error" -> e = [headers |-> 0, body |-> 0, complete |-> 0, error |-> 1]

=============================================================================
