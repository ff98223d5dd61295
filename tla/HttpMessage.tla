----------------------------- MODULE HttpMessage -----------------------------
(***************************************************************************)
(* THttpRequestMessage and THttpResponseMessage (src/lib/net/http/         *)
(* message.h and message.cpp): one program writes messages on a stream,    *)
(* another reads them from it until a read fails or throws, into a new     *)
(* object each time or into the same one.  The connection may end or break *)
(* at any byte.                                                            *)
(*                                                                         *)
(* A character is a symbol; a word, a name, a status code or a length is   *)
(* one symbol too, since the code looks at no character within them.       *)
(***************************************************************************)
EXTENDS Slice

CONSTANTS
    Symbol,     \* what texts consist of
    Decimals,   \* bound: the decimal numbers 0, 1, ... that a length may be
    Requests,   \* the requests a program writes
    Responses,  \* the responses a program writes
    MaxSent     \* bound: the messages on one connection

CR == "CR"
LF == "LF"
SP == "SP"
COLON == ":"
NUL == "NUL"
\* "Content-Length", and a status code between 100 and 599.
LengthHeader == <<"Content-Length">>
StatusCode   == "200"
Number(n) == Decimals[n + 1]

Texts == Seq(Symbol)

\* A status is a number; SetHeader keeps one value for a name.
IsMessage(message) ==
    /\ message \in [start   : [1..3 -> Texts],
                    headers : [DOMAIN message.headers -> Texts],
                    body    : Texts]
    /\ DOMAIN message.headers \subseteq Texts /\ IsFiniteSet(DOMAIN message.headers)

ASSUME MessageAssumption ==
    /\ {CR, LF, SP, COLON, NUL, LengthHeader[1], StatusCode} \subseteq Symbol
    /\ Decimals \in Texts
    /\ \A m, n \in DOMAIN Decimals : Decimals[m] = Decimals[n] => m = n
    /\ \A message \in Requests \cup Responses :
           IsMessage(message) /\ Len(message.body) < Len(Decimals)
    /\ \A message \in Responses : message.start[2] = <<StatusCode>>
    /\ MaxSent \in Nat

VARIABLES
    kind,    \* requests or responses on this connection
    reuse,   \* the reader keeps one object
    sent,    \* history: the messages written
    stream,  \* what the reader has not read yet
    over,    \* the connection has ended
    cut,     \* history: some of what was written did not arrive
    object,  \* the message the reader reads into
    got,     \* history: the messages read, with the stream still good
    reader   \* reading, or how it ended

writer == <<kind, reuse, sent, over, cut>>
vars   == <<kind, reuse, sent, stream, over, cut, object, got, reader>>

\* THttpRequestMessage's Method, Uri, Version; a response's Version, Status,
\* Description.
Blank == [start   |-> [i \in 1..3 |-> <<>>],
          headers |-> [name \in {} |-> <<>>],
          body    |-> <<>>]

\* SetHeader
WithHeader(message, name, value) ==
    [message EXCEPT !.headers =
        [h \in DOMAIN message.headers \cup {name} |->
            IF h = name THEN value ELSE message.headers[h]]]

-----------------------------------------------------------------------------
(* operator<< *)

\* WriteHeaders, in the order of the unordered_map.
HeaderLines(message, order) ==
    FlattenSeq([i \in DOMAIN order |->
        order[i] \o <<COLON, SP>> \o message.headers[order[i]] \o <<CR, LF>>])

Text(message, order) ==
    Joined(message.start, <<SP>>) \o <<CR, LF>>
        \o HeaderLines(message, order) \o <<CR, LF>> \o message.body

-----------------------------------------------------------------------------
(* operator>>, as steps of a reader r: the object, the text not read yet,    *)
(* whether the end of the text was reached, and the state.  What a throw     *)
(* leaves in the object is not modelled, since no read follows it.           *)

GetLine(text) ==
    LET end == Search(text, <<LF>>, 1)
    IN  [line |-> SubSeq(text, 1, end - 1),
         rest |-> SubSeq(text, end + 1, Len(text)),
         end  |-> end > Len(text)]

After(r, g) == [r EXCEPT !.text = g.rest, !.end = g.end]

\* Fault: the carriage return stays in the line.
PrepareNothing(line) == line

Prepare(line) ==
    IF line # <<>> /\ Last(line) = CR THEN Front(line) ELSE line

\* A request has three parts; a response has a status that SetStatus takes and
\* may be without a description.
StartThrows(parts) ==
    IF kind = "request" THEN Len(parts) # 3
    ELSE \/ Len(parts) \notin {2, 3}
         \/ parts[2] = <<>> \/ Head(parts[2]) # StatusCode

StartOf(message, parts) ==
    IF kind = "request" THEN parts
    ELSE <<parts[1], <<StatusCode>>,
           IF Len(parts) = 3 THEN parts[3] ELSE message.start[3]>>

ReadStart(r) ==
    LET g     == GetLine(r.text)
        parts == Split(Prepare(g.line), <<SP>>)
    IN  IF g.line = <<>> \/ StartThrows(parts)
        THEN [After(r, g) EXCEPT !.state = "threw"]
        ELSE [After(r, g) EXCEPT !.object = [@ EXCEPT !.start = StartOf(r.object, parts)]]

\* One turn of the loop, which goes on while the state is "headers".  A line is
\* cut at every colon with a blank: the value is all parts but the first.
ReadHeader(r) ==
    LET g     == GetLine(r.text)
        parts == Split(Prepare(g.line), <<COLON, SP>>)
    IN  IF r.state # "headers" THEN r
        ELSE IF r.text = <<>>  THEN [r EXCEPT !.end = TRUE, !.state = "failed"]
        ELSE IF g.line = <<CR>> THEN [After(r, g) EXCEPT !.state = "reading"]
        ELSE IF g.line = <<>>  THEN [After(r, g) EXCEPT !.state = "threw"]
        ELSE [After(r, g) EXCEPT !.object = WithHeader(r.object, parts[1],
                                                       FlattenSeq(Tail(parts)))]

\* The loop ends at a blank line or when getline fails, since each turn takes
\* one character at least.
HeaderLoop(r) ==
    LET after[turns \in 0..(Len(r.text) + 1)] ==
            IF turns = 0 THEN r ELSE ReadHeader(after[turns - 1])
    IN  after

ReadHeaders(r) == HeaderLoop(r)[Len(r.text) + 1]

\* stoul finds the number that a value begins with, and throws if there is none.
IsLength(value) ==
    value # <<>> /\ \E n \in 0..(Len(Decimals) - 1) : Head(value) = Number(n)
Length(value) == CHOOSE n \in 0..(Len(Decimals) - 1) : Head(value) = Number(n)

\* Fault: the body is left in the stream.
TakeNothing(r, n) ==
    [r EXCEPT !.object.body = [i \in 1..n |-> IF i <= Len(r.text) THEN r.text[i] ELSE NUL],
              !.end   = r.end \/ Len(r.text) < n]

\* read fails when the end has been reached before or is reached now; what it
\* does not find stays as resize left it.
Take(r, n) ==
    LET fail == r.end \/ Len(r.text) < n
    IN  [r EXCEPT !.object.body = [i \in 1..n |-> IF i <= Len(r.text) THEN r.text[i] ELSE NUL],
                  !.text  = SubSeq(r.text, n + 1, Len(r.text)),
                  !.end   = fail,
                  !.state = IF fail THEN "failed" ELSE r.state]

ReadBody(r) ==
    IF r.state = "threw" \/ LengthHeader \notin DOMAIN r.object.headers THEN r
    ELSE IF IsLength(r.object.headers[LengthHeader])
    THEN Take(r, Length(r.object.headers[LengthHeader]))
    ELSE [r EXCEPT !.state = "threw"]

Reading(text, message) ==
    ReadBody(ReadHeaders(ReadStart(
        [object |-> message, text |-> text, end |-> FALSE, state |-> "headers"])))

-----------------------------------------------------------------------------
Init ==
    /\ kind \in {"request", "response"} /\ reuse \in BOOLEAN
    /\ sent = <<>> /\ stream = <<>>
    /\ over = FALSE /\ cut = FALSE
    /\ object = Blank /\ got = <<>> /\ reader = "reading"

Write(message) ==
    /\ ~over /\ Len(sent) < MaxSent
    /\ \E order \in SetToSeqs(DOMAIN message.headers) :
        stream' = stream \o Text(message, order)
    /\ sent' = Append(sent, message)
    /\ UNCHANGED <<kind, reuse, over, cut, object, got, reader>>

\* The writer closes its end.
Close ==
    /\ ~over
    /\ over' = TRUE
    /\ UNCHANGED <<kind, reuse, sent, stream, cut, object, got, reader>>

\* The connection breaks, and only the first bytes arrive.
Break(bytes) ==
    /\ ~over /\ bytes < Len(stream)
    /\ over' = TRUE /\ cut' = TRUE
    /\ stream' = SubSeq(stream, 1, bytes)
    /\ UNCHANGED <<kind, reuse, sent, object, got, reader>>

\* One operator>>.  It blocks at the end of what has arrived for as long as the
\* connection lives.
Read ==
    /\ reader = "reading"
    /\ LET r == Reading(stream, IF reuse THEN object ELSE Blank)
       IN  /\ r.end => over
           /\ stream' = r.text
           /\ object' = r.object
           /\ reader' = r.state
           /\ got' = IF r.state = "reading" THEN Append(got, r.object) ELSE got
    /\ UNCHANGED writer

Next ==
    \/ \E message \in (IF kind = "request" THEN Requests ELSE Responses) : Write(message)
    \/ Close
    \/ \E bytes \in 0..(Len(stream) - 1) : Break(bytes)
    \/ Read

Spec == Init /\ [][Next]_vars

-----------------------------------------------------------------------------
(* Properties. *)

\* The messages that the format can carry: no delimiter within a field, no end
\* of line, and no name that looks like the blank line when it is cut off...
Plain(message) ==
    /\ \A i \in 1..3 : \A delim \in {<<SP>>, <<LF>>} : ~Occurs(delim, message.start[i])
    /\ kind = "request" => message.start[3] # <<>>
    /\ \A name \in DOMAIN message.headers :
            /\ \A delim \in {<<COLON, SP>>, <<LF>>} :
                   ~Occurs(delim, name) /\ ~Occurs(delim, message.headers[name])
            /\ name # <<>> => Head(name) # CR

\* ...and a length that is the body's.
Framed(message) ==
    IF LengthHeader \in DOMAIN message.headers
    THEN message.headers[LengthHeader] = <<Number(Len(message.body))>>
    ELSE message.body = <<>>

\* One object for all messages keeps what the next one does not set.
Overwritten(message) ==
    reuse => /\ DOMAIN message.headers = DOMAIN sent[1].headers
             /\ message.start[3] # <<>>

GoodUpTo(i) ==
    \A j \in 1..i : j <= Len(sent) =>
        Plain(sent[j]) /\ Framed(sent[j]) /\ Overwritten(sent[j])

\* A body is as long as the header says that was read with it, or empty.
Measured(message) ==
    IF LengthHeader \in DOMAIN message.headers
    THEN Len(message.body) = Length(message.headers[LengthHeader])
    ELSE message.body = <<>>

\* What is read with the stream still good was written so, message for message,
\* whatever a body looks like and wherever the connection breaks: as long as
\* the messages up to it were ones the format can carry.  Of other messages
\* the body fits at least the header it was read with.
AcceptedIsWritten ==
    \A i \in DOMAIN got :
        /\ Measured(got[i])
        /\ GoodUpTo(i) => i <= Len(sent) /\ got[i] = sent[i]

\* With such messages the reader ends only with the connection; when nothing
\* was lost it has all of them by then, and the end comes as the exception
\* "Empty http request start", not as the stream's state.
EndIsClean ==
    (reader # "reading" /\ GoodUpTo(Len(sent)))
        => over /\ (~cut => reader = "threw" /\ got = sent)

\* Split cuts at every delimiter and keeps all the rest, for every text that a
\* connection carries.
SplitIsExact ==
    \A delim \in {<<SP>>, <<COLON, SP>>, <<CR, LF>>} :
        IsSplitting(Split(stream, delim), stream, delim)

=============================================================================
