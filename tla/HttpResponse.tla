---------------------------- MODULE HttpResponse ----------------------------
(***************************************************************************)
(* The response of an HTTP request (HttpObject of drivers/internet_http.cpp):   *)
(* a child writes it to its stderr, line by line, and the main thread's passes  *)
(* take it from there in chunks until the child has closed the pipe.           *)
(***************************************************************************)
EXTENDS Connection

CONSTANTS
  Chunk,        \* how many bytes more a pass asks for
  Newline, Colon,
  Blanks,       \* what trim takes off
  HttpOutputs,  \* what the child writes at a time
  StatusLines,  \* the lines that can be read as a status: a word, a number, a message
  StatusOf,     \* and the number and message that are read
  MaxOutputs    \* bound

ASSUME HttpAssumption ==
  /\ Chunk \in Nat \ {0} /\ MaxOutputs \in Nat
  /\ Newline \in Byte /\ Colon \in Byte /\ Blanks \subseteq Byte
  /\ HttpOutputs \subseteq Seq(Byte) /\ StatusLines \subseteq Seq(Byte)
  /\ StatusOf \in [StatusLines -> Int \X Seq(Byte)]

VARIABLES
  resp,      \* the Connection at the read end of stderr
  response,  \* _response_ready and _response: the status, once it is there, the table of
             \* the headers, and why it is nil instead, if it is
  took,      \* history: the lines the response was made of
  wrote,     \* history: all that the child has written
  outputs

httpVars == <<resp, response, took, wrote, outputs>>

NoHeaders == [name \in {} |-> <<>>]

\* open: the ends of a pipe to a child that was forked.
HttpInit ==
  /\ resp = Opened(Dialing)
  /\ response = [ready |-> FALSE, status |-> <<>>, headers |-> NoHeaders, error |-> "none"]
  /\ took = <<>> /\ wrote = <<>> /\ outputs = 0

ChildWrites(b) ==
  /\ resp.peer = "open" /\ outputs < MaxOutputs /\ outputs' = outputs + 1
  /\ wrote' = wrote \o b
  /\ resp' = IF resp.state \in {"Ready", "Failed"} THEN [resp EXCEPT !.wire = @ \o b] ELSE resp
  /\ UNCHANGED <<response, took>>

ChildExits == /\ resp.peer = "open" /\ resp' = [resp EXCEPT !.peer = "closed"]
              /\ UNCHANGED <<response, took, wrote, outputs>>

\* The search for newlines, byte by byte: the lines that have ended, and what is behind them.
NextByte(cut, e) == IF e = Newline THEN [lines |-> Append(cut.lines, cut.rest), rest |-> <<>>]
                    ELSE [lines |-> cut.lines, rest |-> Append(cut.rest, e)]

Cuts(b) ==
  LET cut[i \in 0..Len(b)] == IF i = 0 THEN [lines |-> <<>>, rest |-> <<>>]
                              ELSE NextByte(cut[i - 1], b[i])
  IN  cut

Cut(b)   == Cuts(b)[Len(b)]
Lines(b) == Cut(b).lines

\* The connection without the lines: each was moved with its newline.
Without(c) == move(c, Len(c.buffer) - Len(Cut(c.buffer).rest))

\* trim: a line of nothing but blanks stays as it is.
Trimmed(text) ==
  LET solid == {i \in DOMAIN text : text[i] \notin Blanks}
  IN  IF solid = {} THEN text ELSE SubSeq(text, Min(solid), Max(solid))

\* getline up to the first colon, and from behind it, if there is one.
Colons(line)  == {i \in DOMAIN line : line[i] = Colon}
Key(line)     == IF Colons(line) = {} THEN Trimmed(line)
                 ELSE Trimmed(SubSeq(line, 1, Min(Colons(line)) - 1))
Content(line) == IF Colons(line) = {} THEN <<>>
                 ELSE Trimmed(SubSeq(line, Min(Colons(line)) + 1, Len(line)))

\* The table of the headers after more lines: Value::set, for each in turn, replaces what
\* the name had.
Names(lines)        == {Key(lines[i]) : i \in DOMAIN lines}
Places(lines, name) == {i \in DOMAIN lines : Key(lines[i]) = name}

Value(table, lines, name) ==
  IF name \in Names(lines) THEN Content(lines[Max(Places(lines, name))]) ELSE table[name]
WithLines(table, lines) == [name \in DOMAIN table \cup Names(lines) |-> Value(table, lines, name)]

\* The response after more lines, of which the first of all is the status.
WithAnswer(answer, lines) ==
  IF answer.status # <<>> THEN [answer EXCEPT !.headers = WithLines(@, lines)]
  ELSE IF lines = <<>> THEN answer
  ELSE [answer EXCEPT !.status = StatusOf[lines[1]], !.headers = WithLines(@, Tail(lines))]

\* Mutant: the end of the stream is enough.
httpUpdateHasty ==
  /\ ~response.ready
  /\ UNCHANGED <<wrote, outputs>>
  /\ resp.state \in {"Ready", "Finished"}
  /\ \E p \in preload(resp, Len(resp.buffer) + Chunk) :
       LET lines == Lines(p.c.buffer)
       IN  /\ response.status = <<>> /\ lines # <<>> => lines[1] \in StatusLines
           /\ response' = [WithAnswer(response, lines) EXCEPT !.ready = p.c.peer # "open"]
           /\ took' = took \o lines
           /\ resp' = Without(p.c)

\* HttpObject::update
httpUpdate ==
  /\ ~response.ready
  /\ UNCHANGED <<wrote, outputs>>
  /\ \/ /\ resp.state \notin {"Ready", "Finished"}
        /\ response' = [ready |-> TRUE, status |-> <<>>, headers |-> NoHeaders,
                        error |-> "connectioned closed"]
        /\ UNCHANGED <<resp, took>>
     \/ /\ resp.state \in {"Ready", "Finished"}
        /\ \E p \in preload(resp, Len(resp.buffer) + Chunk) :
             LET lines == Lines(p.c.buffer)
                 done  == resp.state = "Finished" /\ Len(p.c.buffer) = Len(resp.buffer)
             IN  IF response.status = <<>> /\ lines # <<>> /\ lines[1] \notin StatusLines
                 THEN /\ response' = [response EXCEPT !.ready = TRUE, !.error = "failed to parse"]
                      /\ resp' = Close(move(p.c, Len(lines[1]) + 1))
                      /\ UNCHANGED took
                 ELSE /\ response' = [WithAnswer(response, lines) EXCEPT !.ready = done]
                      /\ resp' = Without(p.c)
                      /\ took' = took \o lines

HttpNext == (\E b \in HttpOutputs : ChildWrites(b)) \/ ChildExits \/ httpUpdate

HttpSpec == HttpInit /\ [][HttpNext]_httpVars

-----------------------------------------------------------------------------
\* A table of header lines: the names are theirs, and of the lines with one name the last
\* one counts.
IsLastOf(lines, i) == \A j \in DOMAIN lines : j > i => Key(lines[j]) # Key(lines[i])

IsTable(table, lines) ==
  /\ DOMAIN table = Names(lines)
  /\ \A i \in DOMAIN lines : IsLastOf(lines, i) => table[Key(lines[i])] = Content(lines[i])

\* The answer says what the lines say: the first is the status.
Tells(answer, lines) ==
  IF lines = <<>> THEN answer.status = <<>> /\ DOMAIN answer.headers = {}
  ELSE answer.status = StatusOf[lines[1]] /\ IsTable(answer.headers, Tail(lines))

\* What Lua gets of a response is the status, and of every header the value the child wrote
\* last, of whole lines however the bytes were cut into reads, and of all that it wrote: never
\* a response that lacks its end.  (What follows the last newline is left out.)
ResponseComplete ==
  response.error = "none" =>
    \E n \in 0..Len(Lines(wrote)) :
      /\ Tells(response, SubSeq(Lines(wrote), 1, n))
      /\ response.ready => n = Len(Lines(wrote)) /\ resp.peer # "open"
=============================================================================
