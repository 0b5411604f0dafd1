----------------------------- MODULE LineReader -----------------------------
(***************************************************************************)
(* The loop of _handle_incoming_rpc of pyminer.py that cuts the stream of  *)
(* the server into lines: it takes a line when the data read so far holds  *)
(* one, and asks the socket for more when it does not.  A recv returns any *)
(* part of what was sent and not read yet, so a line may arrive in several *)
(* pieces and several lines in one.                                        *)
(*                                                                         *)
(* The server is external: it sends the lines of a session, and the        *)
(* connection may close inside any of them.  A line is two units of text,  *)
(* or none when it is blank, and the unit that ends it.                    *)
(***************************************************************************)
EXTENDS Integers, Sequences, FiniteSets, SequencesExt

CONSTANTS
  Calls,      \* lines that are the JSON of a message
  Noise,      \* other lines that are not blank
  Blank,      \* the empty line
  NL,         \* '\n'
  Sessions,   \* the sequences of lines that the server may send
  MaxLines,   \* bound on the length of a session
  ChunkSize   \* units that one recv returns at most: 1024 bytes in the code

ASSUME LineReaderAssumption ==
  /\ Calls \intersect Noise = {} /\ Blank \notin Calls \union Noise
  /\ NL \notin (Calls \union Noise) \X {1, 2}
  /\ Sessions \subseteq Seq(Calls \union Noise \union {Blank})
  /\ MaxLines \in Nat /\ \A s \in Sessions : Len(s) <= MaxLines
  /\ ChunkSize \in Nat \ {0}

VARIABLES
  session,  \* the lines the server sends
  flight,   \* the units that were sent and not read
  data,     \* the units that were read and belong to no line yet
  line,     \* the units of the line that is handled
  loop,     \* where the loop is
  handled   \* history: the lines that were handled or skipped, as units

readerVars == <<session, flight, data, line, loop, handled>>

Text(l) == IF l = Blank THEN <<>> ELSE << <<l, 1>>, <<l, 2>> >>

Units(lines) == FlattenSeq([k \in DOMAIN lines |-> Append(Text(lines[k]), NL)])

(* json.loads accepts the text of one message, whole and alone. *)
Parses(units) == \E l \in Calls : units = Text(l)
Parsed(units) == CHOOSE l \in Calls : units = Text(l)

HasLine(units) == \E k \in DOMAIN units : units[k] = NL

-----------------------------------------------------------------------------

ReaderInit ==
  /\ session \in Sessions
  /\ flight = Units(session)
  /\ data = <<>> /\ line = <<>>
  /\ loop = "look"
  /\ handled = <<>>

(* Mutant of FirstEnd: rsplit, which cuts at the last end of a line. *)
LastEnd(units) == CHOOSE k \in DOMAIN units :
  units[k] = NL /\ \A i \in k + 1 .. Len(units) : units[i] # NL

FirstEnd(units) == CHOOSE k \in DOMAIN units :
  units[k] = NL /\ \A i \in 1 .. k - 1 : units[i] # NL

(* data.split('\n', 1) *)
TakeLine ==
  /\ loop = "look"
  /\ HasLine(data)
  /\ line' = SubSeq(data, 1, FirstEnd(data) - 1)
  /\ data' = SubSeq(data, FirstEnd(data) + 1, Len(data))
  /\ loop' = "handle"
  /\ UNCHANGED <<session, flight, handled>>

NoLine ==
  /\ loop = "look"
  /\ ~HasLine(data)
  /\ loop' = "recv"
  /\ UNCHANGED <<session, flight, data, line, handled>>

(* Mutant of Recv: data is what the last recv returned. *)
RecvReplaces(n) ==
  /\ loop = "recv"
  /\ n \in 1 .. ChunkSize \intersect 1 .. Len(flight)
  /\ data' = SubSeq(flight, 1, n)
  /\ flight' = SubSeq(flight, n + 1, Len(flight))
  /\ loop' = "look"
  /\ UNCHANGED <<session, line, handled>>

(* recv returns a chunk.  The empty one of a closed connection sends the   *)
(* loop round for ever and changes nothing.                                *)
Recv(n) ==
  /\ loop = "recv"
  /\ n \in 1 .. ChunkSize \intersect 1 .. Len(flight)
  /\ data' = data \o SubSeq(flight, 1, n)
  /\ flight' = SubSeq(flight, n + 1, Len(flight))
  /\ loop' = "look"
  /\ UNCHANGED <<session, line, handled>>

(* Mutant of Again: the loop reads on after a line. *)
AgainRecv == loop' = "recv" /\ handled' = Append(handled, line)

(* The line is done with, and the loop goes round. *)
Again == loop' = "look" /\ handled' = Append(handled, line)

(* json.loads raises: the line is skipped. *)
Skip ==
  /\ loop = "handle"
  /\ ~Parses(line)
  /\ Again
  /\ UNCHANGED <<session, flight, data, line>>

(* handle_reply returns. *)
HandleLine(l) ==
  /\ loop = "handle"
  /\ Parses(line)
  /\ l = Parsed(line)
  /\ Again
  /\ UNCHANGED <<session, flight, data, line>>

(* An exception of handle_reply ends the thread. *)
ReaderEnds(l) ==
  /\ loop = "handle"
  /\ Parses(line)
  /\ l = Parsed(line)
  /\ loop' = "ended"
  /\ UNCHANGED <<session, flight, data, line, handled>>

(* The connection closes: what was not read is lost. *)
Cut ==
  /\ flight # <<>>
  /\ flight' = <<>>
  /\ UNCHANGED <<session, data, line, loop, handled>>

-----------------------------------------------------------------------------

(* What the loop does by itself, besides calling handle_reply and recv.    *)
ReaderThread == TakeLine \/ NoLine \/ Skip

-----------------------------------------------------------------------------

(* However the stream is cut into chunks, the lines handled are the first  *)
(* ones of the session: none is lost, repeated, reordered, split or joined *)
(* with the next one, and the text that belongs to no line yet is kept.    *)
LinesInOrder ==
  /\ Len(handled) <= Len(session)
  /\ \A k \in DOMAIN handled : handled[k] = Text(session[k])

(* Whole lines that were read, the handled ones among them. *)
LinesRead ==
  Len(handled) + (IF loop = "handle" THEN 1 ELSE 0)
    + Cardinality({k \in DOMAIN data : data[k] = NL})

(* A line that was read is handled: it never waits in data for a recv that *)
(* may not return, and after a line that cannot be parsed the loop goes on *)
(* ("skipping").  Only an exception of handle_reply ends that.             *)
LinesHandled ==
  \A n \in 1 .. MaxLines :
    LinesRead >= n ~> Len(handled) >= n \/ loop = "ended"

=============================================================================
