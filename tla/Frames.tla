-------------------------------- MODULE Frames --------------------------------
(***************************************************************************)
(* Server-Sent Events framing (api/stream.go): one event becomes a run of  *)
(* lines closed by a blank one, and a reader that may be cut off between   *)
(* any two makes events of the lines again.  The reader is EventSource as  *)
(* HTML defines it, outside the repository.                                *)
(***************************************************************************)
EXTENDS Integers, Sequences, FiniteSets

CONSTANTS
  Newline,   \* the token that ends a line of a payload
  Return     \* the other one a reader ends a line at

ASSUME FramesAssumption == Newline # Return

Blank == [field |-> "end", value |-> Newline]

(* The loop over a payload: the lines so far and where the next one starts. *)
Scanned(data) ==
  LET scan[n \in 0..Len(data)] ==
        IF n = 0 THEN [lines |-> <<>>, start |-> 1]
        ELSE IF data[n] # Newline THEN scan[n - 1]
        ELSE [lines |-> Append(scan[n - 1].lines, SubSeq(data, scan[n - 1].start, n - 1)),
              start |-> n + 1]
  IN scan[Len(data)]

(* Slip: a last line without its newline is forgotten. *)
SplitDataLinesClosed(data) == Scanned(data).lines

(* The payload's lines; an unfinished last one counts, an empty one not. *)
SplitDataLines(data) ==
  LET scanned == Scanned(data) IN
  IF scanned.start <= Len(data)
  THEN Append(scanned.lines, SubSeq(data, scanned.start, Len(data)))
  ELSE scanned.lines

(* writeEvent: id unless it has none, name, the payload's lines, blank. *)
WriteEvent(event) ==
  LET lines == SplitDataLines(event.data) IN
    (IF event.id > 0 THEN <<[field |-> "id", value |-> event.id]>> ELSE <<>>)
    \o <<[field |-> "event", value |-> event.name]>>
    \o [i \in DOMAIN lines |-> [field |-> "data", value |-> lines[i]]]
    \o <<Blank>>
-----------------------------------------------------------------------------
(* What a reader makes of a frame's lines, one after the other. *)
NoEvent(lastId) == [id |-> lastId, name |-> "message", data |-> <<>>]

(* A payload with no line end but newlines. *)
Unbroken(data) == \A i \in DOMAIN data : data[i] # Return

(* A line of the frame ends at a carriage return too: the value of its      *)
(* field is what comes before, and what comes after is a line that names    *)
(* no field.                                                                *)
UpToReturn(value) ==
  SubSeq(value, 1, Cardinality({n \in DOMAIN value : \A i \in 1..n : value[i] # Return}))

Taken(event, line) ==
  CASE line.field = "id" -> [event EXCEPT !.id = line.value]
    [] line.field = "event" -> [event EXCEPT !.name = line.value]
    [] line.field = "data" -> [event EXCEPT !.data = Append(@, UpToReturn(line.value))]
    [] OTHER -> event

EventOf(lastId, lines) ==
  LET after[n \in 0..Len(lines)] ==
        IF n = 0 THEN NoEvent(lastId) ELSE Taken(after[n - 1], lines[n])
  IN after[Len(lines)]

(* The payload of lines, but for a newline at its end. *)
Joined(lines) ==
  LET text[n \in 0..Len(lines)] ==
        IF n = 0 THEN <<>>
        ELSE IF n = 1 THEN lines[1]
        ELSE text[n - 1] \o <<Newline>> \o lines[n]
  IN text[Len(lines)]
=============================================================================
