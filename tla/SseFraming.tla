----------------------------- MODULE SseFraming -----------------------------
(***************************************************************************)
(* How the events of a stream survive the way through the network: the     *)
(* handler writes every event as a frame of text, closed by an empty line, *)
(* and comments to keep the connection alive; chunks arrive cut anywhere;  *)
(* the reader puts them together again: consumeSseStream in the page, and  *)
(* the same loop in the load harness.                                      *)
(*                                                                         *)
(* The text is a sequence of pieces: a field name, its value, a line feed. *)
(* A chunk ends between any two of them, within a line too.  An event is a *)
(* number; the last one is batch_done.                                     *)
(***************************************************************************)
EXTENDS Naturals, Sequences, SequencesExt

CONSTANTS
  MaxEvents,  \* events of the stream, batch_done the last of them
  MaxComments \* comments among them

ASSUME MaxEventsAssumption   == MaxEvents \in Nat \ {0}
ASSUME MaxCommentsAssumption == MaxComments \in Nat

VARIABLES
  frames,    \* what the handler has written: an event, or 0 for a comment
  read,      \* how many pieces of it the reader has got
  lost,      \* the connection is gone, with everything that was on its way
  buffer,    \* the reader's buffer
  delivered, \* the events it has passed on
  reader     \* "reading", "returned" after batch_done, "ended" without it

framingVars == <<frames, read, lost, buffer, delivered, reader>>

Numbered == 1..MaxEvents
Type(e)  == IF e = MaxEvents THEN "batch_done" ELSE "payment_updated"

\* Pieces: what they are, and the event of a payload.
LF      == <<"line feed", 0>>
Colon   == <<"comment", 0>>
EventIs == <<"event", 0>>
Name(e) == <<Type(e), 0>>
DataIs  == <<"data", 0>>
Json(e) == <<"json", e>>

\* writeSSEEvent, and the comment of the ticker.
Frame(f) == IF f = 0 THEN <<Colon, LF, LF>>
            ELSE <<EventIs, Name(f), LF, DataIs, Json(f), LF, LF>>

Sent    == FlattenSeq([i \in DOMAIN frames |-> Frame(frames[i])])
Pieces  == {LF, Colon, EventIs, DataIs} \cup UNION {{Name(e), Json(e)} : e \in Numbered}
Written == SelectSeq(frames, LAMBDA f : f # 0)

FramingTypeOK ==
  /\ frames \in Seq(0..MaxEvents)
  /\ read \in 0..Len(Sent)
  /\ lost \in BOOLEAN
  /\ buffer \in Seq(Pieces)
  /\ delivered \in Seq(Numbered)
  /\ reader \in {"reading", "returned", "ended"}

FramingInit ==
  /\ frames = <<>>
  /\ read = 0
  /\ lost = FALSE
  /\ buffer = <<>>
  /\ delivered = <<>>
  /\ reader = "reading"

-----------------------------------------------------------------------------
(* The handler *)

WriteEvent ==
  /\ ~lost
  /\ Len(Written) < MaxEvents
  /\ frames' = Append(frames, Len(Written) + 1)
  /\ UNCHANGED <<read, lost, buffer, delivered, reader>>

\* The ticker fires before the events are exhausted.
WriteComment ==
  /\ ~lost
  /\ Len(Written) < MaxEvents
  /\ Len(frames) - Len(Written) < MaxComments
  /\ frames' = Append(frames, 0)
  /\ UNCHANGED <<read, lost, buffer, delivered, reader>>

-----------------------------------------------------------------------------
(* The reader *)

\* The places where a text is split: before and behind every empty line, the second
\* line feed of a pair never being the first of another one.
Breaks(t) == {i \in 1..Len(t) : i > 1 /\ t[i - 1] = LF /\ t[i] = LF}

LastBreak(t) == IF Breaks(t) = {} THEN 0 ELSE CHOOSE i \in Breaks(t) : \A j \in Breaks(t) : j <= i

\* Mutation: what follows the last complete block is thrown away.
RestDropped(t) == <<>>

\* segments.pop()
Rest(t) == SubSeq(t, LastBreak(t) + 1, Len(t))

\* The complete blocks of a text, in order.
Blocks(t) ==
  LET ends  == SetToSortSeq(Breaks(t), <)
      start(k) == IF k = 1 THEN 1 ELSE ends[k - 1] + 1
  IN [k \in DOMAIN ends |-> SubSeq(t, start(k), ends[k])]

Field(block, name) ==
  {block[i + 1] : i \in {j \in 1..Len(block) - 1 : block[j] = name}}

\* parseEventBlock: the event of a block, if its name is the type the data carries.
Parsed(block) ==
  LET data == {e \in Numbered : /\ Field(block, DataIs) = {Json(e)}
                               /\ Field(block, EventIs) = {Name(e)}}
  IN SetToSeq(data)

\* The events of a text.
Events(t) == LET blocks == Blocks(t) IN FlattenSeq([k \in DOMAIN blocks |-> Parsed(blocks[k])])

\* A chunk of n pieces arrives.  The page reads no further after batch_done, and the
\* harness returns at it; nothing is written behind it.
ReadChunk(n) ==
  /\ reader = "reading" /\ ~lost
  /\ read + n <= Len(Sent)
  /\ \E text \in {buffer \o SubSeq(Sent, read + 1, read + n)} :
       /\ buffer' = Rest(text)
       /\ delivered' = delivered \o Events(text)
  /\ read' = read + n
  /\ reader' = IF MaxEvents \in ToSet(delivered') THEN "returned" ELSE reader
  /\ UNCHANGED <<frames, lost>>

\* The connection is lost.
LoseConnection ==
  /\ ~lost
  /\ lost' = TRUE
  /\ UNCHANGED <<frames, read, buffer, delivered, reader>>

\* The end of the body: what is left in the buffer is dropped.
End ==
  /\ lost /\ reader = "reading"
  /\ reader' = "ended"
  /\ UNCHANGED <<frames, read, lost, buffer, delivered>>

-----------------------------------------------------------------------------
FramingNext ==
  \/ WriteEvent \/ WriteComment
  \/ \E n \in 1..Len(Sent) : ReadChunk(n)
  \/ LoseConnection \/ End

FramingSpec == FramingInit /\ [][FramingNext]_framingVars

\* The handler writes its events and the network delivers them, unless it is cut.
FramingFairness ==
  /\ WF_framingVars(WriteEvent)
  /\ WF_framingVars(\E n \in 1..Len(Sent) : ReadChunk(n))
  /\ WF_framingVars(End)

FramingFairSpec == FramingSpec /\ FramingFairness

-----------------------------------------------------------------------------
(* Properties *)

\* The events whose frames have arrived, up to the last line feed.
Arrived ==
  LET upTo(i) == SubSeq(frames, 1, i)
      Size(i) == Len(FlattenSeq([j \in 1..i |-> Frame(frames[j])]))
      whole   == {i \in 0..Len(frames) : Size(i) <= read}
  IN SelectSeq(upTo(CHOOSE i \in whole : \A j \in whole : j <= i), LAMBDA f : f # 0)

\* However the chunks are cut and wherever the connection is lost, the events passed on
\* are the ones whose frames have arrived, once each and in order: half a frame is not
\* taken for an event, and no event waits for the frame behind it, which in the case of
\* batch_done would be a comment that is never written.
DeliveredAsWritten == delivered = Arrived

\* A reader whose connection holds comes to batch_done.
StreamIsReadToItsEnd == frames # <<>> ~> lost \/ reader = "returned"

\* A stream is read as it was written, and to its end.
StreamIsReadAsWritten == [](FramingTypeOK /\ DeliveredAsWritten) /\ StreamIsReadToItsEnd

=============================================================================
