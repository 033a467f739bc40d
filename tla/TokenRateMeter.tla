---------------------------- MODULE TokenRateMeter ----------------------------
(***************************************************************************)
(* How the meter of the live rate (token-rate-meter.mjs) turns pieces of   *)
(* text into tokens: pieces gather in a buffer, which is counted up to a   *)
(* word boundary when a quarter of a second is over, and to its end when   *)
(* the stream ends.  A sample in between counts the buffer too and keeps   *)
(* the number, for the same text is mostly counted again.                  *)
(* A count is kept as what it was made of: a text and the tokenizers used. *)
(* The exponential averages made of the counts are not modelled.           *)
(***************************************************************************)
EXTENDS Integers, Sequences

CONSTANTS
  Tokenizer,    \* the tokenizers of the models
  NoCount,      \* no count is kept
  WordLimit,    \* wordBoundaryMaxChars
  MaxText       \* bound: letters of one stream

ASSUME MeterAssumption == WordLimit \in Nat /\ MaxText \in Nat

VARIABLES
  streaming,    \* streamStartedAt is set
  chunked,      \* lastChunkIndex: 0, or -1 before the first piece
  buffer,       \* pendingBuffer
  kept,         \* pendingTokenCount
  counter,      \* the tokenizer behind countTokens
  total,        \* totalStreamTokens: the texts counted, one after the other
  pushed        \* history: the text of the stream

meterVars == <<streaming, chunked, buffer, kept, counter, total, pushed>>

Count(text) == [text |-> text, by |-> {counter}]
Nothing == [text |-> <<>>, by |-> {}]
Plus(a, b) == [text |-> a.text \o b.text, by |-> a.by \cup b.by]

MeterInit ==
  /\ streaming = FALSE /\ chunked = FALSE /\ buffer = <<>> /\ kept = NoCount
  /\ counter \in Tokenizer
  /\ total = Nothing /\ pushed = <<>>

-----------------------------------------------------------------------------
(* A letter other than the first that begins a word near the buffer's end. *)
Boundary(text) == {i \in 2..Len(text) : text[i] = "space"}
LastBoundary(text) == CHOOSE i \in Boundary(text) : \A j \in Boundary(text) : j <= i
CutAt(text) ==
  IF Boundary(text) # {} /\ Len(text) - LastBoundary(text) + 1 <= WordLimit
  THEN LastBoundary(text) - 1 ELSE Len(text)

(* #flush: the kept count serves when the whole buffer is counted.         *)
Flushed(cut) ==
  IF ~chunked \/ buffer = <<>> THEN total
  ELSE IF cut = Len(buffer) /\ kept # NoCount THEN Plus(total, kept)
  ELSE Plus(total, Count(SubSeq(buffer, 1, cut)))

(* begin: another stream starts from nothing.                              *)
Begin ==
  /\ streaming' = TRUE
  /\ chunked' = FALSE /\ buffer' = <<>> /\ kept' = NoCount /\ total' = Nothing /\ pushed' = <<>>
  /\ UNCHANGED counter

(* Mutant: a piece added to the buffer leaves the kept count.              *)
PushKeeping(piece, next) ==
  LET cut == IF next /\ chunked THEN CutAt(buffer) ELSE 0 IN
  /\ streaming
  /\ Len(pushed) + Len(piece) <= MaxText
  /\ chunked' = TRUE
  /\ total' = IF next THEN Flushed(cut) ELSE total
  /\ buffer' = SubSeq(buffer, cut + 1, Len(buffer)) \o piece
  /\ pushed' = pushed \o piece
  /\ UNCHANGED <<streaming, kept, counter>>

(* push: the first piece of a new quarter of a second counts the old ones. *)
Push(piece, next) ==
  LET cut == IF next /\ chunked THEN CutAt(buffer) ELSE 0 IN
  /\ streaming
  /\ Len(pushed) + Len(piece) <= MaxText
  /\ chunked' = TRUE
  /\ total' = IF next THEN Flushed(cut) ELSE total
  /\ buffer' = SubSeq(buffer, cut + 1, Len(buffer)) \o piece
  /\ kept' = NoCount
  /\ pushed' = pushed \o piece
  /\ UNCHANGED <<streaming, counter>>

(* A piece of no stream, or of another generation, begins one.             *)
PushFirst(piece) ==
  /\ Len(piece) <= MaxText
  /\ streaming' = TRUE /\ chunked' = TRUE
  /\ total' = Nothing /\ kept' = NoCount
  /\ buffer' = piece /\ pushed' = piece
  /\ UNCHANGED counter

(* rate(): the count of the buffer is kept if there is none.               *)
Sample ==
  /\ kept = NoCount
  /\ kept' = Count(buffer)
  /\ UNCHANGED <<streaming, chunked, buffer, counter, total, pushed>>

(* end: everything is counted, then forgotten; what was counted goes into  *)
(* the averages.                                                           *)
End ==
  /\ streaming
  /\ total' = Flushed(Len(buffer))
  /\ streaming' = FALSE /\ chunked' = FALSE /\ buffer' = <<>> /\ kept' = NoCount
  /\ UNCHANGED <<counter, pushed>>

(* setModel restarts the stream before the counter is replaced, as does    *)
(* the OMP extension when a message starts with another tokenizer.         *)
Reconfigure(tokenizer) ==
  /\ tokenizer # counter
  /\ counter' = tokenizer
  /\ streaming' = TRUE
  /\ chunked' = FALSE /\ buffer' = <<>> /\ kept' = NoCount /\ total' = Nothing /\ pushed' = <<>>

Text == Seq({"letter", "space"})
Piece == {<<"letter">>, <<"space">>, <<"letter", "space", "letter">>}

MeterNext ==
  \/ Begin \/ Sample \/ End
  \/ \E piece \in Piece : PushFirst(piece) \/ \E next \in BOOLEAN : Push(piece, next)
  \/ \E tokenizer \in Tokenizer : Reconfigure(tokenizer)

MeterSpec == MeterInit /\ [][MeterNext]_meterVars

-----------------------------------------------------------------------------
(* Every letter of a stream is counted once, with the stream's tokenizer,  *)
(* however the pieces fall into chunks and samples (token-rate-meter:303); *)
(* after `end' the total is the whole text.                                *)
TextCountedOnce ==
  /\ total.text \o buffer = pushed
  /\ total.by \subseteq {counter}
=============================================================================
