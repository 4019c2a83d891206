----------------------------- MODULE LLMStream -----------------------------
(***************************************************************************)
(* llm/internal/bridge: a stream of completion chunks, read from the two   *)
(* channels of a provider's goroutine, turned into events. Arguments of a  *)
(* tool call arrive in pieces, and a call is emitted once it is whole.     *)
(*                                                                         *)
(* A provider sends pieces in one of three styles: bare after the first;   *)
(* each time everything so far, under the call's ID; or each piece under   *)
(* the ID. It may go on with an earlier call after it began another, and   *)
(* its sends are not buffered. The stream has one consumer. A chunk        *)
(* carries text or one piece; usage and stop reasons are left out.         *)
(***************************************************************************)
EXTENDS Naturals, Sequences, SequencesExt

CONSTANTS ToolID, NoID,
          Char,      \* what arguments are written with
          MaxArgs    \* bound: the length of a call's arguments

ASSUME ToolAssumption == MaxArgs \in Nat /\ NoID \notin ToolID

VARIABLES pieceStyle,  \* of the provider
          begun,       \* the calls it has begun, in order
          whole,       \* the arguments it has sent of each
          confused,    \* the calls it sent a piece of that has no sure place
          offered,     \* what it is blocked sending
          upstream,    \* whether it is still producing
          shutChans,   \* the channels it has closed
          liveChans,   \* s.chunks and s.errs, as far as they are not nil
          tools,       \* s.tools
          emittedTo,   \* s.flushed
          queued,      \* s.pending
          yielded,     \* the tool calls and the end, as Next advanced to them
          inNext,      \* the consumer is inside Next
          stopped,     \* s.done, s.err and s.closed
          finishRan,   \* finish was called
          drainsFrom   \* the channels that drain still reads

providerVars == <<pieceStyle, begun, whole, confused, offered, upstream, shutChans>>
toolVars == <<tools, emittedTo>>
llmVars == <<providerVars, liveChans, toolVars, queued, yielded, inNext, stopped,
             finishRan, drainsFrom>>

Chan == {"chunks", "errs"}
PieceStyle == {"fragments", "cumulative", "repeated"}
ArgsUpTo(n) == UNION {[1..k -> Char] : k \in 0..n}
NoOffer == [on |-> "none"]
TextChunk == [on |-> "chunks", type |-> "text"]
ErrorValue == [on |-> "errs"]
Piece(id, args) == [on |-> "chunks", type |-> "call", id |-> id, args |-> args]
ToolUse(t) == [type |-> "tool", id |-> t.id, args |-> t.args]
DeltaEvent == [type |-> "delta"]
DoneEvent == [type |-> "done"]

LLMTypeOK ==
    /\ pieceStyle \in PieceStyle /\ upstream \in {"sending", "over"}
    /\ shutChans \subseteq Chan /\ whole \in [ToolID -> ArgsUpTo(MaxArgs)]
    /\ \A i \in DOMAIN begun : begun[i] \in ToolID
    /\ confused \subseteq ToolID
    /\ liveChans \subseteq Chan /\ drainsFrom \subseteq Chan
    /\ emittedTo \in 0..Len(tools) /\ Len(tools) <= Len(begun)
    /\ inNext \in BOOLEAN /\ finishRan \in BOOLEAN
    /\ stopped \subseteq {"done", "err", "closed"}

LLMInit ==
    /\ pieceStyle \in PieceStyle /\ begun = <<>> /\ whole = [t \in ToolID |-> <<>>]
    /\ confused = {} /\ offered = NoOffer /\ upstream = "sending" /\ shutChans = {}
    /\ liveChans = Chan /\ tools = <<>> /\ emittedTo = 0
    /\ queued = <<>> /\ yielded = <<>> /\ inNext = FALSE
    /\ stopped = {} /\ finishRan = FALSE /\ drainsFrom = {}

-----------------------------------------------------------------------------
(* The provider's goroutine.                                               *)
readerVars == <<liveChans, toolVars, queued, yielded, inNext, stopped, finishRan,
                drainsFrom>>
Offers(what) == upstream = "sending" /\ offered = NoOffer /\ offered' = what

SendText ==
    /\ Offers(TextChunk)
    /\ UNCHANGED <<pieceStyle, begun, whole, confused, upstream, shutChans, readerVars>>

SendOpen(id, args) ==
    /\ \A i \in DOMAIN begun : begun[i] # id
    /\ Offers(Piece(id, args))
    /\ begun' = Append(begun, id) /\ whole' = [whole EXCEPT ![id] = args]
    /\ UNCHANGED <<pieceStyle, confused, upstream, shutChans, readerVars>>

(* Of whose arguments the stream can no longer be sure: of a call that     *)
(* goes on when it had been taken for whole, and of the one that its bare  *)
(* piece is added to instead; and of a call whose next piece, under its    *)
(* ID, happens to begin with all there was before it.                      *)
Ambiguous(sofar, piece) == sofar # <<>> /\ IsPrefix(sofar, piece)
Confuses(id, args) ==
    {t \in {id, Last(begun)} :
        \/ id # Last(begun) /\ (t = id \/ pieceStyle = "fragments")
        \/ t = id /\ pieceStyle = "repeated" /\ Ambiguous(whole[id], args)}

SendMore(id, args) ==
    /\ \E i \in DOMAIN begun : begun[i] = id
    /\ Len(whole[id]) + Len(args) <= MaxArgs
    /\ LET all == whole[id] \o args
       IN  /\ Offers(CASE pieceStyle = "fragments"  -> Piece(NoID, args)
                      [] pieceStyle = "cumulative" -> Piece(id, all)
                      [] pieceStyle = "repeated"   -> Piece(id, args))
           /\ whole' = [whole EXCEPT ![id] = all]
    /\ confused' = confused \cup Confuses(id, args)
    /\ UNCHANGED <<pieceStyle, begun, upstream, shutChans, readerVars>>

SendError ==
    /\ Offers(ErrorValue) /\ upstream' = "over"
    /\ UNCHANGED <<pieceStyle, begun, whole, confused, shutChans, readerVars>>

EndUpstream ==
    /\ upstream = "sending" /\ offered = NoOffer /\ upstream' = "over"
    /\ UNCHANGED <<pieceStyle, begun, whole, confused, offered, shutChans, readerVars>>

ShutChan(c) ==
    /\ upstream = "over" /\ offered = NoOffer /\ c \notin shutChans
    /\ shutChans' = shutChans \cup {c}
    /\ UNCHANGED <<pieceStyle, begun, whole, confused, offered, upstream, readerVars>>

-----------------------------------------------------------------------------
(* Next.                                                                   *)
NextCalled ==
    /\ ~inNext /\ inNext' = TRUE
    /\ UNCHANGED <<providerVars, liveChans, toolVars, queued, yielded, stopped, finishRan,
                   drainsFrom>>

NextYields ==
    /\ inNext /\ queued # <<>>
    /\ yielded' = IF Head(queued) = DeltaEvent THEN yielded
                  ELSE Append(yielded, Head(queued))
    /\ queued' = Tail(queued)
    /\ inNext' = FALSE
    /\ UNCHANGED <<providerVars, liveChans, toolVars, stopped, finishRan, drainsFrom>>

NextStops ==
    /\ inNext /\ queued = <<>> /\ stopped # {}
    /\ inNext' = FALSE
    /\ UNCHANGED <<providerVars, liveChans, toolVars, queued, yielded, stopped, finishRan,
                   drainsFrom>>

ReadsOn == inNext /\ queued = <<>> /\ stopped = {}
Unflushed == [i \in 1..Len(tools) - emittedTo |-> ToolUse(tools[emittedTo + i])]

\* Both channels are closed: the upstream is exhausted.
NextEnds ==
    /\ ReadsOn /\ liveChans = {}
    /\ queued' = Append(Unflushed, DoneEvent) /\ emittedTo' = Len(tools)
    /\ stopped' = {"done"} /\ finishRan' = TRUE
    /\ UNCHANGED <<providerVars, liveChans, tools, yielded, inNext, drainsFrom>>

ReceiveClosed(c) ==
    /\ ReadsOn /\ c \in liveChans \cap shutChans
    /\ liveChans' = liveChans \ {c}
    /\ UNCHANGED <<providerVars, toolVars, queued, yielded, inNext, stopped, finishRan,
                   drainsFrom>>

ReceiveError ==
    /\ ReadsOn /\ "errs" \in liveChans /\ offered = ErrorValue
    /\ offered' = NoOffer /\ stopped' = {"err"} /\ finishRan' = TRUE
    /\ UNCHANGED <<pieceStyle, begun, whole, confused, upstream, shutChans, liveChans,
                   toolVars, queued, yielded, inNext, drainsFrom>>

(* accumulateToolCall: where a piece goes. A repeated ID brings either the *)
(* whole again or one more piece, and the prefix test tells them apart.    *)
(* Variant: a repeated ID always brings one more piece.                    *)
MergedArgsAppend(sofar, args) == sofar \o args

MergedArgs(sofar, args) == IF IsPrefix(sofar, args) THEN args ELSE sofar \o args

KnownTool(id) == \E i \in DOMAIN tools : tools[i].id = id

Accumulate(id, args) ==
    \/ /\ id # NoID /\ KnownTool(id)
       /\ tools' = [i \in DOMAIN tools |->
                      IF tools[i].id = id
                      THEN [tools[i] EXCEPT !.args = MergedArgs(@, args)] ELSE tools[i]]
       /\ UNCHANGED <<emittedTo, queued>>
    \/ /\ id # NoID /\ ~KnownTool(id)   \* every earlier call is whole
       /\ tools' = Append(tools, [id |-> id, args |-> args])
       /\ emittedTo' = Len(tools) /\ queued' = Unflushed
    \/ /\ id = NoID
       /\ tools' = IF tools = <<>> THEN tools
                   ELSE [tools EXCEPT ![Len(tools)].args = @ \o args]
       /\ UNCHANGED <<emittedTo, queued>>

ReceiveChunk ==
    /\ ReadsOn /\ "chunks" \in liveChans /\ offered.on = "chunks"
    /\ offered' = NoOffer
    /\ \/ offered.type = "text" /\ queued' = <<DeltaEvent>> /\ UNCHANGED toolVars
       \/ offered.type = "call" /\ Accumulate(offered.id, offered.args)
    /\ UNCHANGED <<pieceStyle, begun, whole, confused, upstream, shutChans, liveChans,
                   yielded, inNext, stopped, finishRan, drainsFrom>>

-----------------------------------------------------------------------------
(* Close, and the goroutine it leaves behind while a channel is open.      *)
CloseStream ==
    /\ ~inNext /\ "closed" \notin stopped
    /\ stopped' = stopped \cup {"closed"} /\ finishRan' = TRUE
    /\ queued' = <<>> /\ drainsFrom' = liveChans /\ liveChans' = {}
    /\ UNCHANGED <<providerVars, toolVars, yielded, inNext>>

DrainChan(c) ==
    /\ c \in drainsFrom
    /\ \/ offered.on = c /\ offered' = NoOffer /\ UNCHANGED drainsFrom
       \/ c \in shutChans /\ drainsFrom' = drainsFrom \ {c} /\ UNCHANGED offered
    /\ UNCHANGED <<pieceStyle, begun, whole, confused, upstream, shutChans, liveChans,
                   toolVars, queued, yielded, inNext, stopped, finishRan>>

LLMNext ==
    \/ SendText \/ SendError \/ EndUpstream
    \/ \E id \in ToolID, args \in ArgsUpTo(1) : SendOpen(id, args)
    \/ \E id \in ToolID, args \in ArgsUpTo(2) \ {<<>>} : SendMore(id, args)
    \/ \E c \in Chan : ShutChan(c) \/ ReceiveClosed(c) \/ DrainChan(c)
    \/ NextCalled \/ NextYields \/ NextStops \/ NextEnds
    \/ ReceiveError \/ ReceiveChunk \/ CloseStream

LLMSpec == LLMInit /\ [][LLMNext]_llmVars

-----------------------------------------------------------------------------
(* The events a consumer has been given or is about to be given are tool   *)
(* calls, at most one other at their end excepted, and the calls are those *)
(* the provider made, in its order, none twice; and when the stream says   *)
(* it is done, none is missing. Each has all of its arguments and nothing  *)
(* else, in every style, unless a piece had no sure place: the provider    *)
(* went on with an earlier call, which stream.go says it cannot get right, *)
(* or a fragment under a repeated ID began with all that was seen of the   *)
(* call, which it does not (stream.go, accumulateToolCall: "The prefix     *)
(* test settles it", and "a fragment does not").                           *)
Handed == yielded \o queued
ToolCallsWhole ==
    /\ \A i \in DOMAIN Handed :
          \/ /\ Handed[i].type = "tool" /\ i <= Len(begun) /\ Handed[i].id = begun[i]
             /\ begun[i] \notin confused => Handed[i].args = whole[begun[i]]
             /\ i = Len(begun) => upstream = "over"
          \/ Handed[i].type # "tool" /\ i = Len(Handed)
    /\ stopped = {"done"} => Len(Handed) = Len(begun) + 1 /\ Last(Handed) = DoneEvent
=============================================================================
