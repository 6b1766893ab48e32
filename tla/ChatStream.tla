------------------------------ MODULE ChatStream ------------------------------
(***************************************************************************)
(* One answer of the AI chat on its way to the browser                     *)
(* (internal/logic/aichat/service.go and internal/handler/aichat/chat.go). *)
(*                                                                         *)
(* Three goroutines: the call to the AI service, which puts the pieces of  *)
(* the answer (deltas) into one channel and its result into another; the   *)
(* forwarder runStream, which selects among them, a ticker and the         *)
(* deadline and puts events into a third channel; and the HTTP handler,    *)
(* which writes the events to the client.  Go's select takes any of its    *)
(* ready cases.  A context is done when the client has gone or the handler *)
(* has returned (request context), and besides at the deadline or when     *)
(* runStream returns (stream context).  What the AI is sent of the         *)
(* conversation is ChatHistory's concern and decided before they start.    *)
(*                                                                         *)
(* Deltas are numbered in the order the AI service produces them.          *)
(***************************************************************************)
EXTENDS ChatHistory

CONSTANTS
  DeltaBuffer, EventBuffer,   \* capacities of the channels (16 in the code)
  MaxDeltas,                  \* bound: length of the answer
  MaxPings                    \* bound: pings of the ticker

ASSUME ChatStreamAssumption ==
  /\ DeltaBuffer \in Nat \ {0} /\ EventBuffer \in Nat \ {0}
  /\ MaxDeltas \in Nat /\ MaxPings \in Nat

VARIABLES
  ai,             \* the call: "running", "sending" a delta, "ended"
  produced,       \* deltas the AI service has produced
  deltas, result, \* its channels; result holds "none", "done" or "error"
  main,           \* runStream: "loop", "send", "return", "released", "closed"
  pending,        \* what runStream is sending
  pings,
  events,         \* the channel to the handler
  handler,        \* "reading", "returned"
  page,           \* what the client has been sent
  disconnected,   \* the client has gone
  expired,        \* the deadline of the stream has passed
  locked          \* the lock of the user in Redis is still this request's

aiVars   == <<ai, produced, deltas, result>>
mainVars == <<main, pending, pings, events, locked>>
httpVars == <<handler, page>>
streamVars == <<aiVars, mainVars, httpVars, disconnected, expired>>

Event == [type : {"meta", "delta", "done", "error", "canceled", "ping"}, n : 0..MaxDeltas]

Plain(type) == [type |-> type, n |-> 0]
Delta(n)    == [type |-> "delta", n |-> n]

StreamTypeOK ==
  /\ ai \in {"running", "sending", "ended"}
  /\ produced \in 0..MaxDeltas
  /\ deltas \in Seq(1..MaxDeltas) /\ Len(deltas) <= DeltaBuffer
  /\ result \in {"none", "done", "error"}
  /\ main \in {"loop", "send", "return", "released", "closed"}
  /\ pending \in Event
  /\ pings \in 0..MaxPings
  /\ events \in Seq(Event) /\ Len(events) <= EventBuffer
  /\ handler \in {"reading", "returned"}
  /\ page \in Seq(Event)
  /\ disconnected \in BOOLEAN /\ expired \in BOOLEAN /\ locked \in BOOLEAN

\* Stream has acquired the guard; runStream sends meta before it calls the AI.
StreamInit ==
  /\ ai = "ended" /\ produced = 0 /\ deltas = <<>> /\ result = "none"
  /\ main = "send" /\ pending = Plain("meta") /\ pings = 0
  /\ events = <<>> /\ handler = "reading" /\ page = <<>>
  /\ disconnected = FALSE /\ expired = FALSE /\ locked = TRUE

RequestDone == disconnected \/ handler = "returned"
StreamDone  == RequestDone \/ expired \/ main \in {"return", "released", "closed"}

-----------------------------------------------------------------------------
(* The call to the AI service. *)

Produce ==
  /\ ai = "running" /\ produced < MaxDeltas
  /\ ai' = "sending" /\ produced' = produced + 1
  /\ UNCHANGED <<deltas, result, mainVars, httpVars, disconnected, expired>>

\* Mutant: a delta that finds the channel full is dropped.
SendDeltaDropping ==
  /\ ai = "sending"
  /\ deltas' = IF Len(deltas) < DeltaBuffer THEN Append(deltas, produced) ELSE deltas
  /\ ai' = "running"
  /\ UNCHANGED <<produced, result, mainVars, httpVars, disconnected, expired>>

\* The callback: deltas <- delta, or the stream context is done.
SendDelta ==
  /\ ai = "sending"
  /\ \/ /\ Len(deltas) < DeltaBuffer
        /\ deltas' = Append(deltas, produced) /\ ai' = "running"
        /\ UNCHANGED result
     \/ /\ StreamDone
        /\ result' = "error" /\ ai' = "ended"
        /\ UNCHANGED deltas
  /\ UNCHANGED <<produced, mainVars, httpVars, disconnected, expired>>

\* Mutant: the channel of the result has no buffer.
FinishUnbuffered ==
  /\ ai = "running" /\ main = "loop"
  /\ result' \in {"done", "error"} /\ ai' = "ended"
  /\ UNCHANGED <<produced, deltas, mainVars, httpVars, disconnected, expired>>

\* The result has a buffer of one, so the goroutine ends without a receiver.
Finish ==
  /\ ai = "running"
  /\ result' \in {"done", "error"} /\ ai' = "ended"
  /\ UNCHANGED <<produced, deltas, mainVars, httpVars, disconnected, expired>>

-----------------------------------------------------------------------------
(* runStream. *)

Select(event) ==
  /\ main = "loop"
  /\ main' = "send" /\ pending' = event
  /\ UNCHANGED <<events, locked, httpVars, disconnected, expired>>

TakeDelta ==
  /\ deltas # <<>> /\ Select(Delta(Head(deltas)))
  /\ deltas' = Tail(deltas)
  /\ UNCHANGED <<ai, produced, result, pings>>

\* The error of a call whose client has gone is context.Canceled.
TakeResult ==
  /\ \/ result # "none" /\ Select(Plain(result))
     \/ result = "error" /\ RequestDone /\ Select(Plain("canceled"))
  /\ UNCHANGED <<aiVars, pings>>

Ping ==
  /\ pings < MaxPings /\ Select(Plain("ping"))
  /\ pings' = pings + 1
  /\ UNCHANGED aiVars

\* streamContext.Err(): Canceled when the client has gone before the deadline.
Deadline ==
  /\ StreamDone
  /\ \/ RequestDone /\ Select(Plain("canceled"))
     \/ expired /\ Select(Plain("error"))
  /\ UNCHANGED <<aiVars, pings>>

\* sendEvent: errors go with the request context, all others with the stream
\* context.
Unwanted ==
  IF pending.type \in {"error", "canceled"} THEN RequestDone ELSE StreamDone

\* Mutant: runStream goes on after done.
SendGoesOn ==
  /\ main = "send"
  /\ \/ /\ Len(events) < EventBuffer
        /\ events' = Append(events, pending)
        /\ main' = IF pending.type \in {"error", "canceled"} THEN "return" ELSE "loop"
        /\ ai' = IF pending.type = "meta" THEN "running" ELSE ai
     \/ /\ Unwanted
        /\ main' = "return"
        /\ UNCHANGED <<events, ai>>
  /\ UNCHANGED <<produced, deltas, result, pending, pings, locked, httpVars,
                 disconnected, expired>>

\* After meta the AI is called; done and the errors are the last event.
Send ==
  /\ main = "send"
  /\ \/ /\ Len(events) < EventBuffer
        /\ events' = Append(events, pending)
        /\ main' = IF pending.type \in {"done", "error", "canceled"} THEN "return" ELSE "loop"
        /\ ai' = IF pending.type = "meta" THEN "running" ELSE ai
     \/ /\ Unwanted
        /\ main' = "return"
        /\ UNCHANGED <<events, ai>>
  /\ UNCHANGED <<produced, deltas, result, pending, pings, locked, httpVars,
                 disconnected, expired>>

\* The deferred calls in their order: cancel, release, close.  A release that
\* fails is only logged.
Unlock ==
  /\ main = "return"
  /\ main' = "released" /\ locked' \in {FALSE, locked}
  /\ UNCHANGED <<aiVars, pending, pings, events, httpVars, disconnected, expired>>

Close ==
  /\ main = "released"
  /\ main' = "closed"
  /\ UNCHANGED <<aiVars, pending, pings, events, locked, httpVars, disconnected, expired>>

-----------------------------------------------------------------------------
(* The handler: range over the events.  A canceled stream is not reported. *)

Write ==
  /\ handler = "reading" /\ events # <<>>
  /\ events' = Tail(events)
  /\ IF Head(events).type = "canceled"
       THEN handler' = "returned" /\ UNCHANGED page
       ELSE /\ page' = IF disconnected \/ Head(events).type = "ping" THEN page
                       ELSE Append(page, Head(events))
            /\ UNCHANGED handler
  /\ UNCHANGED <<aiVars, main, pending, pings, locked, disconnected, expired>>

Return ==
  /\ handler = "reading" /\ events = <<>> /\ main = "closed"
  /\ handler' = "returned"
  /\ UNCHANGED <<aiVars, mainVars, page, disconnected, expired>>

Disconnect ==
  /\ ~disconnected /\ handler = "reading"
  /\ disconnected' = TRUE
  /\ UNCHANGED <<aiVars, mainVars, httpVars, expired>>

Expire ==
  /\ ~expired
  /\ expired' = TRUE
  /\ UNCHANGED <<aiVars, mainVars, httpVars, disconnected>>

-----------------------------------------------------------------------------
Ai   == Produce \/ SendDelta \/ Finish
Main == TakeDelta \/ TakeResult \/ Ping \/ Deadline \/ Send \/ Unlock \/ Close
Http == Write \/ Return

StreamNext == Ai \/ Main \/ Http \/ Disconnect \/ Expire

StreamSpec == StreamInit /\ [][StreamNext]_streamVars

\* Goroutines that can run do run, and the deadline comes.  The AI service
\* itself owes nothing until the context of the call is done.
Fairness ==
  /\ WF_streamVars(SendDelta) /\ WF_streamVars(StreamDone /\ Finish)
  /\ WF_streamVars(Main) /\ WF_streamVars(Http) /\ WF_streamVars(Expire)

FairSpec == StreamSpec /\ Fairness

-----------------------------------------------------------------------------
Shown == SelectSeq(page, LAMBDA e : e.type = "delta")

(* The client sees the answer from its beginning and without gaps, however *)
(* slow it reads: behind meta, each piece in its place.                    *)
NoGaps == \A i \in 1..Len(page) : page[i].type = "delta" => page[i].n = i - 1

(* Nothing follows the event that ends a stream, and meta comes first.     *)
WellFormed ==
  \A i \in 1..Len(page) :
    /\ (page[i].type = "meta") <=> (i = 1)
    /\ page[i].type \in {"done", "error"} => i = Len(page)

(* A stream never outlives its request: the call, the forwarder and the    *)
(* handler all end, whoever of them or of the client goes first.           *)
NothingLeaks == <>[](ai = "ended" /\ main = "closed" /\ handler = "returned")

(* Every conversation of the right form is accepted however long its old   *)
(* turns are, and what the AI is sent is the longest end of it that begins *)
(* with a question and fits: no answer without its question, no turn       *)
(* dropped for nothing, and never the last question.                       *)
WindowIsLongest ==
  main = "send" /\ pending = Plain("meta") => \A input \in Conversations : IsLongestEnd(input)

Ends(type) == page # <<>> /\ page[Len(page)].type = type

(* docs/openapi.yaml:130-135 shows the pieces of the answer and then done  *)
(* with "completed": a client that has got done has got all of the answer. *)
DoneIsComplete == Ends("done") => Len(Shown) = produced
=============================================================================
