------------------------------ MODULE StreamPump ------------------------------
(***************************************************************************)
(* Streamed responses: Pump (internal/proxy/pump.go), the semaphore that   *)
(* bounds drains, and serveStream and settleStream, which open the         *)
(* upstream call and account for what the stream consumed.                 *)
(*                                                                         *)
(* Several streams run at once and share only the drain semaphore.  Each   *)
(* is one goroutine that checks for a departed client, reads a frame and   *)
(* writes it; the client may leave (its context is cancelled) or stop      *)
(* reading (only a write timeout tells) at any moment, and the provider    *)
(* may cut the stream, break the connection or send what cannot be parsed. *)
(*                                                                         *)
(* A frame is one of those its dialect sends, and a text frame stands for  *)
(* one output token and renders into one chunk.                            *)
(***************************************************************************)
EXTENDS Integers, FiniteSets

CONSTANTS
    Streams,        \* streamed requests that hold a reservation
    Dialects,       \* the dialects of the configured providers
    MaxDrains,      \* COSTLANE_MAX_CONCURRENT_DRAINS
    MaxText         \* bound on the text frames of one stream

(* A stream has a provider: the gateway does not start without one. *)
ASSUME DialectsKnown == Dialects # {} /\ Dialects \subseteq {"openai", "anthropic", "gemini"}
ASSUME MaxDrainsPositive == MaxDrains \in Nat \ {0}
ASSUME MaxTextNatural == MaxText \in Nat

Policies == {"cancel", "drain"}
Frames == {"start", "text", "usage", "done", "stop", "finish"}

VARIABLES
    pc,         \* where the goroutine of each stream is
    dialect,    \* the dialect of its provider
    policy,     \* its key's disconnect_policy
    wants,      \* ClientWantsUsage: the client asked for the usage chunk
    client,     \* "attached", "stalled" (not reading), or "gone"
    last,       \* the last frame read, "none" before the first
    texts,      \* output tokens that arrived from the provider
    heard,      \* what the gateway has learned from the frames it could parse
    result,     \* PumpResult, the writer reference and the error
    slots,      \* the streams that hold a slot of the semaphore
    record      \* the usage record and the settle of each stream

vars == <<pc, dialect, policy, wants, client, last, texts, heard, result, slots, record>>
call == <<dialect, policy, wants>>
upstream == <<last, texts, heard>>

Goto(s, label) == pc' = [pc EXCEPT ![s] = label]

-------------------------------------------------------------------------------
(* The providers' protocols. *)

(* The frames a provider may send after frame f. *)
Following(d, f) ==
    CASE f = "none"  -> IF d = "anthropic" THEN {"start"} ELSE {"text"}
      [] f = "start" -> {"text"}
      [] f = "text"  -> {"text", IF d = "gemini" THEN "finish" ELSE "usage"}
      [] f = "usage" -> {IF d = "openai" THEN "done" ELSE "stop"}
      [] OTHER       -> {}

(* How a complete stream of each dialect ends. *)
FinalFrame(d) == CASE d = "openai" -> "done" [] d = "anthropic" -> "stop"
                   [] d = "gemini" -> "finish"

(* Whether a frame states the output count: Gemini restates it every time. *)
StatesUsage(d, f) == f = "usage" \/ d = "gemini"

(* Frames that render into a chunk for the client.  OpenAI's usage chunk is *)
(* stripped when only the gateway asked for it; Anthropic's message_delta   *)
(* carries the finish reason as well; a frame that cannot be parsed is      *)
(* relayed as it is.                                                        *)
Renders(s, f, bad) ==
    \/ bad
    \/ f \notin {"usage", "stop"}
    \/ f = "usage" /\ (dialect[s] = "anthropic" \/ wants[s])

-------------------------------------------------------------------------------
(* serveStream up to the pump. *)

(* stated is the output count the provider last stated, -1 for none; closed *)
(* whether its own closing frame went past.                                 *)
Nothing == [stated |-> -1, closed |-> FALSE, unparsed |-> FALSE]

Fresh == [writer |-> TRUE, disconnected |-> FALSE, drained |-> FALSE,
          sawDone |-> FALSE, chunks |-> 0, broke |-> FALSE]

(* The provider answers.  The pump flushes the headers first, and gives up  *)
(* when that fails.                                                         *)
Open(s, d, p, w, flushed) ==
    /\ pc[s] = "reserved"
    /\ flushed \/ client[s] # "attached"
    /\ dialect' = [dialect EXCEPT ![s] = d]
    /\ policy' = [policy EXCEPT ![s] = p]
    /\ wants' = [wants EXCEPT ![s] = w]
    /\ result' = [result EXCEPT ![s].broke = ~flushed]
    /\ Goto(s, IF flushed THEN "check" ELSE "ended")
    /\ UNCHANGED <<client, upstream, slots, record>>

(* The provider refuses the call: the reservation is released at zero, and  *)
(* no usage record is written.                                              *)
OpenFails(s) ==
    /\ pc[s] = "reserved"
    /\ Goto(s, "released")
    /\ UNCHANGED <<call, client, upstream, result, slots, record>>

(* The client, at any moment of the request. *)
ClientGoes(s, to) ==
    /\ pc[s] \notin {"released", "settled"}
    /\ \/ client[s] = "attached"
       \/ client[s] = "stalled" /\ to = "gone"
    /\ client' = [client EXCEPT ![s] = to]
    /\ UNCHANGED <<pc, call, upstream, result, slots, record>>

-------------------------------------------------------------------------------
(* The loop of Pump. *)

(* The check between chunks: the context tells that the client is gone. *)
CheckClient(s) ==
    /\ pc[s] = "check"
    /\ IF result[s].writer /\ client[s] = "gone"
       THEN /\ result' = [result EXCEPT ![s] = [@ EXCEPT !.disconnected = TRUE, !.writer = FALSE]]
            /\ Goto(s, IF policy[s] = "drain" THEN "wait_slot" ELSE "ended")
       ELSE Goto(s, "read") /\ UNCHANGED result
    /\ UNCHANGED <<call, client, upstream, slots, record>>

(* acquireDrainSlot: a free slot, or the timeout of the wait. *)
TakeSlot(s) ==
    /\ pc[s] = "wait_slot"
    /\ Cardinality(slots) < MaxDrains
    /\ slots' = slots \cup {s}
    /\ result' = [result EXCEPT ![s].drained = TRUE]
    /\ Goto(s, "read")
    /\ UNCHANGED <<call, client, upstream, record>>

SlotTimeout(s) ==
    /\ pc[s] = "wait_slot"
    /\ Cardinality(slots) = MaxDrains
    /\ Goto(s, "ended")
    /\ UNCHANGED <<call, client, upstream, result, slots, record>>

(* Leaving the loop: the deferred release gives the slot back. *)

(* Mutant of Leave: the slot is kept. *)
LeaveKeepingSlot(s) == Goto(s, "ended") /\ UNCHANGED slots

Leave(s) == Goto(s, "ended") /\ slots' = slots \ {s}

ChunksAfter(s, rendered) ==
    IF rendered THEN result[s].chunks + 1 ELSE result[s].chunks

(* A frame arrives.  One that cannot be parsed is relayed all the same, and *)
(* tells the gateway nothing.                                               *)
ReadFrame(s, f, bad) ==
    /\ pc[s] = "read"
    /\ f \in Following(dialect[s], last[s])
    /\ bad => f # "done"
    /\ texts[s] < MaxText \/ f # "text"
    /\ last' = [last EXCEPT ![s] = f]
    /\ texts' = [texts EXCEPT ![s] = IF f = "text" THEN @ + 1 ELSE @]
    /\ heard' = [heard EXCEPT ![s] = [@ EXCEPT
                    !.stated = IF ~bad /\ StatesUsage(dialect[s], f)
                               THEN texts'[s] ELSE heard[s].stated,
                    !.closed = heard[s].closed \/ (~bad /\ f = FinalFrame(dialect[s])),
                    !.unparsed = heard[s].unparsed \/ bad]]
    /\ result' = [result EXCEPT ![s] = [@ EXCEPT
                     !.sawDone = result[s].sawDone \/ f = "done",
                     !.chunks = ChunksAfter(s, Renders(s, f, bad))]]
    /\ IF result[s].writer /\ Renders(s, f, bad)
       THEN Goto(s, "write") /\ UNCHANGED slots
       ELSE IF f = "done" THEN Leave(s)
       ELSE Goto(s, "check") /\ UNCHANGED slots
    /\ UNCHANGED <<call, client, record>>

(* The body ends, wherever the provider stopped.  If the client is still    *)
(* there a translated stream gets its trailers, the usage chunk that was    *)
(* asked for and [DONE]; whether they arrive is not looked at.              *)
Trailing(s) ==
    \/ dialect[s] = "anthropic" /\ wants[s]
    \/ dialect[s] = "gemini" /\ wants[s] /\ heard[s].stated >= 0

ReadEOF(s) ==
    /\ pc[s] = "read"
    /\ result' = [result EXCEPT ![s] = [@ EXCEPT
                     !.chunks = ChunksAfter(s, result[s].writer /\ Trailing(s)),
                     !.sawDone = result[s].sawDone
                                 \/ (result[s].writer /\ dialect[s] # "openai")]]
    /\ Leave(s)
    /\ UNCHANGED <<call, client, upstream, record>>

(* A broken connection, or the provider timeout on the upstream context. *)
ReadError(s) ==
    /\ pc[s] = "read"
    /\ result' = [result EXCEPT ![s].broke = TRUE]
    /\ Leave(s)
    /\ UNCHANGED <<call, client, upstream, record>>

(* writeChunk succeeds while the client reads, or is not yet known gone. *)
WriteChunk(s) ==
    /\ pc[s] = "write"
    /\ client[s] # "stalled"
    /\ IF last[s] = "done" THEN Leave(s) ELSE Goto(s, "check") /\ UNCHANGED slots
    /\ UNCHANGED <<call, client, upstream, result, record>>

(* A failed write: under the drain policy the loop goes on, without a       *)
(* writer, and with no more said about it.                                  *)
LoseClient(s) ==
    /\ result' = [result EXCEPT ![s] = [@ EXCEPT !.disconnected = TRUE, !.writer = FALSE]]
    /\ IF policy[s] = "cancel" \/ last[s] = "done"
       THEN Leave(s) ELSE Goto(s, "check") /\ UNCHANGED slots
    /\ UNCHANGED <<call, client, upstream, record>>

(* Mutant of WriteFails: no deadline on a write, so that a client who stops *)
(* reading is never found out.                                              *)
WriteFailsOnlyIfGone(s) ==
    /\ pc[s] = "write"
    /\ client[s] = "gone"
    /\ LoseClient(s)

(* writeChunk fails, at once or at its deadline. *)
WriteFails(s) ==
    /\ pc[s] = "write"
    /\ client[s] # "attached"
    /\ LoseClient(s)

-------------------------------------------------------------------------------
(* settleStream. *)

(* Mutant of SettledOutput: no fallback where nothing was stated. *)
SettledAsStated(s) == heard[s].stated

(* The counts: what the provider stated; else what its translator holds,    *)
(* which for Anthropic is a map that is never empty; else the chunks that   *)
(* went past.                                                               *)
SettledOutput(s) ==
    IF heard[s].stated >= 0 THEN heard[s].stated
    ELSE IF dialect[s] = "anthropic" THEN 0
    ELSE result[s].chunks

(* Mutant of Reported: the translator's second answer is ignored. *)
ReportedAnyway(s) == heard[s].stated >= 0 \/ dialect[s] = "anthropic"

Reported(s) == heard[s].stated >= 0

UsageSource(s) ==
    IF result[s].disconnected /\ ~result[s].drained /\ dialect[s] # "gemini"
    THEN "tokenizer"
    ELSE IF Reported(s) THEN "provider" ELSE "estimate"

(* Mutant of ClosedCleanly: any stream that ends is taken to be complete. *)
ClosedAnyhow(s) == TRUE

(* streamClosedCleanly: [DONE], or the adapter's own test. *)
ClosedCleanly(s) ==
    IF dialect[s] = "openai" THEN result[s].sawDone
    ELSE heard[s].closed

ErrorCode(s) ==
    IF result[s].broke THEN "stream_interrupted"
    ELSE IF ClosedCleanly(s) THEN "none" ELSE "stream_truncated"

Settle(s) ==
    /\ pc[s] = "ended"
    /\ record' = [record EXCEPT ![s] =
                     [written |-> TRUE, output |-> SettledOutput(s),
                      source |-> UsageSource(s), error |-> ErrorCode(s),
                      disconnected |-> result[s].disconnected]]
    /\ Goto(s, "settled")
    /\ UNCHANGED <<call, client, upstream, result, slots>>

-------------------------------------------------------------------------------
NoRecord == [written |-> FALSE, output |-> 0, source |-> "none", error |-> "none",
             disconnected |-> FALSE]

Init ==
    /\ pc = [s \in Streams |-> "reserved"]
    /\ dialect = [s \in Streams |-> CHOOSE d \in Dialects : TRUE]
    /\ policy = [s \in Streams |-> "cancel"]
    /\ wants = [s \in Streams |-> FALSE]
    /\ client = [s \in Streams |-> "attached"]
    /\ last = [s \in Streams |-> "none"]
    /\ texts = [s \in Streams |-> 0]
    /\ heard = [s \in Streams |-> Nothing]
    /\ result = [s \in Streams |-> Fresh]
    /\ slots = {}
    /\ record = [s \in Streams |-> NoRecord]

(* What the goroutine of a stream does by itself. *)
PumpStep(s) ==
    \/ CheckClient(s) \/ TakeSlot(s) \/ SlotTimeout(s)
    \/ WriteChunk(s) \/ WriteFails(s)
    \/ ReadError(s)
    \/ Settle(s)

Next ==
    \E s \in Streams :
        \/ \E d \in Dialects, p \in Policies, w, flushed \in BOOLEAN :
               Open(s, d, p, w, flushed)
        \/ OpenFails(s)
        \/ \E to \in {"stalled", "gone"} : ClientGoes(s, to)
        \/ \E f \in Frames, bad \in BOOLEAN : ReadFrame(s, f, bad)
        \/ ReadEOF(s)
        \/ PumpStep(s)

(* The goroutine runs, and the two timeouts it relies on fire: the write    *)
(* deadline, and the provider timeout that turns a silent upstream into a   *)
(* read error.  Neither the client nor the provider owes anything.          *)
Fairness == \A s \in Streams : WF_vars(PumpStep(s))

Spec == Init /\ [][Next]_vars
FairSpec == Spec /\ Fairness

-------------------------------------------------------------------------------
(* Properties. *)

Running == {"check", "wait_slot", "read", "write"}

Knowledge == [stated: -1 .. MaxText, closed: BOOLEAN, unparsed: BOOLEAN]
PumpResult == [writer: BOOLEAN, disconnected: BOOLEAN, drained: BOOLEAN,
               sawDone: BOOLEAN, chunks: Nat, broke: BOOLEAN]

(* The type invariant. *)
TypeOK ==
    /\ pc \in [Streams -> Running \cup {"reserved", "released", "ended", "settled"}]
    /\ dialect \in [Streams -> Dialects]
    /\ policy \in [Streams -> Policies]
    /\ wants \in [Streams -> BOOLEAN]
    /\ client \in [Streams -> {"attached", "stalled", "gone"}]
    /\ last \in [Streams -> Frames \cup {"none"}]
    /\ texts \in [Streams -> 0 .. MaxText]
    /\ heard \in [Streams -> Knowledge]
    /\ result \in [Streams -> PumpResult]
    /\ slots \subseteq Streams
    /\ record \in [Streams -> [written: BOOLEAN, output: Nat,
                               source: {"none", "provider", "estimate", "tokenizer"},
                               error: {"none", "stream_interrupted", "stream_truncated"},
                               disconnected: BOOLEAN]]

(* A slot belongs to a drain that is running: whatever way a stream leaves  *)
(* the loop, it has given its slot back by the time it is settled, so that  *)
(* a broken drain never shrinks the pool for the streams after it.          *)
SlotsHeldByDrains ==
    /\ Cardinality(slots) <= MaxDrains
    /\ \A s \in slots : pc[s] \in Running /\ result[s].drained

(* An estimate is never presented as a measurement: a record whose source   *)
(* is the provider, and whose frames were all parsed, states exactly the    *)
(* output that had arrived, wherever the client left and however the        *)
(* stream was cut.                                                          *)
MeasurementIsExact ==
    \A s \in Streams :
        (record[s].source = "provider" /\ ~heard[s].unparsed) =>
            record[s].output = texts[s]

(* A record without an error code belongs to a stream that the provider     *)
(* brought to the end its own protocol defines.                             *)
CleanMeansComplete ==
    \A s \in Streams :
        (record[s].written /\ record[s].error = "none") =>
            last[s] = FinalFrame(dialect[s])

(* Why slots are given back: whoever holds one has no writer any more, and  *)
(* only a stream with a writer leaves the loop without passing Leave.       *)
SlotInv ==
    /\ IsFiniteSet(slots) /\ Cardinality(slots) <= MaxDrains
    /\ \A s \in slots : /\ pc[s] \in {"check", "read"}
                        /\ result[s].drained /\ ~result[s].writer
    /\ \A s \in Streams : pc[s] = "wait_slot" => ~result[s].writer

(* Why records are right: what the frames of a stream have told so far, and *)
(* what its record has kept of that.                                        *)
Told(s) ==
    /\ pc[s] = "reserved" => /\ last[s] = "none" /\ heard[s] = Nothing
                             /\ ~result[s].sawDone
    /\ (heard[s].stated >= 0 /\ ~heard[s].unparsed) => heard[s].stated = texts[s]
    /\ (dialect[s] # "gemini" /\ last[s] \in {"none", "start", "text"}) =>
           heard[s].stated = -1
    /\ heard[s].closed => last[s] = FinalFrame(dialect[s])
    /\ (dialect[s] = "openai" /\ result[s].sawDone) => last[s] = "done"

Kept(s) ==
    /\ record[s].written => pc[s] = "settled"
    /\ record[s].source = "provider" =>
           /\ record[s].written
           /\ Reported(s) /\ record[s].output = heard[s].stated
    /\ (record[s].written /\ record[s].error = "none") => ClosedCleanly(s)

AccountInv == \A s \in Streams : Told(s) /\ Kept(s)

(* Every stream that was opened is settled, though its client stopped       *)
(* reading, its provider went silent, or every drain slot was taken.        *)
StreamsSettle ==
    \A s \in Streams : (pc[s] \in Running) ~> (pc[s] = "settled")

(* What the comment on settleStream says: where the provider's own usage    *)
(* never arrived, the count comes from what passed through.                 *)
PartialOutputCounted ==
    \A s \in Streams :
        (record[s].written /\ heard[s].stated = -1 /\ texts[s] > 0) =>
            record[s].output > 0

===============================================================================
