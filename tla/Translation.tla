----------------------------- MODULE Translation ------------------------------
(***************************************************************************)
(* One streamed request through a translating adapter (internal/provider): *)
(* routing, the translation of the request, the SSE frames of the answer   *)
(* (internal/proxy/sse.go), the Anthropic and the Google stream            *)
(* translators, and the client that reassembles the chunks.  Each answer   *)
(* is also translated in one piece, as Complete would, for comparison.     *)
(*                                                                         *)
(* A model's message is a sequence of blocks of text, thinking or tool     *)
(* arguments, each a sequence of fragments.  The stream may be cut at any  *)
(* line or inside one, and any event may be garbled or too large.          *)
(***************************************************************************)
EXTENDS UsageMeters, SequencesExt

CONSTANTS
    ClientRequests, \* the requests clients send
    Messages(_),    \* the answers the models of a provider give
    EffortLevels,   \* thinking seed: <<provider, model, effort, provider_level>>
    Unset,          \* a field the client did not send
    MaxFaults       \* bound on the garbled or oversized events of a stream

VARIABLES
    creq,       \* the request of the client
    sent,       \* the request the provider received, or why none was sent
    msg,        \* the message the model answers with
    wire,       \* the lines of the response body that have not been read
    ending,     \* how the body ends: "eof", or "error" when the connection breaks
    translator, \* the translator's state
    view,       \* what an OpenAI client has assembled from the chunks
    dangling,   \* bytes were written to the client without the blank line after
    translated, \* the events that reached the translator whole
    errors,     \* parse errors counted
    faults,     \* faults of the provider or the network so far
    ended       \* the pump has returned and the handler has said so

vars == <<creq, sent, msg, wire, ending, translator, view, dangling, translated,
          errors, faults, ended>>

-------------------------------------------------------------------------------
(* router.go and thinking.go. *)
Routed(c) == IF c.prefix = "" THEN c.home ELSE c.prefix
BodyModel(c) == <<c.prefix, c.bare>>    \* "provider/model" as the client wrote it
BareModel(c) == <<"", c.bare>>

(* A level is mapped from the seeded table, by the name given, or refused. *)
mappedLevel(provider, model, effort) ==
    {row[4] : row \in {l \in EffortLevels : /\ l[1] = provider
                                            /\ <<"", l[2]>> = model
                                            /\ l[3] = effort}}

anthropicUnsupported == {"logprobs", "n", "seed", "response_format"}
googleUnsupported    == {"logprobs", "n", "seed", "thinkingConfig"}

Refused(why) == [refused |-> TRUE, why |-> why]

SystemTexts(c) == SelectSeq(c.messages, LAMBDA m : m.role = "system")
OtherTurns(c)  == SelectSeq(c.messages, LAMBDA m : m.role # "system")

(* Effort as it goes upstream: what the table says, or nothing when the    *)
(* client set none.                                                        *)
MappedOrUnset(levels, effort) ==
    IF effort = Unset THEN Unset ELSE CHOOSE l \in levels : TRUE

(* Mutant of TranslateAnthropicRequest: what cannot be mapped is dropped. *)
LenientAnthropicRequest(c) ==
    [refused |-> FALSE, model |-> BodyModel(c), system |-> SystemTexts(c),
     turns |-> OtherTurns(c),
     maxTokens |-> IF c.maxTokens = Unset THEN DefaultMaxTokens ELSE c.maxTokens,
     effort |-> LET ls == mappedLevel("anthropic", BodyModel(c), c.effort)
                IN  IF ls = {} THEN Unset ELSE MappedOrUnset(ls, c.effort),
     kept |-> c.fields \cap {"top_p", "stop", "tools"}]

(* TranslateAnthropicRequest: the system turns are joined, a ceiling is    *)
(* supplied when the client set none, and the model is the body's own.     *)
TranslateAnthropicRequest(c) ==
    LET levels == mappedLevel("anthropic", BodyModel(c), c.effort) IN
    IF c.fields \cap anthropicUnsupported # {} THEN Refused("parameter")
    ELSE IF \E i \in DOMAIN c.messages : c.messages[i].role = "system" /\ ~ c.messages[i].text
         THEN Refused("non-text system message")
    ELSE IF "hot" \in c.fields THEN Refused("temperature above 1.0")
    ELSE IF c.effort # Unset /\ levels = {} THEN Refused("reasoning_effort")
    ELSE IF "odd_tools" \in c.fields THEN Refused("tool type")
    ELSE [refused |-> FALSE, model |-> BodyModel(c), system |-> SystemTexts(c),
          turns |-> OtherTurns(c),
          maxTokens |-> IF c.maxTokens = Unset THEN DefaultMaxTokens ELSE c.maxTokens,
          effort |-> MappedOrUnset(levels, c.effort),
          kept |-> c.fields \cap {"top_p", "stop", "tools"}]

(* TranslateGoogleRequest: the last system turn wins, nothing is supplied, *)
(* and the model is the routed one, in the path.                           *)
TranslateGoogleRequest(c) ==
    LET levels == mappedLevel("google", BareModel(c), c.effort)
        system == SystemTexts(c)
    IN
    IF c.fields \cap googleUnsupported # {} THEN Refused("parameter")
    ELSE IF \E i \in DOMAIN c.messages : ~ c.messages[i].text THEN Refused("parsing request")
    ELSE IF c.effort # Unset /\ levels = {} THEN Refused("reasoning_effort")
    ELSE [refused |-> FALSE, model |-> BareModel(c),
          system |-> IF system = <<>> THEN <<>> ELSE <<Last(system)>>,
          turns |-> OtherTurns(c), maxTokens |-> c.maxTokens,
          effort |-> MappedOrUnset(levels, c.effort),
          kept |-> c.fields \cap {"top_p", "stop", "hot"}]

TranslateRequest(c) ==
    IF Routed(c) = "anthropic" THEN TranslateAnthropicRequest(c)
                               ELSE TranslateGoogleRequest(c)

-------------------------------------------------------------------------------
(* The events of a message, in each provider's protocol (external). *)
PlainEvent(type) == [type |-> type]

BlockEvents(b, i) ==
    <<[type |-> "content_block_start", index |-> i, kind |-> b.kind, name |-> i]>>
      \o [j \in 1 .. Len(b.frags) |->
             [type |-> "content_block_delta", index |-> i, kind |-> b.kind,
              frag |-> b.frags[j]]]
      \o <<PlainEvent("content_block_stop")>>

AnthropicEvents(m) ==
    <<[type |-> "message_start", usage |-> m.usage], PlainEvent("ping")>>
      \o FlattenSeq([i \in 1 .. Len(m.blocks) |-> BlockEvents(m.blocks[i], i)])
      \o <<[type |-> "message_delta", usage |-> m.usage, stop |-> m.stop],
           PlainEvent("message_stop")>>

(* Gemini sends whole parts, a tool call complete in one, with the running *)
(* totals on every chunk and the reason on the last, which may be empty.   *)
GooglePart(b, j) ==
    IF b.kind = "tool_use" THEN [tool |-> TRUE, frags |-> b.frags]
                           ELSE [tool |-> FALSE, frags |-> <<b.frags[j]>>]

GoogleChunks(m) ==
    LET parts == FlattenSeq([i \in 1 .. Len(m.blocks) |->
                    [j \in 1 .. IF m.blocks[i].kind = "tool_use" THEN 1
                                ELSE Len(m.blocks[i].frags) |->
                        [name |-> i, part |-> GooglePart(m.blocks[i], j)]]])
        soFar(k) == [m.usage EXCEPT !.candidatesTokenCount =
                        (@ * k) \div (Len(parts) + 1)]
    IN  [k \in 1 .. Len(parts) + 1 |->
            [type |-> "chunk", parts |-> IF k > Len(parts) THEN <<>> ELSE <<parts[k]>>,
             finish |-> IF k > Len(parts) THEN m.stop ELSE "",
             usage |-> soFar(k)]]

EventsOf(provider, m) ==
    IF provider = "anthropic" THEN AnthropicEvents(m) ELSE GoogleChunks(m)

(* The lines of the body: one frame per event, closed by a blank line. *)
Blank == [kind |-> "blank"]
DataLine(e) == [kind |-> "data", event |-> e, whole |-> TRUE, huge |-> FALSE]
LinesOf(events) ==
    FlattenSeq([i \in 1 .. Len(events) |->
                  <<[kind |-> "event"], DataLine(events[i]), Blank>>])

-------------------------------------------------------------------------------
(* sse.go: a frame ends at a blank line that is not its first, at a line   *)
(* that exceeds the cap, or with the body.                                 *)
FrameEnd(lines) ==
    CHOOSE i \in 1 .. Len(lines) :
        /\ \/ lines[i] = Blank /\ i > 1
           \/ lines[i].kind = "data" /\ lines[i].huge
           \/ i = Len(lines)
        /\ \A j \in 1 .. i - 1 :
              /\ lines[j] = Blank => j = 1
              /\ lines[j].kind = "data" => ~ lines[j].huge

(* The data of a frame, if the line that holds it came whole. *)
Data(frame) == {i \in DOMAIN frame : frame[i].kind = "data"}

(* Mutant of FrameData: a frame without its blank line is discarded. *)
TerminatedData(frame) ==
    {frame[i].event : i \in {j \in Data(frame) : frame[j].whole /\ Last(frame) = Blank}}

FrameData(frame) == {frame[i].event : i \in {j \in Data(frame) : frame[j].whole}}

-------------------------------------------------------------------------------
(* Chunks in the OpenAI dialect, and the client that assembles them. *)
NoTool == [index |-> -1]
Chunk(role, text, tool, finish) ==
    [role |-> role, text |-> text, tool |-> tool, finish |-> finish]

(* What it has so far, and whether it lost a chunk. *)
EmptyView == [roles |-> 0, text |-> <<>>, tools |-> <<>>, finish |-> "",
              trailers |-> <<>>, lost |-> FALSE]

(* A client keys tool calls on their index and appends what comes (external). *)
AddTool(tools, t) ==
    IF t.index = -1 THEN tools
    ELSE IF t.index + 1 \in DOMAIN tools
         THEN [tools EXCEPT ![t.index + 1].args = @ \o t.args]
         ELSE Append(tools, [index |-> t.index, name |-> t.name, args |-> t.args])

Assemble(v, c) ==
    [v EXCEPT !.roles  = @ + (IF c.role THEN 1 ELSE 0),
              !.text   = @ \o c.text,
              !.tools  = AddTool(@, c.tool),
              !.finish = IF c.finish = "" THEN @ ELSE c.finish]

AssembleAll(v, chunks) ==
    LET after[n \in 0 .. Len(chunks)] ==
            IF n = 0 THEN v ELSE Assemble(after[n - 1], chunks[n])
    IN  after[Len(chunks)]

(* What follows bytes that lack their blank line is read as part of them. *)
Receive(v, hanging, chunks) ==
    IF hanging /\ chunks # <<>>
    THEN [AssembleAll(v, Tail(chunks)) EXCEPT !.lost = TRUE]
    ELSE AssembleAll(v, chunks)

-------------------------------------------------------------------------------
(* stream_anthropic.go. *)
NewAnthropicStreamTranslator ==
    [counts |-> NoCounts, toolIndex |-> <<>>, nextTool |-> 0,
     sawUsage |-> FALSE, done |-> FALSE]

(* Mutant of anthropicFinishReason: tool_use is not mapped. *)
noToolReason(stop) == IF stop = "max_tokens" THEN "length" ELSE "stop"

anthropicFinishReason(stop) ==
    CASE stop = "max_tokens" -> "length"
      [] stop = "tool_use"   -> "tool_calls"
      [] OTHER               -> "stop"

(* toolIndex as a sequence of <<block, index>> pairs. *)
IndexOf(t, block) ==
    {t.toolIndex[i][2] : i \in {j \in DOMAIN t.toolIndex : t.toolIndex[j][1] = block}}

ToolFragment(index, frags) == [index |-> index, name |-> 0, args |-> frags]

(* Mutant of ToolDelta: an unknown block counts as the first call. *)
ToolDeltaZero(t, e) ==
    <<Chunk(FALSE, <<>>,
            ToolFragment(IF IndexOf(t, e.index) = {} THEN 0
                         ELSE CHOOSE i \in IndexOf(t, e.index) : TRUE, <<e.frag>>), "")>>

(* The chunks of a tool delta: none for a block that was not announced. *)
ToolDelta(t, e) ==
    IF IndexOf(t, e.index) = {} THEN <<>>
    ELSE <<Chunk(FALSE, <<>>,
                 ToolFragment(CHOOSE i \in IndexOf(t, e.index) : TRUE, <<e.frag>>), "")>>

(* The result of Translate: the state after, and the chunks. *)
AnthropicTranslate(t, e) ==
    CASE e.type = "message_start" ->
           [t |-> [t EXCEPT !.counts = [AnthropicStreamCounts(e.usage)
                                          EXCEPT !["output"] = t.counts["output"]]],
            chunks |-> <<Chunk(TRUE, <<>>, NoTool, "")>>]
      [] e.type = "content_block_start" /\ e.kind = "tool_use" ->
           [t |-> [t EXCEPT !.toolIndex = Append(@, <<e.index, t.nextTool>>),
                            !.nextTool = @ + 1],
            chunks |-> <<Chunk(FALSE, <<>>, [index |-> t.nextTool, name |-> e.name,
                                             args |-> <<>>], "")>>]
      [] e.type = "content_block_delta" /\ e.kind = "text" ->
           [t |-> t, chunks |-> <<Chunk(FALSE, <<e.frag>>, NoTool, "")>>]
      [] e.type = "content_block_delta" /\ e.kind = "tool_use" ->
           [t |-> t, chunks |-> ToolDelta(t, e)]
      [] e.type = "message_delta" ->
           [t |-> [t EXCEPT !.counts["output"] = AtLeastZero(e.usage.outputTokens),
                            !.sawUsage = TRUE],
            chunks |-> <<Chunk(FALSE, <<>>, NoTool, anthropicFinishReason(e.stop))>>]
      [] e.type = "message_stop" -> [t |-> [t EXCEPT !.done = TRUE], chunks |-> <<>>]
      [] OTHER -> [t |-> t, chunks |-> <<>>]

(* TranslateAnthropicResponse: the same message in one piece. *)
AnthropicResponse(m) ==
    LET calls == FlattenSeq([i \in 1 .. Len(m.blocks) |->
                    IF m.blocks[i].kind = "tool_use" THEN <<i>> ELSE <<>>])
    IN  [roles |-> 1,
         text |-> FlattenSeq([i \in 1 .. Len(m.blocks) |->
                    IF m.blocks[i].kind = "text" THEN m.blocks[i].frags ELSE <<>>]),
         tools |-> [k \in 1 .. Len(calls) |->
                      [index |-> k - 1, name |-> calls[k],
                       args |-> m.blocks[calls[k]].frags]],
         finish |-> CASE m.stop = "max_tokens" -> "length"
                      [] m.stop = "tool_use"   -> "tool_calls"
                      [] OTHER                 -> "stop"]

-------------------------------------------------------------------------------
(* stream_google.go. *)
NewGoogleStreamTranslator ==
    [lastUsage |-> NoUsage, sentRole |-> FALSE, toolCalls |-> 0, done |-> FALSE]

finishReason(toolCalls, reason) ==
    IF toolCalls > 0 THEN "tool_calls"
    ELSE CASE reason = "STOP" -> "stop"
           [] reason = "MAX_TOKENS" -> "length"
           [] reason \in {"SAFETY", "RECITATION", "BLOCKLIST",
                          "PROHIBITED_CONTENT", "SPII"} -> "content_filter"
           [] OTHER -> "stop"

PartChunk(p, index) ==
    IF p.part.tool
    THEN Chunk(FALSE, <<>>, [index |-> index, name |-> p.name, args |-> p.part.frags], "")
    ELSE Chunk(FALSE, p.part.frags, NoTool, "")

(* Mutant of KeptUsage: restated totals are added up. *)
SummedUsage(last, usage) ==
    IF last = NoUsage THEN usage
    ELSE [usage EXCEPT !.candidatesTokenCount = @ + last.candidatesTokenCount]

KeptUsage(last, usage) == usage

(* Mutant of RoleSent: that the role went out is not remembered. *)
RoleNeverSent(t, chunks) == t.sentRole

RoleSent(t, chunks) == t.sentRole \/ chunks # <<>>

(* Each chunk of this protocol has at most one part. *)
GoogleTranslate(t, e) ==
    LET tools  == t.toolCalls + Cardinality({i \in DOMAIN e.parts : e.parts[i].part.tool})
        body   == [i \in DOMAIN e.parts |-> PartChunk(e.parts[i], t.toolCalls)]
        closing == IF e.finish = "" THEN <<>>
                   ELSE <<Chunk(FALSE, <<>>, NoTool, finishReason(tools, e.finish))>>
        all    == body \o closing
    IN  [t |-> [lastUsage |-> KeptUsage(t.lastUsage, e.usage),
                sentRole |-> RoleSent(t, all),
                toolCalls |-> tools, done |-> t.done \/ e.finish # ""],
         chunks |-> IF all = <<>> \/ t.sentRole THEN all
                    ELSE [all EXCEPT ![1].role = TRUE]]

(* TranslateGoogleResponse: text only, and its own table of reasons. *)
GoogleResponse(m) ==
    [roles |-> 1,
     text |-> FlattenSeq([i \in 1 .. Len(m.blocks) |->
                  IF m.blocks[i].kind = "tool_use" THEN <<>> ELSE m.blocks[i].frags]),
     tools |-> <<>>,
     finish |-> CASE m.stop = "MAX_TOKENS" -> "length"
                  [] m.stop \in {"SAFETY", "RECITATION"} -> "content_filter"
                  [] OTHER -> "stop"]

-------------------------------------------------------------------------------
(* The requests are those of the translating adapters.  The fragments of a *)
(* block are numbered in order, whoever answers gives a reason, and what   *)
(* it counts is not negative where it restates or splits it.               *)
ASSUME RequestsAssumption ==
    \A c \in ClientRequests : Routed(c) \in {"anthropic", "google"}
ASSUME MessagesAssumption ==
    \A p \in {"anthropic", "google"} : \A m \in Messages(p) :
        /\ m.blocks \in Seq([kind : STRING, frags : Seq(Nat)])
        /\ \A i \in 1 .. Len(m.blocks) : \A j, k \in 1 .. Len(m.blocks[i].frags) :
              j < k => m.blocks[i].frags[j] < m.blocks[i].frags[k]
        /\ m.stop \in STRING \ {""}
        /\ m.usage \in UsageBlocks(p)
        /\ p = "anthropic" /\ m.usage.cacheCreation # NoDetails
              => m.usage.cacheCreation \in [ephemeral5m : Nat, ephemeral1h : Nat]
        /\ p = "google" => m.usage.candidatesTokenCount \in Nat
ASSUME NoUsageAssumption == NoUsage \notin UsageBlocks("google")
ASSUME MaxFaultsAssumption == MaxFaults \in Nat

Provider == Routed(creq)
NewTranslator(p) == IF p = "anthropic" THEN NewAnthropicStreamTranslator
                                       ELSE NewGoogleStreamTranslator
Translate(p, t, e) == IF p = "anthropic" THEN AnthropicTranslate(t, e)
                                         ELSE GoogleTranslate(t, e)
Response(p, m) == IF p = "anthropic" THEN AnthropicResponse(m) ELSE GoogleResponse(m)
ClosedCleanly == translator.done

(* What the stream is billed for, and what the client is told of it. *)
StreamUsage ==
    IF Provider = "anthropic" THEN translator.counts
    ELSE IF translator.lastUsage = NoUsage THEN NoCounts
    ELSE NormaliseGoogle(translator.lastUsage).counts

UsageChunk ==
    LET c == StreamUsage
    IN  IF Provider = "anthropic"
        THEN [prompt |-> c["input"] + c["cached_read"] + c["cache_write_5m"],
              completion |-> c["output"]]
        ELSE [prompt |-> c["input"] + c["cached_read"], completion |-> c["output"]]

NotSent == [refused |-> FALSE, model |-> Unset]

Init ==
    /\ creq \in ClientRequests
    /\ sent = NotSent
    /\ msg \in Messages(Routed(creq))
    /\ wire = <<>> /\ ending = "eof"
    /\ translator = NewTranslator(Routed(creq))
    /\ view = EmptyView /\ dangling = FALSE
    /\ translated = <<>> /\ errors = 0 /\ faults = 0
    /\ ended = FALSE

(* Stream of the adapter: translate the request, send it, and get a body. *)
Send ==
    /\ sent = NotSent
    /\ sent' = TranslateRequest(creq)
    /\ wire' = IF sent'.refused THEN <<>> ELSE LinesOf(EventsOf(Provider, msg))
    /\ ended' = sent'.refused
    /\ UNCHANGED <<creq, msg, ending, translator, view, dangling, translated, errors, faults>>

(* The provider and the network: an event arrives garbled or beyond the    *)
(* cap, the provider ends the body early, or the connection breaks between *)
(* two lines or inside one.  Faults concern what has not been read, so     *)
(* they may as well all happen before the first read.                      *)
Unread == wire # <<>> /\ translated = <<>> /\ errors = 0 /\ faults < MaxFaults

Fault(lines, how) ==
    /\ Unread
    /\ wire' = lines /\ ending' = how /\ faults' = faults + 1
    /\ UNCHANGED <<creq, sent, msg, translator, view, dangling, translated, errors, ended>>

Garble(i, huge) ==
    /\ wire[i].kind = "data" /\ wire[i].whole
    /\ Fault([wire EXCEPT ![i].whole = FALSE, ![i].huge = huge], ending)

EndEarly(i) == wire[i] = Blank /\ Fault(SubSeq(wire, 1, i), "eof")

Break(i) ==
    \/ Fault(SubSeq(wire, 1, i), "error")
    \/ /\ wire[i].kind = "data"
       /\ Fault([SubSeq(wire, 1, i) EXCEPT ![i].whole = FALSE], "error")

(* FrameReader.Next and renderFrame: a frame without data is skipped, one  *)
(* that does not translate goes to the client as it came, and the chunks   *)
(* of the others go out one by one.                                        *)
ReadFrame ==
    /\ wire # <<>>
    /\ LET end   == FrameEnd(wire)
           frame == SubSeq(wire, 1, end)
           data  == FrameData(frame)
       IN  /\ wire' = SubSeq(wire, end + 1, Len(wire))
           /\ \/ /\ Data(frame) = {}
                 /\ UNCHANGED <<translator, view, dangling, translated, errors>>
              \/ /\ Data(frame) # {} /\ data = {}
                 /\ errors' = errors + (IF \E i \in Data(frame) : frame[i].huge
                                        THEN 2 ELSE 1)
                 /\ dangling' = (Last(frame) # Blank)
                 /\ UNCHANGED <<translator, view, translated>>
              \/ \E e \in data :
                    LET r == Translate(Provider, translator, e) IN
                    /\ translator' = r.t
                    /\ view' = Receive(view, dangling, r.chunks)
                    /\ dangling' = (dangling /\ r.chunks = <<>>)
                    /\ translated' = Append(translated, e)
                    /\ UNCHANGED errors
    /\ UNCHANGED <<creq, sent, msg, ending, faults, ended>>

(* The end of the body: writeTrailers after a clean end, writeStreamError  *)
(* after a broken one.  Either closes with [DONE].                         *)
Trailers ==
    IF ending = "error" THEN <<"error", "done">>
    ELSE (IF creq.wantsUsage /\ (Provider = "anthropic" \/ translator.lastUsage # NoUsage)
          THEN <<"usage">> ELSE <<>>) \o <<"done">>

End ==
    /\ sent # NotSent /\ wire = <<>> /\ ~ ended
    /\ ended' = TRUE
    /\ view' = [view EXCEPT !.trailers = IF dangling THEN Tail(Trailers) ELSE Trailers]
    /\ dangling' = FALSE
    /\ UNCHANGED <<creq, sent, msg, wire, ending, translator, translated, errors, faults>>

Next ==
    \/ Send
    \/ \E i \in DOMAIN wire :
          (\E huge \in BOOLEAN : Garble(i, huge)) \/ EndEarly(i) \/ Break(i)
    \/ ReadFrame
    \/ End

Spec == Init /\ [][Next]_vars

-------------------------------------------------------------------------------
(* The shape of the state. *)
TypeOK ==
    /\ creq \in ClientRequests /\ msg \in Messages(Provider)
    /\ ending \in {"eof", "error"} /\ dangling \in BOOLEAN /\ ended \in BOOLEAN
    /\ faults \in 0 .. MaxFaults /\ errors \in 0 .. 2 * MaxFaults
    /\ view.roles \in 0 .. 1

(* A stream is the response.  A client that reads a stream to its clean    *)
(* end assembles the message, the tool calls and the reason that the same  *)
(* answer has when it is translated in one piece.  (Google's two paths     *)
(* agree only for answers without a tool call and for the reasons both     *)
(* know.)                                                                  *)
StreamIsTheResponse ==
    LET comparable ==
            \/ Provider = "anthropic"
            \/ /\ \A i \in DOMAIN msg.blocks : msg.blocks[i].kind # "tool_use"
               /\ msg.stop \in {"STOP", "MAX_TOKENS", "SAFETY", "RECITATION"}
        assembled == [roles |-> view.roles, text |-> view.text,
                      tools |-> view.tools, finish |-> view.finish]
    IN  ended /\ ClosedCleanly /\ errors = 0 /\ comparable
           => assembled = Response(Provider, msg)

(* At every moment, whatever was garbled or cut, the tool calls a client   *)
(* holds have dense indexes, a name that came before the arguments, and    *)
(* arguments that are fragments of their own block in order: a delta whose *)
(* block was never announced is dropped rather than added to another call. *)
(* (A frame beyond the cap goes out without its blank line and swallows    *)
(* the chunk after it, which may be the announcement: nothing is said of a *)
(* client that lost one.)                                                  *)
ToolCallsWellFormed ==
    ~ view.lost => \A i \in DOMAIN view.tools :
        LET t == view.tools[i]
        IN  /\ t.index = i - 1
            /\ t.name \in DOMAIN msg.blocks /\ msg.blocks[t.name].kind = "tool_use"
            /\ \A j \in DOMAIN t.args :
                  /\ \E k \in DOMAIN msg.blocks[t.name].frags :
                        msg.blocks[t.name].frags[k] = t.args[j]
                  /\ j > 1 => t.args[j - 1] < t.args[j]

(* The events of lines that came whole. *)
Intact(lines) ==
    FlattenSeq([i \in 1 .. Len(lines) |->
        IF lines[i].kind = "data" /\ lines[i].whole THEN <<lines[i].event>> ELSE <<>>])

(* Framing loses, repeats and reorders no event whose line came whole: not *)
(* the one after a frame that was too large, and not the last one of a     *)
(* body that ends without its blank line.                                  *)
FramingKeepsEvents ==
    [][faults' = faults /\ sent' = sent
         => translated' \o Intact(wire') = translated \o Intact(wire)]_vars

(* The meter of a stream is the meter of the response.  At a clean end the *)
(* stream's counts add up to those of the same usage block read in one     *)
(* piece, and before it they never exceed them, though Gemini restates its *)
(* totals on every chunk and Anthropic splits its counts over two events;  *)
(* and the usage a client is told is the usage that is billed.             *)
StreamMeterAgrees ==
    LET billable == {k \in AllKinds : Billable(k)}
        streamed == Total(billable, StreamUsage)
        whole    == Total(billable, Normalise(Provider, msg.usage).counts)
    IN  /\ streamed =< whole
        /\ ended /\ ClosedCleanly /\ errors = 0 => streamed = whole
        /\ UsageChunk.prompt + UsageChunk.completion = streamed

(* What bounds the bill reaches the provider or the request is refused:    *)
(* the client's ceiling and thinking level, and for Anthropic the ceiling  *)
(* that was reserved when the client set none.                             *)
LimitsReachTheProvider ==
    sent # NotSent /\ ~ sent.refused =>
        /\ creq.maxTokens # Unset => sent.maxTokens = creq.maxTokens
        /\ creq.maxTokens = Unset /\ Provider = "anthropic"
              => sent.maxTokens = ReservedOutput(0)
        /\ creq.effort # Unset
              => \E l \in EffortLevels : /\ l[1] = Provider /\ l[2] = creq.bare
                                         /\ l[3] = creq.effort /\ l[4] = sent.effort

===============================================================================
