----------------------------- MODULE MCTranslation ----------------------------
(***************************************************************************)
(* Requests and answers for TLC.                                           *)
(***************************************************************************)
EXTENDS Translation

CONSTANTS MaxBlocks, MaxFrags

Turn(role, text) == [role |-> role, text |-> text]

Client(home) ==
    [prefix |-> "", home |-> home, bare |-> "m", fields |-> {}, maxTokens |-> Unset,
     effort |-> Unset, wantsUsage |-> TRUE,
     messages |-> <<Turn("system", TRUE), Turn("user", TRUE)>>]

(* What a request can set: the fields that are refused one at a time, the  *)
(* others together.                                                        *)
RequestsOf(home) ==
    {[Client(home) EXCEPT !.fields = {"top_p", "stop", "tools"}]}
    \cup {[Client(home) EXCEPT !.fields = {f}] : f \in {"seed", "odd_tools"}}
    \cup {[Client(home) EXCEPT !.maxTokens = 1, !.effort = e, !.wantsUsage = FALSE] :
             e \in {"low", "minimal"}}
    \cup {[Client(home) EXCEPT !.prefix = home, !.effort = "low"]}
    \cup {[Client(home) EXCEPT !.messages = <<Turn("system", FALSE)>>, !.fields = {"hot"}]}

MCClientRequests == RequestsOf("anthropic") \cup RequestsOf("google")

MCEffortLevels == {<<"anthropic", "m", "low", "a_low">>, <<"google", "m", "low", "g_low">>}

(* A fragment is numbered by its block and its place in it. *)
Block(i, kind, n) == [kind |-> kind, frags |-> [j \in 1 .. n |-> 10 * i + j]]

BlockLists(kinds) ==
    UNION {{[i \in 1 .. n |-> Block(i, k[i], f[i])] :
               k \in [1 .. n -> kinds], f \in [1 .. n -> 1 .. MaxFrags]}
           : n \in 1 .. MaxBlocks}

AnthropicUsage ==
    [inputTokens |-> 3, cacheReadTokens |-> 1, cacheCreationTokens |-> 2,
     cacheCreation |-> [ephemeral5m |-> 1, ephemeral1h |-> 1], outputTokens |-> 4]
GoogleUsage ==
    [promptTokenCount |-> 5, cachedContentTokenCount |-> 2,
     candidatesTokenCount |-> 6, thoughtsTokenCount |-> 1]

MCMessages(provider) ==
    IF provider = "anthropic"
    THEN [blocks : BlockLists({"text", "tool_use", "thinking"}),
          stop : {"end_turn", "tool_use"}, usage : {AnthropicUsage}]
    ELSE [blocks : BlockLists({"text", "tool_use"}),
          stop : {"STOP", "SAFETY", "SPII"}, usage : {GoogleUsage}]

===============================================================================
