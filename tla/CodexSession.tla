---------------------------- MODULE CodexSession ----------------------------
(***************************************************************************)
(* The schemas of packages/patterns/src/CodexSession.ts, and what          *)
(* effect/Schema makes of a JSON value by them: the value with the fields  *)
(* the schema names, or Refused. The entries of a log are a union of ten   *)
(* structs, one of which has no tag.                                       *)
(*                                                                         *)
(* A JSON value is a record of its kind and what it holds: an object the   *)
(* function of its fields, an array the sequence of its items.             *)
(***************************************************************************)
EXTENDS Naturals, FiniteSetsExt, TLC

Value(kind, holds) == [kind |-> kind, holds |-> holds]
Refused == Value("refused", <<>>)
Null == Value("null", <<>>)

Schema(kind, of) == [kind |-> kind, of |-> of]
String == Schema("string", <<>>)
Number == Schema("number", <<>>)
Boolean == Schema("boolean", <<>>)
Unknown == Schema("unknown", <<>>)
Literal(text) == Schema("literal", text)
NullOr(schema) == Schema("nullOr", schema)
Optional(schema) == Schema("optional", schema)
Array(schema) == Schema("array", schema)
Struct(fields) == Schema("struct", fields)
Union(members) == Schema("union", members)
Fields(names, schema) == [n \in names |-> schema]
Strings(names) == Fields(names, String)

(* What decoding makes of a value. A field a struct does not name is       *)
(* dropped; of a union's members the first that accepts the value is taken.*)
RECURSIVE Decode(_, _)
DecodeStruct(fields, v) ==
    LET named == DOMAIN fields \cap DOMAIN v.holds
        decoded == [f \in named |-> Decode(fields[f], v.holds[f])]
        missing == {f \in DOMAIN fields \ named : fields[f].kind # "optional"}
    IN  IF v.kind # "object" \/ missing # {} \/ \E f \in named : decoded[f] = Refused
        THEN Refused ELSE Value("object", decoded)
Accepting(members, v) == {i \in DOMAIN members : Decode(members[i], v) # Refused}
DecodeUnion(members, v) ==
    IF Accepting(members, v) = {} THEN Refused ELSE Decode(members[Min(Accepting(members, v))], v)
Decode(schema, v) ==
    CASE schema.kind = "unknown" -> v
      [] schema.kind = "literal" -> IF v = Value("string", schema.of) THEN v ELSE Refused
      [] schema.kind = "nullOr" -> IF v = Null THEN v ELSE Decode(schema.of, v)
      [] schema.kind = "optional" -> Decode(schema.of, v)
      [] schema.kind = "struct" -> IF v.kind = "object" THEN DecodeStruct(schema.of, v) ELSE Refused
      [] schema.kind = "union" -> DecodeUnion(schema.of, v)
      [] schema.kind = "array" ->
            IF v.kind = "array" /\ \A i \in DOMAIN v.holds : Decode(schema.of, v.holds[i]) # Refused
            THEN Value("array", [i \in DOMAIN v.holds |-> Decode(schema.of, v.holds[i])]) ELSE Refused
      [] OTHER -> IF v.kind = schema.kind THEN v ELSE Refused

-----------------------------------------------------------------------------
GitInfo == Struct(Strings({"commit_hash", "branch", "repository_url"}))
Git == "git" :> Optional(GitInfo)
SandboxPolicy ==
    Struct("mode" :> String
           @@ Fields({"network_access", "exclude_tmpdir_env_var", "exclude_slash_tmp"}, Optional(Boolean)))

SessionMetaPayload ==
    Struct(Strings({"id", "timestamp", "cwd", "originator", "cli_version", "instructions"}) @@ Git)

MessageFragment ==
    Struct("type" :> Union(<<Literal("input_text"), Literal("output_text")>>) @@ "text" :> String)
SummaryFragment == Struct("type" :> Literal("summary_text") @@ "text" :> String)

Tagged(tag, fields) == Struct("type" :> Literal(tag) @@ fields)
Message == "role" :> String @@ "content" :> Array(MessageFragment)
Reasoning ==
    "summary" :> Array(SummaryFragment) @@ "content" :> Unknown @@ "encrypted_content" :> String
FunctionCall == Strings({"name", "arguments", "call_id"})
FunctionCallOutput == Strings({"call_id", "output"})

ResponsePayload ==
    Union(<<Tagged("message", Message), Tagged("function_call", FunctionCall),
            Tagged("function_call_output", FunctionCallOutput), Tagged("reasoning", Reasoning)>>)

TokenUsage ==
    Struct(Fields({"input_tokens", "cached_input_tokens", "output_tokens", "reasoning_output_tokens",
                   "total_tokens"}, Number))
TokenInfo ==
    Struct(Fields({"total_token_usage", "last_token_usage"}, TokenUsage) @@ "model_context_window" :> Number)
RateLimitInfo == Struct(Fields({"used_percent", "window_minutes", "resets_in_seconds"}, Number))
RateLimits == Struct(Fields({"primary", "secondary"}, Optional(RateLimitInfo)))

EventPayload ==
    Union(<<Tagged("token_count", "info" :> NullOr(TokenInfo) @@ "rate_limits" :> Optional(NullOr(RateLimits))),
            Tagged("turn_aborted", Strings({"reason"})), Tagged("agent_reasoning", Strings({"text"})),
            Tagged("agent_message", Strings({"message"})), Tagged("user_message", Strings({"message", "kind"})),
            Tagged("entered_review_mode", Strings({"prompt", "user_facing_hint"})),
            Tagged("exited_review_mode", Strings({"review_output"}))>>)

TurnContextPayload ==
    Struct(Strings({"cwd", "approval_policy", "model"}) @@ "effort" :> NullOr(String)
           @@ "summary" :> Optional(String) @@ "sandbox_policy" :> Optional(SandboxPolicy))

(* Mutant: a header without instructions is one too. *)
LooseHeader == Struct(Strings({"id", "timestamp"}) @@ "instructions" :> Optional(String) @@ Git)

SessionHeader == Struct(Strings({"id", "timestamp", "instructions"}) @@ Git)

Enveloped(tag, payload) == Tagged(tag, "timestamp" :> String @@ "payload" :> payload)
Legacy(tag, fields) == Tagged(tag, "timestamp" :> Optional(String) @@ fields)
NullableId == "id" :> NullOr(String)

SessionEntry ==
    <<SessionHeader, Enveloped("session_meta", SessionMetaPayload), Enveloped("turn_context", TurnContextPayload),
      Enveloped("response_item", ResponsePayload), Enveloped("event_msg", EventPayload),
      Enveloped("compacted", Struct(Strings({"message"}))),
      Legacy("message", NullableId @@ Message), Legacy("reasoning", "id" :> String @@ Reasoning),
      Legacy("function_call", NullableId @@ FunctionCall),
      Legacy("function_call_output", FunctionCallOutput)>>

-----------------------------------------------------------------------------
(* Values of a schema: each optional field there and not, each member of a *)
(* union, arrays of none and of one.                                       *)
RECURSIVE Values(_)
StructValues(fields) ==
    LET Given(f) == {f :> v : v \in Values(fields[f])}
        MayBe(f) == IF fields[f].kind = "optional" THEN {<<>>} \cup Given(f) ELSE Given(f)
        Add(f, chosen) == {c @@ d : c \in chosen, d \in MayBe(f)}
    IN  {Value("object", c) : c \in FoldSet(Add, {<<>>}, DOMAIN fields)}
Values(schema) ==
    CASE schema.kind = "literal" -> {Value("string", schema.of)}
      [] schema.kind = "unknown" -> {Null, Value("number", <<>>)}
      [] schema.kind = "nullOr" -> {Null} \cup Values(schema.of)
      [] schema.kind = "optional" -> Values(schema.of)
      [] schema.kind = "struct" -> StructValues(schema.of)
      [] schema.kind = "union" -> UNION {Values(schema.of[i]) : i \in DOMAIN schema.of}
      [] schema.kind = "array" -> {Value("array", <<>>)} \cup {Value("array", <<v>>) : v \in Values(schema.of)}
      [] OTHER -> {Value(schema.kind, "any")}

(* CodexSession.ts 237-248, the master schema: an entry of each kind is    *)
(* decoded as that kind and keeps all of its fields; no other kind takes   *)
(* it first.                                                               *)
EntryIsReadAsWritten(kind, v) == DecodeUnion(SessionEntry, v) = v /\ Accepting(SessionEntry, v) = {kind}

(* An entry that lacks a field it must have is not read as one of another  *)
(* kind with less in it.                                                   *)
NothingIsReadAsLess(v) ==
    \A f \in DOMAIN v.holds :
        LET cut == Value("object", [g \in DOMAIN v.holds \ {f} |-> v.holds[g]])
        IN  DecodeUnion(SessionEntry, cut) \in {cut, Refused}
=============================================================================
