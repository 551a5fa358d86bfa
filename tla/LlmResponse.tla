----------------------------- MODULE LlmResponse -----------------------------
(***************************************************************************)
(* The adapters of llm/types.rs: what the text of a 2xx answer is taken to *)
(* say.  An answer is given by what the adapters look for in it, each as a *)
(* set with one element, or none where it is missing or of another type:   *)
(*   json      it is JSON, a string or an object                           *)
(*   root      the string it is                                            *)
(*   at        the strings at the members OwnPaths                         *)
(*   choices   the sequence of choices, with text and message.content      *)
(*   usage     the object usage, with its three numbers; none if it is null *)
(*   counts    the numbers at token_usage and total_tokens                 *)
(***************************************************************************)
EXTENDS Integers, Sequences

CONSTANTS Bodies,  \* the answers
          Strings, \* what their strings may be
          Bits     \* the width of a token count; the integers of JSON have twice as many

\* What trim leaves nothing of.
Blank == "blank"

OwnPaths == <<"text", "content", "output", "result", "data_text", "data_content">>

\* Missing, or one of these.
Maybe(values) == {s \in SUBSET values : \A x, y \in s : x = y}

ChoiceParts == [text : Maybe(Strings), content : Maybe(Strings)]
Usages == [prompt_tokens : Maybe(Int), completion_tokens : Maybe(Int), total_tokens : Maybe(Int)]
Answers ==
    [json : BOOLEAN, root : Maybe(Strings), at : [{OwnPaths[k] : k \in 1 .. 6} -> Maybe(Strings)],
     choices : Maybe(Seq(ChoiceParts)), usage : Maybe(Usages), counts : [1 .. 2 -> Maybe(Int)]]

ASSUME AnswerScope == Bodies \subseteq Answers

\* i32, scaled down.
Counts == -(2 ^ (Bits - 1)) .. 2 ^ (Bits - 1) - 1

ParsedLlmResponse(content, tokens) ==
    [ok |-> TRUE, content |-> content, token_usage |-> tokens]
Failed(error_code) == [ok |-> FALSE, error_code |-> error_code]

VARIABLES
    body,     \* the answer
    adapter,  \* llm.provider, "none" if no answer is awaited
    parsed    \* what parse_response returned, {} before

responseVars == <<body, adapter, parsed>>

-----------------------------------------------------------------------------
(* OpenAiCompatibleAdapter.                                                *)

\* What serde accepts as an LlmResponse: all choices have their content, and a usage has its
\* three counts, none of them too large.
IsLlmResponse(b) ==
    /\ b.json /\ b.root = {}
    /\ \E choices \in b.choices : \A k \in 1 .. Len(choices) : choices[k].content # {}
    /\ \A usage \in b.usage : \A member \in DOMAIN usage : usage[member] \intersect Counts # {}

\* The content of the first choice, blank or not; no choice counts as a blank one.
OpenAiCompatible(b) ==
    IF ~IsLlmResponse(b) THEN Failed("RESPONSE_PARSE_ERROR")
    ELSE LET choices == CHOOSE c \in b.choices : TRUE
         IN  ParsedLlmResponse(
                IF choices = <<>> THEN Blank ELSE CHOOSE t \in choices[1].content : TRUE,
                UNION {usage.total_tokens : usage \in b.usage})

-----------------------------------------------------------------------------
(* SimpleTextJsonAdapter.                                                  *)

\* The first of some values that is in a set.
FirstIn(candidates, wanted) ==
    LET hits == {k \in 1 .. Len(candidates) : candidates[k] \intersect wanted # {}}
    IN  UNION {candidates[k] : k \in {h \in hits : \A j \in hits : h <= j}}

ChoiceAt(b, k, member) ==
    UNION {choices[k][member] : choices \in {c \in b.choices : k \in 1 .. Len(c)}}

TextsOf(b) ==
    <<b.root>> \o [k \in 1 .. Len(OwnPaths) |-> b.at[OwnPaths[k]]]
               \o <<ChoiceAt(b, 1, "text"), ChoiceAt(b, 1, "content")>>
TokensOf(b) == <<UNION {usage.total_tokens : usage \in b.usage}>> \o b.counts

\* Mutant: the first string is taken, though it may be blank.
FirstString(b) ==
    FirstIn(TextsOf(b), UNION {TextsOf(b)[k] : k \in 1 .. Len(TextsOf(b))}) \ {Blank}

extract_first_text(b) ==
    FirstIn(TextsOf(b), (UNION {TextsOf(b)[k] : k \in 1 .. Len(TextsOf(b))}) \ {Blank})

\* Mutant: the first number is cast.
CastTokenUsage(b) ==
    {((n + 2 ^ (Bits - 1)) % 2 ^ Bits) - 2 ^ (Bits - 1) :
        n \in FirstIn(TokensOf(b), UNION {TokensOf(b)[k] : k \in 1 .. Len(TokensOf(b))})}

\* A number that does not fit is passed over.
extract_token_usage(b) == FirstIn(TokensOf(b), Counts)

SimpleTextJson(b) ==
    IF ~b.json THEN Failed("RESPONSE_PARSE_ERROR")
    ELSE IF extract_first_text(b) = {} THEN Failed("RESPONSE_SCHEMA_ERROR")
    ELSE ParsedLlmResponse(CHOOSE t \in extract_first_text(b) : TRUE, extract_token_usage(b))

-----------------------------------------------------------------------------
ResponseInit ==
    /\ body \in Bodies
    /\ adapter \in {"openai_compatible", "simple_text_json"}
    /\ parsed = {}

parse_response ==
    /\ adapter # "none" /\ parsed = {}
    /\ parsed' = {IF adapter = "openai_compatible" THEN OpenAiCompatible(body)
                                                   ELSE SimpleTextJson(body)}
    /\ UNCHANGED <<body, adapter>>

ResponseSpec == ResponseInit /\ [][parse_response]_responseVars

-----------------------------------------------------------------------------
\* The token usage that is stored is a number of the answer, never what an integer of another
\* width made of one.
TokensAreReported ==
    \A p \in parsed : p.ok => p.token_usage \subseteq
        Counts \intersect UNION {TokensOf(body)[k] : k \in 1 .. Len(TokensOf(body))}

\* An answer of the OpenAI kind, with text in its first choice and nowhere else, means the
\* same to both adapters, whatever is blank, missing or too large around it.
OnlyChoiceHasText ==
    \A k \in 1 .. Len(TextsOf(body)) - 1 : TextsOf(body)[k] \subseteq {Blank}

AdaptersAgree ==
    LET meant == OpenAiCompatible(body)
        taken == SimpleTextJson(body)
    IN  meant.ok /\ meant.content # Blank /\ OnlyChoiceHasText
          => /\ taken.ok /\ taken.content = meant.content
             /\ meant.token_usage # {} => taken.token_usage = meant.token_usage
=============================================================================
