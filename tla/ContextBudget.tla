---------------------------- MODULE ContextBudget ----------------------------
(***************************************************************************)
(* What a request to the model looks like after the two layers of context   *)
(* management of arema.runtime: the after-tool chain, which shapes a tool's *)
(* response before it enters the history, and the budget check, which       *)
(* compacts the request before it is submitted or refuses to submit it.     *)
(*                                                                         *)
(* A content is a record: its kind, its size in tokens and the form the     *)
(* layers leave it in. A tool's response also says where it comes from and  *)
(* what serialisation makes of it, which the layers find out and the model  *)
(* takes as given:                                                          *)
(*   origin  "own" (a tool that is not in binary_origin_tools), "binary", or *)
(*           "opaque" (in that set, but the sanitizer raises on it);        *)
(*   kept    what compact_response leaves of it as it is: all of it where   *)
(*           the compactor raises or it is no dict, more than the bound     *)
(*           where keys, numbers or the 50th pass stop the truncation;      *)
(*   whole   its size as one string in the sanitizer's frame.               *)
(***************************************************************************)
EXTENDS Integers, Sequences, FiniteSets, SequencesExt

CONSTANTS
    Warning, Hard, Critical,  \* tokens at which each pressure tier begins
    PreserveTools,            \* context_preserve_recent_tools
    PreserveTurns,            \* context_preserve_recent_model_turns
    OutputBound,              \* OutputPolicy.max_chars, in tokens
    Marker,                   \* size of a "[Compacted] ..." response
    Stub,                     \* size of a truncated model text at CRITICAL
    ShortText,                \* text up to this size is kept below CRITICAL
    Preview                   \* size of a framed response cut to its preview

\* The settings validator orders the tiers and keeps the counts positive; the
\* truncated text is shorter than the shortest text that is ever truncated. The
\* smallest max_chars of a policy is 2,000, the preview dict has about 150.
ASSUME BudgetAssumption ==
    /\ {Warning, Hard, Critical, OutputBound, Marker, Stub, ShortText, Preview}
         \subseteq Nat
    /\ Warning < Hard /\ Hard < Critical
    /\ PreserveTools \in Nat \ {0} /\ PreserveTurns \in Nat \ {0}
    /\ 2 * Stub < ShortText
    /\ Preview <= OutputBound

Larger(m, n)  == IF m >= n THEN m ELSE n
Smaller(m, n) == IF m <= n THEN m ELSE n

-----------------------------------------------------------------------------
(* Contents.                                                                *)

Plain(kind, size, kept, whole, origin) ==
    [kind |-> kind, size |-> size, kept |-> kept, whole |-> whole,
     origin |-> origin, form |-> "raw"]

User(size) == Plain("user", size, size, size, "own")
Text(size) == Plain("text", size, size, size, "own")
Result(size, kept, whole, origin) == Plain("tool", size, kept, whole, origin)

Content == [kind : {"user", "text", "tool"}, size : Nat, kept : Nat, whole : Nat,
            origin : {"own", "binary", "opaque"},
            form : {"raw", "framed", "preview", "short"}]

-----------------------------------------------------------------------------
(* Layer 1: the after-tool chain, folded into one callback.                 *)

AfterTool == <<"event", "sanitize", "memory", "compact">>

\* StructuralSanitizer: the whole response becomes one string between BEGIN and
\* END lines, in a new dict.
Framed(response) == [response EXCEPT !.form = "framed", !.size = response.whole]

\* The membrane: other tools' responses pass, and so does one the sanitizer
\* raises on.
Sanitized(response) == IF response.origin = "binary" THEN Framed(response) ELSE response

\* A string is cut to its first 40 characters. Those of a framed response lie
\* within the BEGIN line, so all of the tool's data goes, and the END line too.
Cut(response) == [response EXCEPT !.form = "preview", !.size = Preview]

\* The compactor: lists are capped, then values are cut, the largest first,
\* until the response is within its bound.
Bounded(response) ==
    CASE response.form = "raw" -> [response EXCEPT !.size = response.kept]
      [] response.form = "framed" /\ response.size > OutputBound -> Cut(response)
      [] OTHER -> response

\* One step of the chain: what it makes of the response. The event and memory
\* recorders return None, which leaves the response as it is.
StepResult(step, response) ==
    CASE step = "sanitize" -> Sanitized(response)
      [] step = "compact"  -> Bounded(response)
      [] OTHER -> response

\* ADK's own walk of an after-tool list: it stops at the first step that
\* returns a replacement.
FirstReplacement(response) ==
    LET changed == SelectSeq(AfterTool, LAMBDA s : StepResult(s, response) # response)
    IN  IF changed = <<>> THEN response ELSE StepResult(changed[1], response)

Completed(response) == FoldLeft(LAMBDA r, s : StepResult(s, r), response, AfterTool)

-----------------------------------------------------------------------------
(* Layers 2 and 3: the budget check before a model call.                    *)

Tokens(contents) == FoldLeft(LAMBDA n, c : n + c.size, 0, contents)

Pressure(tokens) ==
    CASE tokens >= Critical -> "critical"
      [] tokens >= Hard /\ tokens < Critical -> "hard"
      [] tokens >= Warning /\ tokens < Hard -> "warning"
      [] tokens < Warning -> "normal"

Level(pressure) ==
    CASE pressure = "critical" -> [tools |-> 1, turns |-> 1, least |-> ShortText \div 2,
                                   stub |-> Stub]
      [] pressure = "hard" -> [tools |-> Larger(1, PreserveTools \div 2),
                               turns |-> Larger(1, PreserveTurns \div 2),
                               least |-> ShortText, stub |-> 2 * Stub]
      [] OTHER -> [tools |-> PreserveTools, turns |-> PreserveTurns,
                   least |-> ShortText, stub |-> 2 * Stub]

\* The positions of a kind of content, but for the n most recent ones.
OlderThanLast(contents, kind, n) ==
    LET all == {i \in DOMAIN contents : contents[i].kind = kind}
    IN  {i \in all : Cardinality({j \in all : j > i}) >= n}

OlderByOneMore(contents, kind, n) ==
    LET all == {i \in DOMAIN contents : contents[i].kind = kind}
    IN  {i \in all : Cardinality({j \in all : j > i}) >= n - 1}

Older(contents, kind, n) == OlderThanLast(contents, kind, n)

WithOldToolsCompacted(contents, level) ==
    [i \in DOMAIN contents |->
        IF i \in Older(contents, "tool", level.tools) /\ contents[i].form # "short"
        THEN [contents[i] EXCEPT !.size = Marker, !.form = "short"]
        ELSE contents[i]]

WithOldTextTruncated(contents, level) ==
    [i \in DOMAIN contents |->
        IF /\ i \in Older(contents, "text", level.turns)
           /\ contents[i].size > level.least /\ contents[i].form # "short"
        THEN [contents[i] EXCEPT !.size = level.stub, !.form = "short"]
        ELSE contents[i]]

\* The request as it is submitted.
Fitted(contents) ==
    LET pressure == Pressure(Tokens(contents))
        level    == Level(pressure)
        tools    == WithOldToolsCompacted(contents, level)
    IN  IF pressure = "normal" THEN contents
        ELSE IF Tokens(tools) >= Warning THEN WithOldTextTruncated(tools, level)
        ELSE tools

\* Whether the check stops the agent instead of submitting the fitted request.
\* The first form trusts the estimate made before the compaction.
RefusedOnOldEstimate(contents, fitted) == Pressure(Tokens(contents)) = "critical"
Refused(contents, fitted) == Pressure(Tokens(fitted)) = "critical"
==============================================================================
