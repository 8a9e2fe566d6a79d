--------------------------- MODULE ResponseShaper ---------------------------
(***************************************************************************)
(* Response shaping (server/stream.rs): the generated text arrives in      *)
(* pieces cut anywhere, and is split while it streams into reasoning,      *)
(* content and native tool calls.  Text is a sequence of symbols: every    *)
(* marker is "<" and its name, and <tool_call> has a third symbol, so that *)
(* a cut may fall inside a marker and inside what only one marker shares.  *)
(* "nl" is a newline, "fence" a Markdown fence without its newline, "a="   *)
(* and "b=" are <parameter=a> and <parameter=b>, "/param" is </parameter>, *)
(* "/param=" and the second symbol of NAMED_CLOSE close an element by its  *)
(* name; a name is on one line and not empty.  Any other symbol is text.   *)
(* Every argument value is accepted, as it is where a tool's schema        *)
(* declares no type but string.                                            *)
(***************************************************************************)
EXTENDS Integers, Sequences, FiniteSets, SequencesExt

CONSTANT MaxToolBlock      \* MAX_TOOL_BLOCK, in symbols

THINK_OPEN == <<"<", "think">>
THINK_CLOSE == <<"<", "/think">>
TOOL_OPEN == <<"<", "tool", "_call">>
TOOL_CLOSE == <<"<", "/tool">>
FUNCTION_OPEN == <<"<", "function">>
FUNCTION_CLOSE == <<"<", "/function">>
NAMED_CLOSE == <<"<", "/function=">>        \* </function=name>
ParameterOpens == {"a=", "b="}

(* The element of a singleton: {e : v \in {f}} evaluates f once.           *)
Only(S) == CHOOSE v \in S : TRUE

Drop(text, n) == SubSeq(text, n + 1, Len(text))
Take(text, n) == SubSeq(text, 1, n)

(* 0-based offsets at which a marker occurs, as str::find and              *)
(* match_indices report them.                                              *)
Occurs(text, marker) ==
    {i \in 0..(Len(text) - Len(marker)) :
        SubSeq(text, i + 1, i + Len(marker)) = marker}
Least(S) == Only({CHOOSE i \in all : \A j \in all : i <= j : all \in {S}})
Greatest(S) == Only({CHOOSE i \in all : \A j \in all : j <= i : all \in {S}})

(* The longest proper prefix of the marker that ends the text.             *)
SuffixPrefixLen(text, marker) ==
    Greatest({0} \cup {n \in 1..(Len(marker) - 1) :
                         n <= Len(text) /\ IsSuffix(Take(marker, n), text)})

-----------------------------------------------------------------------------
(* ReasoningSplitter.                                                      *)

NewSplitter(thinking) ==
    [mode |-> IF thinking THEN "reasoning" ELSE "content",
     atStart |-> TRUE, buffer |-> <<>>]

Published(mode, text, out) ==
    IF text = <<>> THEN out ELSE Append(out, [channel |-> mode, text |-> text])

RECURSIVE SplitRun(_, _)
SplitRun(given, so_far) == Only({
    LET marker == IF s.mode = "reasoning" THEN THINK_CLOSE ELSE THINK_OPEN
        other == IF s.mode = "reasoning" THEN "content" ELSE "reasoning"
        at == Occurs(s.buffer, marker)
        end == Len(s.buffer) - SuffixPrefixLen(s.buffer, marker)
    IN  CASE s.buffer = <<>> -> [s |-> s, out |-> out]
          [] s.buffer # <<>> /\ s.mode = "reasoning" /\ s.atStart ->
               IF IsStrictPrefix(s.buffer, THINK_OPEN)
               THEN [s |-> s, out |-> out]
               ELSE SplitRun([s EXCEPT !.atStart = FALSE,
                                        !.buffer = IF IsPrefix(THINK_OPEN, @)
                                                   THEN Drop(@, Len(THINK_OPEN))
                                                   ELSE @], out)
          [] OTHER ->
               IF at # {}
               THEN SplitRun([mode |-> other, atStart |-> FALSE,
                               buffer |-> Drop(s.buffer, Least(at) + Len(marker))],
                              Published(s.mode, Take(s.buffer, Least(at)), out))
               ELSE [s |-> [s EXCEPT !.buffer = Drop(@, end)],
                     out |-> Published(s.mode, Take(s.buffer, end), out)]
    : s \in {given}, out \in {so_far}})

-----------------------------------------------------------------------------
(* A tool block is accepted when it is one complete function element whose *)
(* body holds only parameters, as it is or after a stage of repair.        *)

Visible(text) == {i \in DOMAIN text : text[i] # "nl"}
TrimStart(text) == Drop(text, Least({Len(text)} \cup {i - 1 : i \in Visible(text)}))
TrimEnd(text) == Take(text, Greatest({0} \cup Visible(text)))
Trim(text) == TrimStart(TrimEnd(text))

AtLineStartOf(text, i) == i = 1 \/ text[i - 1] = "nl"

(* Parameters up to the end of the text: each ends at its first closer,    *)
(* its value opens no other at the start of a line, and no key comes twice. *)
RECURSIVE ParsesArguments(_, _)
ParsesArguments(rest, keys) ==
    rest = <<>> \/
    /\ rest[1] \in ParameterOpens \ keys
    /\ "/param" \in Range(rest)
    /\ LET end == Min({i \in DOMAIN rest : rest[i] = "/param"})
           raw == SubSeq(rest, 2, end - 1)
       IN  /\ \A i \in DOMAIN raw : raw[i] \in ParameterOpens => ~AtLineStartOf(raw, i)
           /\ ParsesArguments(TrimStart(Drop(rest, end)), keys \cup {rest[1]})

ParseToolBlock(block, naked) ==
    LET inner == IF naked THEN block
                 ELSE Trim(SubSeq(block, Len(TOOL_OPEN) + 1, Len(block) - Len(TOOL_CLOSE)))
        body == SubSeq(inner, Len(FUNCTION_OPEN) + 1, Len(inner) - Len(FUNCTION_CLOSE))
    IN  /\ naked \/ (IsPrefix(TOOL_OPEN, block) /\ IsSuffix(TOOL_CLOSE, block))
        /\ IsPrefix(FUNCTION_OPEN, inner) /\ IsSuffix(FUNCTION_CLOSE, inner)
        /\ Occurs(body, FUNCTION_OPEN) = {}
        /\ ParsesArguments(Trim(body), {})

(* Lines that hold nothing but a fence go, with their newline.             *)
DropFenceLines(text) ==
    LET fences == {i \in DOMAIN text : /\ text[i] = "fence" /\ AtLineStartOf(text, i)
                                       /\ i = Len(text) \/ text[i + 1] = "nl"}
        gone == fences \cup {i + 1 : i \in fences}
        kept == SelectSeq([i \in DOMAIN text |-> i], LAMBDA i : i \notin gone)
    IN  [k \in DOMAIN kept |-> text[kept[k]]]

NormalizeNamedClosers(text) ==
    [i \in DOMAIN text |-> CASE text[i] = "/function=" -> "/function"
                             [] text[i] = "/param=" -> "/param"
                             [] OTHER -> text[i]]

(* Missing closers are appended one element kind after the other; <<>>     *)
(* when the block outgrows MAX_TOOL_BLOCK at any of the three.             *)
Closing(text, opened, closed, close) ==
    LET deficit == IF opened > closed THEN opened - closed ELSE 0
        line == <<"nl">> \o close
        done == text \o [i \in 1..(deficit * Len(line)) |-> line[((i - 1) % Len(line)) + 1]]
    IN  IF text = <<>> \/ Len(done) > MaxToolBlock THEN <<>> ELSE done

ClosingMarker(text, open, close) ==
    Closing(text, Cardinality(Occurs(text, open)), Cardinality(Occurs(text, close)), close)

CloseDangling(block) ==
    LET symbols(S) == Cardinality({i \in DOMAIN block : block[i] \in S})
        parameters == Closing(block, symbols(ParameterOpens), symbols({"/param"}), <<"/param">>)
    IN  ClosingMarker(ClosingMarker(parameters, FUNCTION_OPEN, FUNCTION_CLOSE),
                      TOOL_OPEN, TOOL_CLOSE)

Wrapped(block) == TOOL_OPEN \o <<"nl">> \o block \o <<"nl">> \o TOOL_CLOSE

(* Mutant: an unfinished naked function is completed before it is wrapped. *)
RepairNakedToo(block, open, terminal) ==
    LET naked == open = FUNCTION_OPEN
        closers == NormalizeNamedClosers(DropFenceLines(block))
        whole == IF terminal THEN CloseDangling(closers) ELSE closers
    IN  ParseToolBlock(block, naked) \/ ParseToolBlock(IF naked THEN Wrapped(whole) ELSE whole, FALSE)

(* The stages of repair; each one must still satisfy the whole structure.  *)
RepairToolBlock(block, open, terminal) ==
    LET naked == open = FUNCTION_OPEN
    IN  \E lines \in {DropFenceLines(block)} : \E closers \in {NormalizeNamedClosers(lines)} :
            \/ \E stage \in {block, lines, closers} : ParseToolBlock(stage, naked)
            \/ /\ naked => Occurs(closers, FUNCTION_CLOSE) # {}
               /\ \E candidate \in {IF naked THEN Wrapped(closers) ELSE closers} :
                     ParseToolBlock(IF terminal THEN CloseDangling(candidate) ELSE candidate, FALSE)

-----------------------------------------------------------------------------
(* ToolStream.  "active" is the closing marker waited for, or <<>>.        *)

NewToolStream ==
    [buffer |-> <<>>, held |-> <<>>, lineStart |-> TRUE, active |-> <<>>,
     content |-> <<>>, calls |-> <<>>, overflowed |-> FALSE]

Consumed(given, n) == Only({
    [t EXCEPT !.buffer = Drop(@, n),
              !.lineStart = IF n = 0 THEN @ ELSE t.buffer[n] = "nl"]
    : t \in {given}})

(* Trailing whitespace is held back until more content follows it.         *)
EmitContent(given, text) == Only({
    LET combined == t.held \o text
        visible == Len(TrimEnd(combined))
    IN  IF text = <<>> THEN t
        ELSE [t EXCEPT !.held = Drop(combined, visible),
                       !.content = @ \o Take(combined, visible)]
    : t \in {given}})

AtLineStart(t, i) == IF i = 0 THEN t.lineStart ELSE t.buffer[i] = "nl"

Opens(t, open) == {i \in Occurs(t.buffer, open) : AtLineStart(t, i)}

(* Mutant: a split marker is not held back. *)
HoldNothing(t) == 0
HoldLen(t) ==
    LET hold(marker) == LET n == SuffixPrefixLen(t.buffer, marker)
                        IN  IF n > 0 /\ AtLineStart(t, Len(t.buffer) - n) THEN n ELSE 0
    IN  Greatest({hold(TOOL_OPEN), hold(FUNCTION_OPEN)})

HandleBlock(t, given, close, terminal) == Only({
    IF RepairToolBlock(block, IF close = TOOL_CLOSE THEN TOOL_OPEN ELSE FUNCTION_OPEN, terminal)
    THEN [t EXCEPT !.calls = Append(@, block)]
    ELSE EmitContent(t, block)
    : block \in {given}})

RECURSIVE ToolRun(_)
ToolRun(given) == Only({
    LET closeAt == Occurs(t.buffer, t.active)
        opens == Opens(t, TOOL_OPEN) \cup Opens(t, FUNCTION_OPEN)
        at == Least(opens)
        end == Len(t.buffer) - HoldLen(t)
    IN  CASE t.active # <<>> /\ closeAt # {} ->
               LET n == Least(closeAt) + Len(t.active)
                   block == Take(t.buffer, n)
                   quiet == [Consumed(t, n) EXCEPT !.active = <<>>]
               IN  ToolRun([HandleBlock(quiet, block, t.active, FALSE)
                              EXCEPT !.lineStart = TRUE])
          [] t.active # <<>> /\ closeAt = {} ->
               IF Len(t.buffer) > MaxToolBlock
               THEN EmitContent([Consumed(t, Len(t.buffer)) EXCEPT
                                     !.active = <<>>, !.overflowed = TRUE], t.buffer)
               ELSE t
          [] t.active = <<>> /\ opens # {} ->
               ToolRun([EmitContent(Consumed(t, at), Take(t.buffer, at)) EXCEPT
                          !.active = IF at \in Opens(t, TOOL_OPEN)
                                     THEN TOOL_CLOSE ELSE FUNCTION_CLOSE])
          [] OTHER -> EmitContent(Consumed(t, end), Take(t.buffer, end))
    : t \in {given}})

ToolPush(t, text) == ToolRun([t EXCEPT !.buffer = @ \o text])

ToolFinish(t, truncated) ==
    LET whole == Consumed(t, Len(t.buffer))
        ended == IF t.active # <<>> /\ ~truncated
                 THEN HandleBlock([whole EXCEPT !.active = <<>>], t.buffer, t.active, TRUE)
                 ELSE EmitContent([whole EXCEPT !.active = <<>>], t.buffer)
    IN  IF ended.calls = <<>>
        THEN [ended EXCEPT !.content = @ \o ended.held, !.held = <<>>]
        ELSE ended

-----------------------------------------------------------------------------
(* ResponseShaper: what a client has been sent is "reasoning", "content"   *)
(* and "calls".                                                            *)

NewShaper(thinking, withTools) ==
    [splitter |-> NewSplitter(thinking), withTools |-> withTools,
     tools |-> NewToolStream, reasoning |-> <<>>, plain |-> <<>>]

RECURSIVE Route(_, _)
Route(given, pieces) == Only({
    IF pieces = <<>> THEN shaper
    ELSE LET piece == pieces[1]
             routed == IF piece.channel = "reasoning"
                       THEN [shaper EXCEPT !.reasoning = @ \o piece.text]
                       ELSE IF shaper.withTools
                       THEN [shaper EXCEPT !.tools = ToolPush(@, piece.text)]
                       ELSE [shaper EXCEPT !.plain = @ \o piece.text]
         IN  Route(routed, Tail(pieces))
    : shaper \in {given}})

ShaperPush(shaper, text) ==
    Only({Route([shaper EXCEPT !.splitter = split.s], split.out) :
             split \in {SplitRun([shaper.splitter EXCEPT !.buffer = @ \o text], <<>>)}})

ShaperFinish(shaper, truncated) ==
    LET tail == Published(shaper.splitter.mode, shaper.splitter.buffer, <<>>)
        ended == Route([shaper EXCEPT !.splitter.buffer = <<>>], tail)
    IN  IF ended.withTools
        THEN [ended EXCEPT !.tools = ToolFinish(@, truncated)] ELSE ended

Shown(shaper) ==
    [reasoning |-> shaper.reasoning,
     content |-> IF shaper.withTools THEN shaper.tools.content ELSE shaper.plain,
     calls |-> shaper.tools.calls]

-----------------------------------------------------------------------------
(* Reference: the same split defined on the whole text at once, one symbol *)
(* at a time, with no buffer and no held-back suffix.                      *)

RECURSIVE RefChannels(_, _)
RefChannels(text, mode) ==
    LET marker == IF mode = "reasoning" THEN THINK_CLOSE ELSE THINK_OPEN
        other == IF mode = "reasoning" THEN "content" ELSE "reasoning"
    IN  IF text = <<>> THEN [reasoning |-> <<>>, content |-> <<>>]
        ELSE IF IsPrefix(marker, text) THEN RefChannels(Drop(text, 2), other)
        ELSE LET rest == RefChannels(Tail(text), mode)
             IN  [rest EXCEPT ![mode] = <<text[1]>> \o @]

RECURSIVE RefTools(_, _, _, _)
RefTools(text, lineStart, truncated, acc) ==
    LET close == IF IsPrefix(TOOL_OPEN, text) THEN TOOL_CLOSE ELSE FUNCTION_CLOSE
        open == IF IsPrefix(TOOL_OPEN, text) THEN TOOL_OPEN ELSE FUNCTION_OPEN
        ends == Occurs(text, close)
        n == IF ends = {} THEN Len(text) ELSE Least(ends) + Len(close)
        call == IF ends = {} THEN ~truncated /\ RepairToolBlock(text, open, TRUE)
                ELSE RepairToolBlock(Take(text, n), open, FALSE)
    IN  IF text = <<>> THEN acc
        ELSE IF lineStart /\ (IsPrefix(TOOL_OPEN, text) \/ IsPrefix(FUNCTION_OPEN, text))
        THEN RefTools(Drop(text, n), TRUE, truncated,
                      IF call THEN [acc EXCEPT !.calls = Append(@, Take(text, n))]
                      ELSE [acc EXCEPT !.content = @ \o Take(text, n)])
        ELSE RefTools(Tail(text), text[1] = "nl", truncated,
                      [acc EXCEPT !.content = Append(@, text[1])])

Reference(text, thinking, withTools, truncated) ==
    LET body == IF thinking /\ IsPrefix(THINK_OPEN, text) THEN Drop(text, 2) ELSE text
        split == RefChannels(body, IF thinking THEN "reasoning" ELSE "content")
        tools == RefTools(split.content, TRUE, truncated, [content |-> <<>>, calls |-> <<>>])
    IN  IF ~withTools
        THEN [reasoning |-> split.reasoning, content |-> split.content, calls |-> <<>>]
        ELSE [reasoning |-> split.reasoning, calls |-> tools.calls,
              content |-> IF tools.calls = <<>> THEN tools.content
                          ELSE TrimEnd(tools.content)]
=============================================================================
