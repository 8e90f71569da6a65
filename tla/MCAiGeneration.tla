--------------------------- MODULE MCAiGeneration ---------------------------
(***************************************************************************)
(* AiGeneration for TLC: all texts of up to MaxLines lines, and longer     *)
(* ones that hold two fenced blocks or two runs of code.  Where blocks     *)
(* stand side by side every language meets every other; elsewhere one of   *)
(* JavaScript's names stands for the five.                                 *)
(***************************************************************************)
EXTENDS AiGeneration, SequencesExt

CONSTANT MaxLines   \* the longest text that is taken line by line

\* Widths that make a short run of long lines beat a long one of short ones.
LineWidth == [k \in LineKinds |->
    CASE k = "blank" -> 0 [] k = "bad" -> 1 [] k = "comment" -> 5 [] OTHER -> 2]

\* Either side of the bound that makes a setting unusable.
SomeTimeouts == {0, 1}
SomeRetries  == {-1, 0}

SomeFences == {"js_fence", "fence", "py_fence"}
SomeLines  == (LineKinds \ Fences) \cup SomeFences

\* Two fenced blocks around one line each, in any two languages.
LanguageTexts ==
    { <<first, line, "fence", second, other, "fence">> :
          first, second \in Fences,
          line \in {"code", "bad"}, other \in {"call", "bad"} }

\* A fenced block around one line.
Blocks == { <<open, line, close>> : open \in SomeFences,
                                    line \in {"code", "call", "bad", "blank"},
                                    close \in {"fence", "py_fence"} }

\* Two of them, with or without a line of code between.
FencedTexts == { first \o line \o second :
    first, second \in Blocks, line \in { <<>>, <<"code">> } }

\* Two runs of code with prose between them.
Runs(n) == BoundedSeq({"code", "comment", "blank"}, n)
MixedTexts == { a \o <<"prose">> \o b : a \in Runs(3), b \in Runs(2) }

AllTexts == BoundedSeq(SomeLines, MaxLines)
                \cup LanguageTexts \cup FencedTexts \cup MixedTexts

=============================================================================
