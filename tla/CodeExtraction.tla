--------------------------- MODULE CodeExtraction ---------------------------
(***************************************************************************)
(* How JavaScript is found in the text a model answers with: the pure      *)
(* functions of src/app/features/ai/service.py.                            *)
(*                                                                         *)
(* A text is the sequence of its lines, a line is known by its kind:       *)
(*   code     a complete statement                        const x = 1;     *)
(*   bad      looks like code, and nothing around it parses    let = ;     *)
(*   call     parses, and does not look like code         foo(1)           *)
(*   prose    neither                                     Here you go.     *)
(*   jargon   prose with one word of CODE_TOKEN_RE        a new object     *)
(*   comment  a line comment                              // todo          *)
(*   blank    white space                                                  *)
(*   a fence  ``` and a language: the first five that PREFERRED_FENCE_LANGS*)
(*            lists, the sixth, which is none at all (fence), or one that  *)
(*            it does not list (py_fence)                                  *)
(* No other line holds a backtick.                                         *)
(***************************************************************************)
EXTENDS Integers, Sequences, FiniteSets, FiniteSetsExt

CONSTANT Width      \* per kind: the number of characters of such a line

\* PREFERRED_FENCE_LANGS: the languages of fenced blocks, the best one first.
PreferredFences == << "javascript_fence", "js_fence", "jsx_fence", "node_fence",
                      "ecmascript_fence", "fence" >>

Fences == {"javascript_fence", "js_fence", "jsx_fence", "node_fence",
           "ecmascript_fence", "fence", "py_fence"}
LineKinds ==
    {"code", "bad", "call", "prose", "jargon", "comment", "blank"} \cup Fences

ASSUME WidthAssumption == Width \in [LineKinds -> Nat] /\ Width["blank"] = 0

\* str.strip.
Trim(text) ==
    LET solid == { i \in DOMAIN text : text[i] # "blank" } IN
    IF solid = {} THEN <<>> ELSE SubSeq(text, Min(solid), Max(solid))

\* len, line feeds included.
Chars(text) ==
    LET upTo[i \in 0 .. Len(text)] ==
            IF i = 0 THEN -1 ELSE upTo[i - 1] + Width[text[i]] + 1
    IN upTo[Len(text)]

-----------------------------------------------------------------------------
\* The fence lines of `text` up to line i.
FencesUpTo(text, i) == Cardinality({ j \in 1 .. i : text[j] \in Fences })

IsOdd(n) == n % 2 = 1

\* Line i is a fence that FENCED_BLOCK_RE.finditer takes for an opening one:
\* each match runs to the next fence, whatever language that one names.
Opens(text, i) ==
    /\ text[i] \in Fences
    /\ IsOdd(FencesUpTo(text, i))
    /\ FencesUpTo(text, i) < FencesUpTo(text, Len(text))

\* Mutant: the block is taken with its fences.
InnerWithFences(text, i) ==
    LET close == Min({ j \in i + 1 .. Len(text) : text[j] \in Fences }) IN
    Trim(SubSeq(text, i, close))

\* What stands between the fence at line i and the next one.
Inner(text, i) ==
    LET close == Min({ j \in i + 1 .. Len(text) : text[j] \in Fences }) IN
    Trim(SubSeq(text, i + 1, close - 1))

\* The fenced blocks, by their first lines; an empty one is passed over.
FencedBlocks(text) ==
    { i \in DOMAIN text : Opens(text, i) /\ Inner(text, i) # <<>> }

\* Mutant: the names of JavaScript are tried as one language.
RankOfFamily(fence) ==
    CASE fence = "py_fence" -> 3
      [] fence = "fence"    -> 2
      [] OTHER              -> 1

\* The place of a language in the order of the tries; one that is not listed
\* comes last.
Rank(fence) ==
    Min({ k \in DOMAIN PreferredFences : PreferredFences[k] = fence }
            \cup {Len(PreferredFences) + 1})

\* Block i is tried before block j: by language, then as they stand.
Precedes(text, i, j) ==
    \/ Rank(text[i]) < Rank(text[j])
    \/ Rank(text[i]) = Rank(text[j]) /\ i < j

\* _iter_fenced_candidates.
FencedCandidates(text) ==
    LET blocks == FencedBlocks(text)
        nth(k) == CHOOSE i \in blocks :
                      Cardinality({ j \in blocks : Precedes(text, j, i) }) = k - 1
    IN [k \in 1 .. Cardinality(blocks) |->
            [code |-> Inner(text, nth(k)), applied |-> TRUE]]

-----------------------------------------------------------------------------
\* _is_code_like_line.
CodeLike(line) == line \in {"code", "bad", "comment"}

\* _is_probably_code_snippet: a line like code, or two words of code.
LooksLikeCode(text) ==
    \/ \E i \in DOMAIN text : CodeLike(text[i])
    \/ Cardinality({ i \in DOMAIN text : text[i] = "jargon" }) >= 2

\* Mutant: of two runs of one length, the later is kept.
LongerOrEqual(run, best) == Chars(run) >= Chars(best)

\* A candidate is kept when it is longer than the best so far.
Longer(run, best) == Chars(run) > Chars(best)

\* The loop of _extract_mixed_code_block: `start` and `best` after each of its
\* turns; the last call of maybe_store is one turn more.  The flag
\* code_like_seen is TRUE whenever `start` is set.  For None, `start` is past
\* the end and `best` empty.
MixedBlock(text) ==
    LET end == Len(text) + 1
        start[i \in 0 .. Len(text)] ==
            IF i = 0 THEN end
            ELSE IF CodeLike(text[i]) THEN Min({i, start[i - 1]})
            ELSE IF text[i] = "blank" THEN start[i - 1]
            ELSE end
        stores(i) == start[i - 1] < end /\ (i = end \/ start[i] = end)
        run(i)    == Trim(SubSeq(text, start[i - 1], i - 1))
        best[i \in 0 .. end] ==
            IF i = 0 THEN <<>>
            ELSE IF stores(i) /\ Longer(run(i), best[i - 1]) THEN run(i)
            ELSE best[i - 1]
    IN best[end]

\* Mutant: an answer that mixes prose and code is only tried as it is.
CandidatesUnmixed(text) ==
    IF text = <<>> THEN <<>>
    ELSE Append(FencedCandidates(text), [code |-> text, applied |-> FALSE])

\* extract_code_candidates of a stripped text, in the order they are tried.
\* That none is tried twice is left to the one who tries them.
Candidates(text) ==
    LET mixed == MixedBlock(text) IN
    IF text = <<>> THEN <<>>
    ELSE Append(FencedCandidates(text), [code |-> text, applied |-> FALSE])
         \o IF mixed \in {<<>>, text} THEN <<>>
            ELSE << [code |-> mixed, applied |-> TRUE] >>

-----------------------------------------------------------------------------
\* `node --check`: every statement parses, and so does a pair of fence lines
\* with anything between them: to JavaScript they are template literals, one
\* tagged by the other.  A word after the closing one does not parse.
Parses(code) ==
    /\ ~ IsOdd(FencesUpTo(code, Len(code)))
    /\ \A i \in DOMAIN code :
          IF IsOdd(FencesUpTo(code, i))
          THEN TRUE
          ELSE code[i] \in {"code", "call", "comment", "blank", "fence"}

\* is_comment_only_code.
IsCommentOnly(code) == \A i \in DOMAIN code : code[i] \in {"comment", "blank"}

-----------------------------------------------------------------------------
(***************************************************************************)
(* What the extraction is to find, said without its loops and its lists.   *)
(***************************************************************************)

\* Lines a to b of a text are a run of code: code lines and the blank lines
\* between them, as many as there are.
IsCodeRun(text, a, b) ==
    /\ a <= b /\ CodeLike(text[a]) /\ CodeLike(text[b])
    /\ \A i \in a .. b : CodeLike(text[i]) \/ text[i] = "blank"
    /\ \A i \in DOMAIN text \ (a .. b) : CodeLike(text[i]) =>
          \E j \in (i .. a) \cup (b .. i) :
              ~ CodeLike(text[j]) /\ text[j] # "blank"

CodeRuns(text) ==
    { r \in (DOMAIN text) \X (DOMAIN text) : IsCodeRun(text, r[1], r[2]) }

\* The first of the longest ones, if there is one.
LongestRun(text) ==
    LET run(r)    == SubSeq(text, r[1], r[2])
        beats(r, q) == \/ Chars(run(r)) > Chars(run(q))
                       \/ Chars(run(r)) = Chars(run(q)) /\ r[1] <= q[1]
    IN { run(r) : r \in { q \in CodeRuns(text) :
                              \A other \in CodeRuns(text) : beats(q, other) } }

\* Lines a to b of a text are a fenced block that parses.
IsUsableFence(text, a, b) ==
    /\ a < b /\ {text[a], text[b]} \subseteq Fences
    /\ Cardinality({ i \in 1 .. a : text[i] \in Fences }) % 2 = 1
    /\ \A i \in a + 1 .. b - 1 : text[i] \in {"code", "call", "comment", "blank"}
    /\ \E i \in a + 1 .. b - 1 : text[i] # "blank"

UsableFences(text) ==
    { f \in (DOMAIN text) \X (DOMAIN text) : IsUsableFence(text, f[1], f[2]) }

\* Fence a is listed, and b is not listed before it or with it.
IsPreferred(a, b) ==
    \E k \in DOMAIN PreferredFences :
        /\ PreferredFences[k] = a
        /\ \A j \in 1 .. k : PreferredFences[j] # b

\* Of two fenced blocks, f is to be answered: it has the better language, or
\* stands first of two in the same.
Wins(text, f, g) ==
    \/ IsPreferred(text[f[1]], text[g[1]])
    \/ text[f[1]] = text[g[1]] /\ f[1] <= g[1]

\* Code without markdown fences and prose.
IsPlain(code) ==
    \A i \in DOMAIN code : code[i] \notin Fences \cup {"prose", "jargon"}

=============================================================================
