--------------------------- MODULE EnvSubstitution ---------------------------
(***************************************************************************)
(* substitute_env_vars of config.rs: the placeholders ${NAME} of the       *)
(* configuration file are replaced in place, before the YAML is parsed.    *)
(* A text is a sequence of characters; positions count from 1, and a       *)
(* character stands for its bytes.                                         *)
(***************************************************************************)
EXTENDS Integers, Sequences

CONSTANTS Characters,   \* of the file, the names and the values
          Contents,     \* the files
          Environments  \* each maps the names that are set to their values

ASSUME TextScope ==
    /\ {"dollar", "left", "right"} \subseteq Characters
    /\ Contents \subseteq Seq(Characters)
    /\ \A e \in Environments : \A name \in DOMAIN e : e[name] \in Seq(Characters)

VARIABLES
    env,      \* the environment of the process
    content,  \* the file as it was read
    result,   \* the text so far
    start,    \* where the search for the next placeholder begins
    done      \* the loop was left

vars == <<env, content, result, start, done>>

TypeOK ==
    /\ env \in Environments
    /\ content \in Seq(Characters)
    /\ result \in Seq(Characters)
    /\ start \in 1 .. Len(result) + 1
    /\ done \in BOOLEAN

Opens(text, from) == {k \in from .. Len(text) - 1 : text[k] = "dollar" /\ text[k + 1] = "left"}
Closes(text, from) == {k \in from .. Len(text) : text[k] = "right"}
First(positions) == {k \in positions : \A j \in positions : k <= j}

\* A variable that is not set counts as empty.
Value(name) == IF name \in DOMAIN env THEN env[name] ELSE <<>>

Init ==
    /\ env \in Environments
    /\ content \in Contents
    /\ result = content
    /\ start = 1
    /\ done = FALSE

Replacement(begin, end) == Value(SubSeq(result, begin + 2, end - 1))

\* replace_range
Replaced(begin, end) ==
    SubSeq(result, 1, begin - 1) \o Replacement(begin, end) \o SubSeq(result, end + 1, Len(result))

\* Mutant: the value is searched for placeholders, too.
ReplaceRescanning ==
    \E begin \in First(Opens(result, start)) : \E end \in First(Closes(result, begin)) :
        /\ ~done
        /\ result' = Replaced(begin, end)
        /\ start' = begin
        /\ UNCHANGED <<env, content, done>>

\* Mutant: the search goes on where the placeholder ended before it was replaced.
ReplaceSkipping ==
    \E begin \in First(Opens(result, start)) : \E end \in First(Closes(result, begin)) :
        /\ ~done
        /\ result' = Replaced(begin, end)
        /\ start' = end + 1
        /\ UNCHANGED <<env, content, done>>

\* The next placeholder gives way to the value; the search goes on behind that.
Replace ==
    \E begin \in First(Opens(result, start)) : \E end \in First(Closes(result, begin)) :
        /\ ~done
        /\ result' = Replaced(begin, end)
        /\ start' = begin + Len(Replacement(begin, end))
        /\ UNCHANGED <<env, content, done>>

\* No placeholder is left, or the next one is never closed.
Stop ==
    /\ ~done
    /\ \A begin \in First(Opens(result, start)) : Closes(result, begin) = {}
    /\ done' = TRUE
    /\ UNCHANGED <<env, content, result, start>>

Next == Replace \/ Stop

Spec == Init /\ [][Next]_vars

-----------------------------------------------------------------------------

\* What the placeholders of a text stand for, read once from left to right.
Expansion(text) ==
    LET from[i \in 1 .. Len(text) + 1] ==
            IF i > Len(text) THEN <<>>
            ELSE IF i \in Opens(text, i) /\ Closes(text, i) # {}
            THEN LET end == CHOOSE k \in Closes(text, i) : k \in First(Closes(text, i))
                 IN  Value(SubSeq(text, i + 2, end - 1)) \o from[end + 1]
            ELSE <<text[i]>> \o from[i + 1]
    IN  from[1]

\* The loop, which edits the text under its own index, ends with every placeholder of the
\* file replaced once: no character of the file is skipped, none of a value is read as one.
ResultIsExpansion == done => result = Expansion(content)

\* What is still to be searched is the end of the file: no value has a part in it, even
\* when it has the form of a placeholder, or of half of one.
Unsearched == Len(result) - start + 1

RestIsUntouched ==
    /\ Unsearched \in 0 .. Len(content)
    /\ \A k \in 1 .. Unsearched :
          result[start - 1 + k] = content[Len(content) - Unsearched + k]

\* Every pass brings the search forward by a placeholder at least, whatever the values are,
\* so that the loop ends.
SearchAdvances == [][done' \/ Unsearched' + 3 <= Unsearched]_vars
=============================================================================
