------------------------------ MODULE MCTexts ------------------------------
(* The two foreign texts that the service reads by itself: a behaviour has *)
(* to do either with the configuration file of EnvSubstitution or with an  *)
(* answer of LlmResponse.                                                  *)
EXTENDS EnvSubstitution, LlmResponse, SequencesExt

-----------------------------------------------------------------------------
\* Every short file, and a placeholder with every short text behind it: another one, half
\* of one, or one that is not closed.
MCCharacters == {"dollar", "left", "right", "a"}
MCContents ==
    BoundedSeq(MCCharacters, 5)
      \union {<<"dollar", "left", "a", "right">> \o rest : rest \in BoundedSeq(MCCharacters, 4)}

\* The variable is not set, empty, half a placeholder, the end of one, or one itself.
NothingSet == [name \in {} |-> <<>>]
Values == {<<>>, <<"dollar">>, <<"a", "right">>, <<"dollar", "left", "a", "right">>}
MCEnvironments == {NothingSet} \union {[name \in {<<"a">>} |-> v] : v \in Values}

-----------------------------------------------------------------------------
MCStrings == {Blank, "a", "b", "c"}
Found == {{}, {Blank}, {"a"}}
Paths == {OwnPaths[k] : k \in 1 .. Len(OwnPaths)}
NoOwn == [p \in Paths |-> {}]
NoCounts == <<{}, {}>>

\* At most one string of the answer's own, and one choice that differs from the others.
Own == {[NoOwn EXCEPT ![q] = s] : q \in Paths, s \in Found}
Choice == [text : Found, content : {{}, {Blank}, {"b"}}]
Other == [text |-> {}, content |-> {"c"}]
MCChoices == {{}, {<<>>}} \union {{<<c>>} : c \in Choice} \union {{<<c, Other>>} : c \in Choice}

\* Numbers that fit, that do not, and that would wrap to one that fits.
Numbers == {{}, {3}, {8}, {17}}
Usage == {{}} \union {{[prompt_tokens |-> p, completion_tokens |-> {1}, total_tokens |-> t]} :
                        p \in {{}, {2}}, t \in Numbers}
MCCounts == {NoCounts, <<{9}, {5}>>, <<{}, {21}>>}

\* What is not JSON, a string, and an object.
Empty == [json |-> FALSE, root |-> {}, at |-> NoOwn, choices |-> {}, usage |-> {}, counts |-> NoCounts]
MCBodies ==
    {Empty}
      \union {[Empty EXCEPT !.json = TRUE, !.root = s] : s \in Found \ {{}}}
      \union [json : {TRUE}, root : {{}}, at : Own, choices : MCChoices, usage : Usage, counts : MCCounts]

-----------------------------------------------------------------------------
TextInit ==
    \/ /\ Init
       /\ adapter = "none" /\ body = Empty /\ parsed = {}
    \/ /\ ResponseInit
       /\ env = NothingSet /\ content = <<>> /\ result = <<>> /\ start = 1 /\ done = TRUE

TextNext ==
    \/ (Replace \/ Stop) /\ UNCHANGED responseVars
    \/ parse_response /\ UNCHANGED vars

TextSpec == TextInit /\ [][TextNext]_<<vars, responseVars>>
=============================================================================
