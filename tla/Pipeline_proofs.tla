-------------------------- MODULE Pipeline_proofs --------------------------
(***************************************************************************)
(* Proofs about Pipeline, for scripts of any shape and any chunk size.     *)
(***************************************************************************)
EXTENDS Pipeline, SequenceTheorems, FiniteSetTheorems, TLAPS

\* The cursor points into the script; what it has passed of a storyboard is
\* what later prompts may quote.
Cursor ==
    /\ stage = "fetch" => scene = 1 /\ board = 0 /\ step = 1
    /\ stage = "generate" =>
        /\ scene \in 1 .. Len(script)
        /\ board \in 0 .. script[scene]
        /\ board = 0 => step \in 1 .. 2
        /\ board > 0 => previous = {StoryboardSequence[i] : i \in 1 .. step - 1}

\* Nothing is in the table before the commit, and the commit has something to write.
Store ==
    /\ stage \in {"fetch", "generate"} \union Storing => table = <<>>
    /\ stage \in {"fetch", "generate", "begin"} => written = 0
    /\ stage \in Storing => prompts # <<>>
    /\ stage \in {"publish", "sending", "succeeded"} => table # <<>>
    /\ announced => table # <<>>

Inv == TypeOK /\ Cursor /\ Store

\* The invariant holds before the script is fetched.
LEMMA InitInv == Init => Inv
<1> SUFFICES ASSUME Init PROVE Inv
  OBVIOUS
<1>1. <<>> \in Seq(Rows) /\ Len(<<>>) = 0
  OBVIOUS
<1>2. TypeOK
  <2>1. prompts \in Seq(Rows) /\ written \in 0 .. Len(prompts)
    BY <1>1 DEF Init
  <2>2. stage \in {"fetch"} /\ previous \subseteq {StoryboardSequence[i] : i \in 1 .. 5}
    BY DEF Init
  <2>3. script \in Scripts \union {<<>>} /\ table \in {<<>>, prompts}
    BY DEF Init
  <2>4. scene \in Nat /\ board \in Nat /\ step \in 1 .. 5 /\ failedBoards \in Nat
    BY DEF Init
  <2>5. announced \in BOOLEAN
    BY DEF Init
  <2> QED BY <2>1, <2>2, <2>3, <2>4, <2>5 DEF TypeOK
<1>3. Cursor /\ Store
  BY DEF Init, Cursor, Store, Storing
<1> QED BY <1>2, <1>3 DEF Inv

\* Wherever the cursor goes next is in the script.
LEMMA NextBoardStep ==
    ASSUME Inv, stage = "generate", NextBoard
    PROVE  /\ stage' \in {"generate", "begin"} /\ script' = script
           /\ scene' \in Nat /\ board' \in Nat /\ step' = 1 /\ previous' = {}
           /\ Cursor'
<1>1. script \in Seq(Nat)
  <2>1. CASE script = <<>>
    <3>1. <<>> \in Seq(Nat)
      OBVIOUS
    <3> QED BY <2>1, <3>1
  <2>2. CASE script \in Scripts
    BY <2>2, PipelineScope
  <2> QED BY <2>1, <2>2 DEF Inv, TypeOK
<1> QED BY <1>1 DEF Inv, TypeOK, Cursor, NextBoard

\* A generated or failed prompt adds one well-formed row.
LEMMA AppendRow ==
    ASSUME Inv, NEW status \in {"success", "failed"},
           NEW type \in {SceneSequence[i] : i \in 1 .. 2} \union {StoryboardSequence[i] : i \in 1 .. 5},
           prompts' = Append(prompts, Row(type, status))
    PROVE  prompts' \in Seq(Rows) /\ Len(prompts') = Len(prompts) + 1 /\ prompts' # <<>>
<1>1. Row(type, status) \in Rows
  BY DEF Row, Rows, Inv, TypeOK
<1> QED BY <1>1 DEF Inv, TypeOK

\* The steps of the generation.
LEMMA GenerationStep ==
    ASSUME Inv, ScenePrompt \/ BoardPrompt \/ BoardPromptFailed
    PROVE  Inv'
<1> USE DEF Inv
<1>1. /\ stage = "generate" /\ UNCHANGED <<written, table, announced>>
      /\ failedBoards' \in Nat
  BY DEF ScenePrompt, BoardPrompt, BoardPromptFailed, TypeOK
<1>2. prompts' \in Seq(Rows) /\ Len(prompts') = Len(prompts) + 1 /\ prompts' # <<>>
  <2>1. CASE ScenePrompt
    <3>1. step \in 1 .. 2
      BY <2>1 DEF ScenePrompt, Cursor
    <3> QED BY <2>1, <3>1, AppendRow DEF ScenePrompt
  <2>2. CASE BoardPrompt \/ BoardPromptFailed
    <3>1. step \in 1 .. 5
      BY DEF TypeOK
    <3> QED BY <2>2, <3>1, AppendRow DEF BoardPrompt, BoardPromptFailed
  <2> QED BY <2>1, <2>2
<1>3. /\ stage' \in {"generate", "begin"} /\ script' = script
      /\ scene' \in Nat /\ board' \in Nat /\ step' \in 1 .. 5
      /\ previous' \subseteq {StoryboardSequence[i] : i \in 1 .. 5}
      /\ Cursor'
  <2>1. CASE NextBoard
    BY <1>1, <2>1, NextBoardStep
  <2>2. CASE ScenePrompt /\ ~NextBoard
    BY <2>2 DEF ScenePrompt, TypeOK, Cursor
  <2>3. CASE BoardPrompt /\ ~NextBoard
    <3>1. /\ step < 5 /\ step \in 1 .. 5 /\ step' = step + 1 /\ board > 0
          /\ previous' = previous \union {StoryboardSequence[step]}
          /\ UNCHANGED <<stage, script, scene, board>>
      BY <2>3 DEF BoardPrompt, TypeOK
    <3>2. previous' = {StoryboardSequence[i] : i \in 1 .. step' - 1}
      BY <1>1, <3>1 DEF Cursor
    <3> QED BY <1>1, <3>1, <3>2 DEF TypeOK, Cursor
  <2> QED BY <2>1, <2>2, <2>3 DEF BoardPromptFailed
<1>4. TypeOK'
  <2>1. table = <<>>
    BY <1>1 DEF Store
  <2> QED BY <1>1, <1>2, <1>3, <2>1 DEF TypeOK, Storing
<1>5. Store'
  BY <1>1, <1>2, <1>3 DEF Store, Storing
<1> QED BY <1>3, <1>4, <1>5

\* Committing all the rows puts them into the table.
LEMMA WholeSequence ==
    ASSUME Inv, written = Len(prompts)
    PROVE SubSeq(prompts, 1, written) = prompts
  BY DEF Inv, TypeOK

\* Every step preserves the invariant.
LEMMA StepInv == ASSUME Inv, [Next]_vars PROVE Inv'
<1> USE PipelineScope DEF Inv, Storing, generation
<1>1. CASE Fetch
  <2>1. script' \in Scripts /\ script' # <<>>
    BY <1>1 DEF Fetch
  <2>2. script' \in Seq(Nat) /\ Len(script') \in Nat /\ Len(script') # 0
    BY <2>1
  <2>3. Cursor'
    BY <1>1, <2>2 DEF Fetch, Cursor
  <2> QED BY <1>1, <2>1, <2>3 DEF Fetch, TypeOK, Store, Cursor
<1>2. CASE ScenePrompt \/ BoardPrompt \/ BoardPromptFailed
  BY <1>2, GenerationStep
<1>3. CASE FetchFailed \/ ScenePromptFailed \/ StoreFailed \/ PublishRefused \/ Published
  BY <1>3 DEF FetchFailed, ScenePromptFailed, StoreFailed, PublishRefused, Published,
              TypeOK, Cursor, Store
<1>4. CASE Begin
  BY <1>4 DEF Begin, TypeOK, Cursor, Store
<1>5. CASE InsertChunk
  BY <1>5 DEF InsertChunk, NextChunk, TypeOK, Cursor, Store
<1>6. CASE Commit \/ CommitUnknown
  BY <1>6, WholeSequence DEF Commit, CommitUnknown, TypeOK, Cursor, Store
<1>7. CASE Publish
  BY <1>7 DEF Publish, TypeOK, Cursor, Store
<1>8. CASE UNCHANGED vars
  BY <1>8 DEF vars, TypeOK, Cursor, Store
<1> QED BY <1>1, <1>2, <1>3, <1>4, <1>5, <1>6, <1>7, <1>8 DEF Next

LEMMA Invariance == Spec => []Inv
<1>1. Init => Inv
  BY InitInv
<1>2. Inv /\ [Next]_vars => Inv'
  BY StepInv
<1> QED BY <1>1, <1>2, PTL DEF Spec

\* The variables of a run keep their types.
THEOREM TypeCorrect == Spec => []TypeOK
<1>1. Inv => TypeOK
  BY DEF Inv
<1> QED BY <1>1, Invariance, PTL

\* get_previous finds every prompt that build_system_prompt quotes.
THEOREM QuotesAreAvailable == Spec => []QuotesAvailable
<1>1. Inv => QuotesAvailable
  <2> SUFFICES ASSUME Inv, stage = "generate", board > 0
               PROVE  Quotes(StoryboardSequence[step]) \subseteq previous
    BY DEF QuotesAvailable
  <2>1. previous = {StoryboardSequence[i] : i \in 1 .. step - 1} /\ step \in 1 .. 5
    BY DEF Inv, Cursor, TypeOK
  <2>2. CASE step = 1
    BY <2>2 DEF Quotes, StoryboardSequence
  <2>3. CASE step = 2
    BY <2>1, <2>3 DEF Quotes, StoryboardSequence
  <2>4. CASE step = 3
    BY <2>1, <2>4 DEF Quotes, StoryboardSequence
  <2>5. CASE step \in 4 .. 5
    BY <2>5 DEF Quotes, StoryboardSequence
  <2> QED BY <2>1, <2>2, <2>3, <2>4, <2>5
<1> QED BY <1>1, Invariance, PTL

\* The initial states of a run are those of an attempt.
LEMMA AttemptInit == Init => Attempt!Init
  BY DEF Init, Attempt!Init, Storing

\* Every step of a run is one of an attempt or leaves it alone: the commit is its
\* Insert, and nothing before the commit shows.
LEMMA AttemptStep == Inv /\ [Next]_vars => [Attempt!Next]_Attempt!attempt
<1> SUFFICES ASSUME Inv, [Next]_vars PROVE [Attempt!Next]_Attempt!attempt
  OBVIOUS
<1> USE DEF Attempt!attempt, Storing
<1>1. CASE Fetch \/ InsertChunk \/ Begin
  BY <1>1 DEF Fetch, InsertChunk, Begin
<1>2. CASE ScenePrompt \/ BoardPrompt \/ BoardPromptFailed
  <2>1. stage = "generate" /\ stage' \in {"generate", "begin"} /\ UNCHANGED <<table, announced>>
    BY <1>2 DEF ScenePrompt, BoardPrompt, BoardPromptFailed, NextBoard
  <2> QED BY <2>1 DEF Attempt!Next, Attempt!Prepare
<1>3. CASE FetchFailed \/ ScenePromptFailed
  BY <1>3 DEF FetchFailed, ScenePromptFailed, Attempt!Next, Attempt!Prepare
<1>4. CASE Commit \/ CommitUnknown
  <2>1. table = <<>> /\ table' = prompts /\ prompts # <<>>
    BY <1>4, WholeSequence DEF Commit, CommitUnknown, Inv, Store
  <2> QED BY <1>4, <2>1 DEF Commit, CommitUnknown, Attempt!Next, Attempt!Insert, Attempt!InsertFailed
<1>5. CASE StoreFailed
  BY <1>5 DEF StoreFailed, Attempt!Next, Attempt!InsertFailed
<1>6. CASE Publish \/ PublishRefused \/ Published
  BY <1>6 DEF Publish, PublishRefused, Published, Attempt!Next, Attempt!Publish, Attempt!Published
<1>7. CASE UNCHANGED vars
  BY <1>7 DEF vars
<1> QED BY <1>1, <1>2, <1>3, <1>4, <1>5, <1>6, <1>7 DEF Next

\* A run implements the attempt that TaskDelivery takes it for.
THEOREM RunsAreAttempts == Spec => RunIsAttempt
<1>1. Init => Attempt!Init
  BY AttemptInit
<1>2. Inv /\ [Next]_vars => [Attempt!Next]_Attempt!attempt
  BY AttemptStep
<1> QED BY <1>1, <1>2, Invariance, PTL DEF Spec, RunIsAttempt, Attempt!Spec

-----------------------------------------------------------------------------
(* What the rows are.                                                      *)

SequenceOf(b) == IF b = 0 THEN SceneSequence ELSE StoryboardSequence

WithinCursor(rows) ==
    \A k \in 1 .. Len(rows) :
        rows[k].scene < scene \/ (rows[k].scene = scene /\ rows[k].board <= board)

PassedComplete(rows) ==
    \A i \in 1 .. Len(script) : \A b \in 0 .. script[i] :
        i < scene \/ (i = scene /\ b < board) => GroupComplete(rows, i, b)

\* While prompts are generated: the rows of the group in work are a block at the end, no
\* row is ahead of the cursor, and the groups behind it are complete.
Generating ==
    /\ step - 1 <= Len(prompts)
    /\ Block(prompts, scene, board, SequenceOf(board), Len(prompts) - (step - 1), step - 1, "success")
    /\ WithinCursor(prompts)
    /\ InOrder(prompts)
    /\ PassedComplete(prompts)

RowsInv ==
    /\ stage = "fetch" => prompts = <<>>
    /\ stage = "generate" => Generating
    /\ stage \in Storing \union {"publish", "sending", "succeeded"} => Complete(prompts)
    /\ table # <<>> => Complete(prompts)

\* Appending to a sequence.
Extends(new, rows, m) ==
    /\ Len(rows) = m /\ Len(new) = m + 1
    /\ \A k \in 1 .. m : new[k] = rows[k]

LEMMA Appended ==
  ASSUME NEW rows \in Seq(Rows), NEW r \in Rows
  PROVE  /\ Len(rows) \in Nat
         /\ Extends(Append(rows, r), rows, Len(rows))
         /\ Append(rows, r)[Len(rows) + 1] = r
  BY AppendProperties, LenProperties DEF Extends

\* A row of another group leaves a block alone.
LEMMA BlockKept ==
  ASSUME NEW rows, NEW new, NEW m \in Nat, Extends(new, rows, m),
         NEW i, NEW b, NEW sequence, NEW from \in Nat, NEW n \in Nat, NEW end,
         Block(rows, i, b, sequence, from, n, end),
         ~(new[m + 1].scene = i /\ new[m + 1].board = b)
  PROVE  Block(new, i, b, sequence, from, n, end)
<1>1. from + n <= m
  BY DEF Block, Extends
<1>2. ASSUME NEW k \in 1 .. m + 1
      PROVE  new[k].scene = i /\ new[k].board = b <=> k \in from + 1 .. from + n
  <2>1. CASE k \in 1 .. m
    BY <2>1 DEF Block, Extends
  <2>2. CASE k = m + 1
    BY <2>2, <1>1
  <2> QED
    BY <2>1, <2>2
<1>3. ASSUME NEW k \in 1 .. n
      PROVE  /\ new[from + k].type = sequence[k]
             /\ new[from + k].status = IF k = n THEN end ELSE "success"
  <2>1. from + k \in 1 .. m
    BY <1>1
  <2> QED
    BY <2>1 DEF Block, Extends
<1> QED
  BY <1>1, <1>2, <1>3 DEF Block, Extends

\* A row of the same group makes a block at the end longer.
LEMMA BlockGrows ==
  ASSUME NEW rows, NEW new, NEW m \in Nat, Extends(new, rows, m),
         NEW i, NEW b, NEW sequence, NEW from \in Nat, NEW n \in Nat, NEW end,
         Block(rows, i, b, sequence, from, n, "success"), from + n = m,
         new[m + 1].scene = i, new[m + 1].board = b,
         new[m + 1].type = sequence[n + 1], new[m + 1].status = end
  PROVE  Block(new, i, b, sequence, from, n + 1, end)
<1>1. ASSUME NEW k \in 1 .. m + 1
      PROVE  new[k].scene = i /\ new[k].board = b <=> k \in from + 1 .. from + (n + 1)
  <2>1. CASE k \in 1 .. m
    BY <2>1 DEF Block, Extends
  <2>2. CASE k = m + 1
    BY <2>2
  <2> QED
    BY <2>1, <2>2
<1>2. ASSUME NEW k \in 1 .. n + 1
      PROVE  /\ new[from + k].type = sequence[k]
             /\ new[from + k].status = IF k = n + 1 THEN end ELSE "success"
  <2>1. CASE k = n + 1
    BY <2>1
  <2>2. CASE k \in 1 .. n
    <3>1. from + k \in 1 .. m
      BY <2>2
    <3>2. rows[from + k].status = "success" /\ rows[from + k].type = sequence[k]
      BY <2>2 DEF Block
    <3> QED
      BY <2>2, <3>1, <3>2 DEF Extends
  <2> QED
    BY <2>1, <2>2
<1> QED
  BY <1>1, <1>2 DEF Block, Extends

LEMMA GroupKept ==
  ASSUME NEW rows, NEW new, NEW m \in Nat, Extends(new, rows, m),
         NEW i, NEW b, GroupComplete(rows, i, b),
         ~(new[m + 1].scene = i /\ new[m + 1].board = b)
  PROVE  GroupComplete(new, i, b)
<1>1. 0 .. m \subseteq 0 .. m + 1 /\ 0 .. m \subseteq Nat /\ 1 .. 5 \subseteq Nat /\ 2 \in Nat
  OBVIOUS
<1>2. CASE b = 0
  <2>1. PICK from \in 0 .. m : Block(rows, i, 0, SceneSequence, from, 2, "success")
    BY <1>2 DEF GroupComplete, SceneComplete, Extends
  <2>2. Block(new, i, 0, SceneSequence, from, 2, "success")
    BY <1>1, <1>2, <2>1, BlockKept
  <2> QED
    BY <1>1, <1>2, <2>2 DEF GroupComplete, SceneComplete, Extends
<1>3. CASE b # 0
  <2>1. PICK from \in 0 .. m, n \in 1 .. 5, end \in {"success", "failed"} :
          /\ n = 5 \/ end = "failed"
          /\ Block(rows, i, b, StoryboardSequence, from, n, end)
    BY <1>3 DEF GroupComplete, BoardComplete, Extends
  <2>2. Block(new, i, b, StoryboardSequence, from, n, end)
    BY <1>1, <2>1, BlockKept
  <2> QED
    BY <1>1, <1>3, <2>1, <2>2 DEF GroupComplete, BoardComplete, Extends
<1> QED
  BY <1>2, <1>3

\* The script, the cursor and the prompt in work, as the generation finds them.
LEMMA InWork ==
  ASSUME Inv, stage = "generate"
  PROVE  /\ script \in Seq(Nat) /\ Len(script) \in Nat
         /\ scene \in 1 .. Len(script) /\ script[scene] \in Nat
         /\ board \in 0 .. script[scene]
         /\ step \in 1 .. 5 /\ (board = 0 => step \in 1 .. 2)
         /\ prompts \in Seq(Rows) /\ Len(prompts) \in Nat
<1>1. script \in Seq(Nat)
  <2>1. <<>> \in Seq(Nat)
    OBVIOUS
  <2> QED
    BY <2>1, PipelineScope DEF Inv, TypeOK
<1>2. Len(script) \in Nat
  BY <1>1, LenProperties
<1>3. scene \in 1 .. Len(script) /\ board \in 0 .. script[scene]
  BY DEF Inv, Cursor
<1>4. script[scene] \in Nat
  BY <1>1, <1>3, ElementOfSeq
<1>5. step \in 1 .. 5 /\ (board = 0 => step \in 1 .. 2)
  BY DEF Inv, Cursor, TypeOK
<1>6. prompts \in Seq(Rows)
  BY DEF Inv, TypeOK
<1>7. Len(prompts) \in Nat
  BY <1>6, LenProperties
<1> QED
  BY <1>1, <1>2, <1>3, <1>4, <1>5, <1>6, <1>7

LEMMA FieldsOfRows ==
  ASSUME NEW rows \in Seq(Rows), NEW k \in 1 .. Len(rows)
  PROVE  /\ rows[k].scene \in Nat /\ rows[k].board \in Nat
         /\ rows[k].status \in {"success", "failed"}
<1>1. rows[k] \in Rows
  BY ElementOfSeq
<1> QED
  BY <1>1 DEF Rows

\* What the next row of the group in work does to the rows.
LEMMA RowAdded ==
  ASSUME Inv, stage = "generate", Generating,
         NEW end \in {"success", "failed"},
         prompts' = Append(prompts, Row(SequenceOf(board)[step], end))
  PROVE  /\ prompts' \in Seq(Rows)
         /\ Extends(prompts', prompts, Len(prompts))
         /\ prompts'[Len(prompts) + 1] = Row(SequenceOf(board)[step], end)
         /\ step - 1 <= Len(prompts)
         /\ Block(prompts', scene, board, SequenceOf(board), Len(prompts) - (step - 1), step, end)
         /\ \A k \in 1 .. Len(prompts') :
              prompts'[k].scene < scene \/ (prompts'[k].scene = scene /\ prompts'[k].board <= board)
         /\ InOrder(prompts')
         /\ \A i \in 1 .. Len(script) : \A b \in 0 .. script[i] :
              i < scene \/ (i = scene /\ b < board) => GroupComplete(prompts', i, b)
<1> DEFINE m == Len(prompts)
           r == Row(SequenceOf(board)[step], end)
           new == prompts'
<1>1. /\ m \in Nat /\ step \in 1 .. 5 /\ prompts \in Seq(Rows)
      /\ scene \in Nat /\ board \in Nat
  BY InWork DEF Inv, TypeOK
<1>2. r \in Rows
  <2>1. SequenceOf(board)[step] \in
          {SceneSequence[i] : i \in 1 .. 2} \union {StoryboardSequence[i] : i \in 1 .. 5}
    BY InWork DEF SequenceOf
  <2> QED
    BY <1>1, <2>1 DEF Row, Rows
<1>3. Extends(new, prompts, m) /\ new[m + 1] = r /\ new \in Seq(Rows)
  BY <1>1, <1>2, Appended, AppendProperties
<1>4. r.scene = scene /\ r.board = board /\ r.type = SequenceOf(board)[step] /\ r.status = end
  BY DEF Row
<1>5. step - 1 <= m
  BY DEF Generating
<1>6. Block(new, scene, board, SequenceOf(board), m - (step - 1), step, end)
  <2>1. m - (step - 1) \in Nat /\ step - 1 \in Nat /\ m - (step - 1) + (step - 1) = m
        /\ (step - 1) + 1 = step
    BY <1>1, <1>5
  <2>2. Block(prompts, scene, board, SequenceOf(board), m - (step - 1), step - 1, "success")
    BY DEF Generating
  <2>3. Block(new, scene, board, SequenceOf(board), m - (step - 1), (step - 1) + 1, end)
    BY <1>1, <1>3, <1>4, <2>1, <2>2, BlockGrows
  <2> QED
    BY <2>1, <2>3
<1>7. \A k \in 1 .. m + 1 :
        new[k].scene < scene \/ (new[k].scene = scene /\ new[k].board <= board)
  <2> SUFFICES ASSUME NEW k \in 1 .. m + 1
               PROVE  new[k].scene < scene \/ (new[k].scene = scene /\ new[k].board <= board)
    OBVIOUS
  <2>1. CASE k \in 1 .. m
    BY <2>1, <1>3 DEF Extends, Generating, WithinCursor
  <2>2. CASE k = m + 1
    BY <2>2, <1>1, <1>3, <1>4
  <2> QED
    BY <1>1, <2>1, <2>2
<1>8. InOrder(new)
  <2> SUFFICES ASSUME NEW k \in 1 .. m
               PROVE  \/ new[k].scene < new[k + 1].scene
                      \/ new[k].scene = new[k + 1].scene /\ new[k].board <= new[k + 1].board
    BY <1>1, <1>3 DEF InOrder, Extends
  <2>1. CASE k \in 1 .. m - 1
    <3>1. k + 1 \in 1 .. m /\ k \in 1 .. m
      BY <2>1, <1>1
    <3>2. new[k] = prompts[k] /\ new[k + 1] = prompts[k + 1]
      BY <1>3, <3>1 DEF Extends
    <3> QED
      BY <2>1, <3>2 DEF Generating, InOrder
  <2>2. CASE k = m
    <3>1. k \in 1 .. m + 1 /\ new[k + 1] = r
      BY <1>1, <1>3, <2>2
    <3> QED
      BY <3>1, <1>4, <1>7
  <2> QED
    BY <1>1, <2>1, <2>2
<1>9. ASSUME NEW i \in 1 .. Len(script), NEW b \in 0 .. script[i], i < scene \/ (i = scene /\ b < board)
      PROVE  GroupComplete(new, i, b)
  <2>1. GroupComplete(prompts, i, b)
    BY <1>9 DEF Generating, PassedComplete
  <2>2. ~(new[m + 1].scene = i /\ new[m + 1].board = b)
    <3>1. i \in Nat
      BY InWork
    <3>2. b \in Nat
      <4>1. script[i] \in Nat
        BY InWork, ElementOfSeq
      <4> QED
        BY <4>1
    <3> QED
      BY <1>1, <1>3, <1>4, <1>9, <3>1, <3>2
  <2>3. m \in Nat /\ Extends(new, prompts, m)
    BY <1>1, <1>3
  <2> HIDE DEF m, new
  <2> QED
    BY <2>1, <2>2, <2>3, GroupKept
<1> QED
  BY <1>3, <1>5, <1>6, <1>7, <1>8, <1>9 DEF Extends

\* With its group complete, the generation moves on to the next one, or is done.
LEMMA MovedOn ==
  ASSUME Inv, stage = "generate", NextBoard,
         prompts' \in Seq(Rows),
         \A k \in 1 .. Len(prompts') :
            prompts'[k].scene < scene \/ (prompts'[k].scene = scene /\ prompts'[k].board <= board),
         InOrder(prompts'),
         \A i \in 1 .. Len(script) : \A b \in 0 .. script[i] :
            i < scene \/ (i = scene /\ b < board) => GroupComplete(prompts', i, b),
         GroupComplete(prompts', scene, board)
  PROVE  /\ stage' \in {"generate", "begin"}
         /\ stage' = "generate" => Generating'
         /\ stage' = "begin" => Complete(prompts)'
<1>1. /\ scene \in 1 .. Len(script) /\ board \in 0 .. script[scene]
      /\ script[scene] \in Nat /\ Len(script) \in Nat
      /\ script' = script /\ step' = 1
  BY InWork DEF NextBoard
<1>2. \A i \in 1 .. Len(script) : script[i] \in Nat
  BY InWork, ElementOfSeq
<1>3. Len(prompts') \in Nat
  BY LenProperties
<1>4. \A k \in 1 .. Len(prompts') : prompts'[k].scene \in Nat /\ prompts'[k].board \in Nat
  BY FieldsOfRows
<1>5. ASSUME NEW i \in 1 .. Len(script), NEW b \in 0 .. script[i],
             i < scene \/ (i = scene /\ b <= board)
      PROVE  GroupComplete(prompts', i, b)
  <2>1. script[i] \in Nat
    BY <1>2
  <2>2. b \in Nat /\ board \in Nat /\ i \in Nat /\ scene \in Nat
    BY <1>1, <2>1
  <2>3. CASE i = scene /\ b = board
    BY <2>3
  <2>4. CASE i < scene \/ (i = scene /\ b < board)
    BY <2>4
  <2>5. (i = scene /\ b = board) \/ i < scene \/ (i = scene /\ b < board)
    BY <1>5, <2>2
  <2> QED
    BY <2>3, <2>4, <2>5
\* The new group has no row yet: its block is an empty one at the end.
<1>6. ASSUME \A k \in 1 .. Len(prompts') : ~(prompts'[k].scene = scene' /\ prompts'[k].board = board')
      PROVE  Block(prompts', scene', board', SequenceOf(board'), Len(prompts'), 0, "success")
  <2>1. \A k \in 1 .. Len(prompts') : k \notin Len(prompts') + 1 .. Len(prompts') + 0
    BY <1>3
  <2> QED
    BY <1>3, <1>6, <2>1 DEF Block
<1>7. CASE board < script[scene] /\ board' = board + 1 /\ UNCHANGED <<stage, scene>>
  <2>1. \A k \in 1 .. Len(prompts') :
          /\ ~(prompts'[k].scene = scene' /\ prompts'[k].board = board')
          /\ \/ prompts'[k].scene < scene'
             \/ (prompts'[k].scene = scene' /\ prompts'[k].board <= board')
    BY <1>1, <1>4, <1>7
  <2>2. \A i \in 1 .. Len(script) : \A b \in 0 .. script[i] :
          i < scene' \/ (i = scene' /\ b < board') => GroupComplete(prompts', i, b)
    BY <1>1, <1>2, <1>5, <1>7
  <2>3. step' - 1 <= Len(prompts') /\ step' - 1 = 0 /\ Len(prompts') - (step' - 1) = Len(prompts')
    BY <1>1, <1>3
  <2>4. Block(prompts, scene, board, SequenceOf(board), Len(prompts) - (step - 1), step - 1, "success")'
    BY <1>6, <2>1, <2>3
  <2>5. WithinCursor(prompts)'
    BY <2>1 DEF WithinCursor
  <2>6. PassedComplete(prompts)'
    BY <1>1, <2>2 DEF PassedComplete
  <2>7. Generating'
    BY <2>3, <2>4, <2>5, <2>6 DEF Generating
  <2> QED
    BY <1>7, <2>7
<1>8. CASE /\ board = script[scene] /\ scene < Len(script)
           /\ scene' = scene + 1 /\ board' = 0 /\ UNCHANGED stage
  <2>1. \A k \in 1 .. Len(prompts') :
          /\ ~(prompts'[k].scene = scene' /\ prompts'[k].board = board')
          /\ prompts'[k].scene < scene'
    BY <1>1, <1>4, <1>8
  <2>2. \A i \in 1 .. Len(script) : \A b \in 0 .. script[i] :
          i < scene' \/ (i = scene' /\ b < board') => GroupComplete(prompts', i, b)
    BY <1>1, <1>2, <1>5, <1>8
  <2>3. step' - 1 <= Len(prompts') /\ step' - 1 = 0 /\ Len(prompts') - (step' - 1) = Len(prompts')
    BY <1>1, <1>3
  <2>4. Block(prompts, scene, board, SequenceOf(board), Len(prompts) - (step - 1), step - 1, "success")'
    BY <1>6, <2>1, <2>3
  <2>5. WithinCursor(prompts)'
    BY <2>1 DEF WithinCursor
  <2>6. PassedComplete(prompts)'
    BY <1>1, <2>2 DEF PassedComplete
  <2>7. Generating'
    BY <2>3, <2>4, <2>5, <2>6 DEF Generating
  <2> QED
    BY <1>8, <2>7
<1>9. CASE board = script[scene] /\ scene = Len(script) /\ stage' = "begin"
  <2>1. ASSUME NEW i \in 1 .. Len(script), NEW b \in 0 .. script[i]
        PROVE  GroupComplete(prompts', i, b)
    <3>1. script[i] \in Nat
      BY <1>2
    <3>2. i < scene \/ (i = scene /\ b <= board)
      BY <1>1, <1>9, <3>1
    <3> QED
      BY <1>5, <3>2
  <2> QED
    BY <1>1, <1>9, <2>1 DEF Complete
<1> QED
  BY <1>7, <1>8, <1>9 DEF NextBoard

LEMMA GenerationRows ==
  ASSUME Inv, RowsInv, ScenePrompt \/ BoardPrompt \/ BoardPromptFailed
  PROVE  RowsInv'
<1>1. stage = "generate" /\ Generating /\ table = <<>> /\ table' = <<>>
  BY DEF ScenePrompt, BoardPrompt, BoardPromptFailed, RowsInv, Inv, Store
<1>2. PICK end \in {"success", "failed"} :
        /\ prompts' = Append(prompts, Row(SequenceOf(board)[step], end))
        /\ \/ /\ NextBoard
              /\ \/ board = 0 /\ step # 1 /\ end = "success"
                 \/ board # 0 /\ (step >= 5 \/ end = "failed")
           \/ /\ end = "success" /\ step' = step + 1
              /\ UNCHANGED <<stage, script, scene, board>>
  <2>1. step \in 1 .. 5 /\ board \in Nat
    BY DEF Inv, TypeOK
  <2>2. CASE ScenePrompt
    BY <2>1, <2>2 DEF ScenePrompt, SequenceOf
  <2>3. CASE BoardPrompt
    BY <2>1, <2>3 DEF BoardPrompt, SequenceOf
  <2>4. CASE BoardPromptFailed
    BY <2>1, <2>4 DEF BoardPromptFailed, SequenceOf
  <2> QED
    BY <2>2, <2>3, <2>4
<1>3. /\ prompts' \in Seq(Rows)
      /\ Extends(prompts', prompts, Len(prompts))
      /\ step - 1 <= Len(prompts)
      /\ Block(prompts', scene, board, SequenceOf(board), Len(prompts) - (step - 1), step, end)
      /\ \A k \in 1 .. Len(prompts') :
           prompts'[k].scene < scene \/ (prompts'[k].scene = scene /\ prompts'[k].board <= board)
      /\ InOrder(prompts')
      /\ \A i \in 1 .. Len(script) : \A b \in 0 .. script[i] :
           i < scene \/ (i = scene /\ b < board) => GroupComplete(prompts', i, b)
  BY <1>1, <1>2, RowAdded
<1>4. /\ Len(prompts) \in Nat /\ Len(prompts') = Len(prompts) + 1
      /\ step \in 1 .. 5 /\ (board = 0 => step \in 1 .. 2)
  BY <1>1, <1>3, InWork DEF Extends
<1>5. CASE /\ end = "success" /\ step' = step + 1
           /\ UNCHANGED <<stage, script, scene, board>>
  <2>1. Len(prompts') - (step' - 1) = Len(prompts) - (step - 1) /\ step' - 1 = step
        /\ step' - 1 <= Len(prompts')
    BY <1>3, <1>4, <1>5
  <2>2. Generating'
    BY <1>3, <1>5, <2>1 DEF Generating, WithinCursor, PassedComplete
  <2> QED
    BY <1>1, <1>5, <2>2 DEF RowsInv, Storing
<1>6. CASE /\ NextBoard
           /\ \/ board = 0 /\ step # 1 /\ end = "success"
              \/ board # 0 /\ (step >= 5 \/ end = "failed")
  <2>1. Len(prompts) - (step - 1) \in 0 .. Len(prompts')
    BY <1>3, <1>4
  <2>2. GroupComplete(prompts', scene, board)
    <3>1. CASE board = 0
      <4>1. step = 2 /\ end = "success"
        BY <1>4, <1>6, <3>1
      <4> QED
        BY <1>3, <2>1, <3>1, <4>1 DEF GroupComplete, SceneComplete, SequenceOf
    <3>2. CASE board # 0
      <4>1. step = 5 \/ end = "failed"
        BY <1>4, <1>6, <3>2
      <4> QED
        BY <1>3, <1>4, <2>1, <3>2, <4>1 DEF GroupComplete, BoardComplete, SequenceOf
    <3> QED
      BY <3>1, <3>2
  <2>3. /\ stage' \in {"generate", "begin"}
        /\ stage' = "generate" => Generating'
        /\ stage' = "begin" => Complete(prompts)'
    BY <1>1, <1>3, <1>6, <2>2, MovedOn
  <2> QED
    BY <1>1, <2>3 DEF RowsInv, Storing
<1> QED
  BY <1>2, <1>5, <1>6

LEMMA StepRows == ASSUME Inv, RowsInv, [Next]_vars PROVE RowsInv'
<1> USE DEF Storing, generation
<1>1. CASE Fetch
  <2>1. /\ prompts' = <<>> /\ scene' = 1 /\ board' = 0 /\ step' = 1
        /\ stage' = "generate" /\ table' = <<>>
    BY <1>1 DEF Fetch, RowsInv, Inv, Cursor, Store
  <2>2. Len(prompts') = 0
    BY <2>1
  <2>3. script' \in Seq(Nat)
    BY <1>1, PipelineScope DEF Fetch
  <2>4. \A i \in 1 .. Len(script') : \A b \in 0 .. script'[i] : ~(i < 1 \/ (i = 1 /\ b < 0))
    <3>1. \A i \in 1 .. Len(script') : script'[i] \in Nat /\ i >= 1
      BY <2>3, ElementOfSeq, LenProperties
    <3> QED
      BY <3>1
  <2>5. Block(prompts', 1, 0, SceneSequence, 0, 0, "success")
    BY <2>2 DEF Block
  <2>6. Generating'
    BY <2>1, <2>2, <2>4, <2>5 DEF Generating, WithinCursor, InOrder, PassedComplete, SequenceOf
  <2> QED
    BY <2>1, <2>6 DEF RowsInv
<1>2. CASE ScenePrompt \/ BoardPrompt \/ BoardPromptFailed
  BY <1>2, GenerationRows
<1>3. CASE FetchFailed \/ ScenePromptFailed \/ StoreFailed \/ PublishRefused \/ Published
           \/ Begin \/ InsertChunk \/ Publish
  <2>1. /\ UNCHANGED <<prompts, script, table>>
        /\ stage' # "fetch" /\ stage' # "generate"
        /\ stage' \in {"begin", "insert", "publish", "sending", "succeeded"}
             => stage \in {"begin", "insert", "publish", "sending", "succeeded"}
    BY <1>3 DEF FetchFailed, ScenePromptFailed, StoreFailed, PublishRefused, Published,
                Begin, InsertChunk, Publish
  <2>2. Complete(prompts)' <=> Complete(prompts)
    BY <2>1 DEF Complete
  <2> QED
    BY <2>1, <2>2 DEF RowsInv
<1>4. CASE Commit \/ CommitUnknown
  <2>1. /\ UNCHANGED <<prompts, script>> /\ stage = "insert"
        /\ stage' \in {"publish", "failed"}
    BY <1>4 DEF Commit, CommitUnknown
  <2>2. Complete(prompts)'
    BY <2>1 DEF RowsInv, Complete
  <2> QED
    BY <2>1, <2>2 DEF RowsInv
<1>5. CASE UNCHANGED vars
  BY <1>5 DEF vars, RowsInv, Generating, WithinCursor, PassedComplete, Complete
<1> QED
  BY <1>1, <1>2, <1>3, <1>4, <1>5 DEF Next

LEMMA RowsInvariance == Spec => [](Inv /\ RowsInv)
<1>1. Init => Inv /\ RowsInv
  BY InitInv DEF Init, RowsInv, Storing
<1>2. Inv /\ RowsInv /\ [Next]_vars => (Inv /\ RowsInv)'
  BY StepInv, StepRows
<1> QED
  BY <1>1, <1>2, PTL DEF Spec

\* The table has the rows of a whole script or none, whatever failed on the way.
THEOREM StoredResultsAreComplete == Spec => []StoredIsComplete
<1>1. Inv /\ RowsInv => StoredIsComplete
  BY DEF Inv, TypeOK, RowsInv, StoredIsComplete
<1> QED
  BY <1>1, RowsInvariance, PTL

\* What is announced is in the table, all of it.
THEOREM AnnouncedResultsAreStored == Spec => []AnnouncedIsStored
<1>1. Inv /\ RowsInv => AnnouncedIsStored
  BY DEF Inv, TypeOK, Store, RowsInv, AnnouncedIsStored
<1> QED
  BY <1>1, RowsInvariance, PTL
-----------------------------------------------------------------------------
(* What is counted as failed.                                              *)

\* Every failed row is of a storyboard behind the cursor.
FailedBehind ==
    \A k \in FailedRows(prompts) :
        \/ prompts[k].scene < scene
        \/ prompts[k].scene = scene /\ prompts[k].board < board

FailInv ==
    /\ IsFiniteSet(FailedRows(prompts)) /\ IsFiniteSet(FailedGroups(prompts))
    /\ FailuresCounted
    /\ stage = "fetch" => prompts = <<>>
    /\ stage = "generate" => FailedBehind

\* The failed rows of a sequence that grows by one row.
LEMMA FailedAppended ==
  ASSUME NEW rows \in Seq(Rows), NEW r \in Rows, NEW new, Extends(new, rows, Len(rows)),
         new[Len(rows) + 1] = r
  PROVE  /\ r.status = "success" => /\ FailedRows(new) = FailedRows(rows)
                                    /\ FailedGroups(new) = FailedGroups(rows)
         /\ r.status = "failed" =>
              /\ FailedRows(new) = FailedRows(rows) \union {Len(rows) + 1}
              /\ FailedGroups(new) = FailedGroups(rows) \union {<<r.scene, r.board>>}
         /\ Len(rows) + 1 \notin FailedRows(rows)
         /\ \A k \in FailedRows(rows) : new[k] = rows[k]
<1>1. /\ Len(rows) \in Nat /\ Len(new) = Len(rows) + 1
      /\ \A k \in 1 .. Len(rows) : new[k] = rows[k]
      /\ new[Len(rows) + 1] = r
  BY LenProperties DEF Extends
<1>2. FailedRows(rows) \subseteq 1 .. Len(rows)
  BY DEF FailedRows
<1>3. Len(rows) + 1 \notin FailedRows(rows) /\ \A k \in FailedRows(rows) : new[k] = rows[k]
  BY <1>1, <1>2
<1>4. CASE r.status = "success"
  <2>1. FailedRows(new) = FailedRows(rows)
    BY <1>1, <1>4 DEF FailedRows
  <2> QED
    BY <1>3, <1>4, <2>1 DEF FailedGroups
<1>5. CASE r.status = "failed"
  <2>1. FailedRows(new) = FailedRows(rows) \union {Len(rows) + 1}
    BY <1>1, <1>5 DEF FailedRows
  <2>2. FailedGroups(new) = FailedGroups(rows) \union {<<r.scene, r.board>>}
    BY <1>1, <1>3, <2>1 DEF FailedGroups
  <2> QED
    BY <1>3, <1>5, <2>1, <2>2
<1> QED
  BY <1>3, <1>4, <1>5 DEF Rows

\* The group in work has no failed row yet: its first one ends it.
LEMMA GenerationFails ==
  ASSUME Inv, FailInv, ScenePrompt \/ BoardPrompt \/ BoardPromptFailed
  PROVE  FailInv'
<1>1. /\ stage = "generate" /\ FailedBehind /\ script' = script
      /\ scene \in Nat /\ board \in Nat /\ failedBoards \in Nat
      /\ prompts \in Seq(Rows)
  BY DEF ScenePrompt, BoardPrompt, BoardPromptFailed, NextBoard, FailInv, Inv, TypeOK
<1>2. PICK end \in {"success", "failed"} :
        /\ prompts' = Append(prompts, Row(SequenceOf(board)[step], end))
        /\ failedBoards' = IF end = "failed" THEN failedBoards + 1 ELSE failedBoards
        /\ end = "failed" => NextBoard
        /\ ~NextBoard => UNCHANGED <<scene, board>>
  <2>1. CASE ScenePrompt
    BY <2>1 DEF ScenePrompt, SequenceOf
  <2>2. CASE BoardPrompt
    BY <2>2, <1>1 DEF BoardPrompt, SequenceOf
  <2>3. CASE BoardPromptFailed
    BY <2>3, <1>1 DEF BoardPromptFailed, SequenceOf
  <2> QED
    BY <2>1, <2>2, <2>3
<1> DEFINE r == Row(SequenceOf(board)[step], end)
<1>3. r \in Rows /\ r.scene = scene /\ r.board = board /\ r.status = end
  <2>1. SequenceOf(board)[step] \in
          {SceneSequence[i] : i \in 1 .. 2} \union {StoryboardSequence[i] : i \in 1 .. 5}
    BY <1>1, InWork DEF SequenceOf
  <2> QED
    BY <1>1, <2>1 DEF Row, Rows
<1>4. Extends(prompts', prompts, Len(prompts)) /\ prompts'[Len(prompts) + 1] = r
  BY <1>1, <1>2, <1>3, Appended
<1> HIDE DEF r
<1>5. /\ end = "success" => /\ FailedRows(prompts') = FailedRows(prompts)
                            /\ FailedGroups(prompts') = FailedGroups(prompts)
      /\ end = "failed" =>
           /\ FailedRows(prompts') = FailedRows(prompts) \union {Len(prompts) + 1}
           /\ FailedGroups(prompts') = FailedGroups(prompts) \union {<<scene, board>>}
      /\ Len(prompts) + 1 \notin FailedRows(prompts)
      /\ \A k \in FailedRows(prompts) : prompts'[k] = prompts[k]
  BY <1>1, <1>3, <1>4, FailedAppended
\* The cursor only moves forward, and NextBoard moves it while there is something left.
<1>6. /\ scene' > scene \/ (scene' = scene /\ board' >= board)
      /\ NextBoard /\ stage' = "generate" => scene' > scene \/ (scene' = scene /\ board' > board)
  BY <1>1, <1>2 DEF NextBoard
<1>7. ASSUME NEW k \in FailedRows(prompts)
      PROVE  /\ prompts[k].scene \in Nat /\ prompts[k].board \in Nat
             /\ prompts[k].scene < scene \/ (prompts[k].scene = scene /\ prompts[k].board < board)
  <2>1. k \in 1 .. Len(prompts)
    BY DEF FailedRows
  <2> QED
    BY <1>1, <2>1, FieldsOfRows DEF FailedBehind
<1>8. <<scene, board>> \notin FailedGroups(prompts)
  BY <1>1, <1>7 DEF FailedGroups
<1>9. scene' \in Nat /\ board' \in Nat
  BY GenerationStep DEF Inv, TypeOK
<1>10. stage' = "generate" => FailedBehind'
  <2> SUFFICES ASSUME stage' = "generate", NEW k \in FailedRows(prompts')
               PROVE  \/ prompts'[k].scene < scene'
                      \/ prompts'[k].scene = scene' /\ prompts'[k].board < board'
    BY DEF FailedBehind
  <2>1. CASE k \in FailedRows(prompts)
    BY <1>1, <1>5, <1>6, <1>7, <1>9, <2>1
  <2>2. CASE k \notin FailedRows(prompts)
    <3>1. end = "failed" /\ k = Len(prompts) + 1
      BY <1>5, <2>2
    <3>2. prompts'[k] = r
      BY <1>1, <1>2, <1>3, <3>1, Appended DEF r
    <3> QED
      BY <1>1, <1>2, <1>3, <1>6, <1>9, <3>1, <3>2
  <2> QED
    BY <2>1, <2>2
<1>11. stage' # "fetch"
  BY <1>1, ScenePrompt \/ BoardPrompt \/ BoardPromptFailed
     DEF ScenePrompt, BoardPrompt, BoardPromptFailed, NextBoard
<1>12. CASE end = "success"
  BY <1>1, <1>2, <1>5, <1>10, <1>12, <1>11 DEF FailInv, FailuresCounted
<1>13. CASE end = "failed"
  <2>1. /\ IsFiniteSet(FailedRows(prompts'))
        /\ Cardinality(FailedRows(prompts')) = Cardinality(FailedRows(prompts)) + 1
    BY <1>5, <1>13, FS_AddElement DEF FailInv
  <2>2. /\ IsFiniteSet(FailedGroups(prompts'))
        /\ Cardinality(FailedGroups(prompts')) = Cardinality(FailedGroups(prompts)) + 1
    BY <1>5, <1>8, <1>13, FS_AddElement DEF FailInv
  <2> QED
    BY <1>1, <1>2, <1>10, <1>13, <1>11, <2>1, <2>2 DEF FailInv, FailuresCounted
<1> QED
  BY <1>12, <1>13

LEMMA StepFails == ASSUME Inv, FailInv, [Next]_vars PROVE FailInv'
<1>1. CASE Fetch
  <2>1. prompts' = prompts /\ failedBoards' = failedBoards /\ stage' # "fetch"
    BY <1>1 DEF Fetch
  <2>2. FailedRows(prompts) = {}
    BY <1>1 DEF Fetch, FailInv, FailedRows
  <2> QED
    BY <2>1, <2>2 DEF FailInv, FailuresCounted, FailedBehind
<1>2. CASE ScenePrompt \/ BoardPrompt \/ BoardPromptFailed
  BY <1>2, GenerationFails
<1>3. CASE FetchFailed \/ ScenePromptFailed \/ StoreFailed \/ PublishRefused \/ Published
           \/ Begin \/ InsertChunk \/ Publish \/ Commit \/ CommitUnknown
  <2>1. UNCHANGED <<prompts, failedBoards>> /\ stage' # "generate" /\ stage' # "fetch"
    BY <1>3 DEF FetchFailed, ScenePromptFailed, StoreFailed, PublishRefused, Published,
                Begin, InsertChunk, Publish, Commit, CommitUnknown, generation
  <2> QED
    BY <2>1 DEF FailInv, FailuresCounted
<1>4. CASE UNCHANGED vars
  BY <1>4 DEF vars, generation, FailInv, FailuresCounted, FailedBehind
<1> QED
  BY <1>1, <1>2, <1>3, <1>4 DEF Next

\* The failed storyboards that are reported are those that have a failed row, each with one.
THEOREM FailuresAreCounted == Spec => []FailuresCounted
<1>1. Init => FailInv
  <2> SUFFICES ASSUME Init PROVE FailInv
    OBVIOUS
  <2>1. FailedRows(prompts) = {} /\ FailedGroups(prompts) = {}
    BY DEF Init, FailedRows, FailedGroups
  <2> QED
    BY <2>1, FS_EmptySet DEF Init, FailInv, FailuresCounted
<1>2. Inv /\ FailInv /\ [Next]_vars => FailInv'
  BY StepFails
<1>3. FailInv => FailuresCounted
  BY DEF FailInv
<1> QED
  BY <1>1, <1>2, <1>3, Invariance, PTL DEF Spec

-----------------------------------------------------------------------------
\* What RunEnds rests on, without fairness: every step goes forward, in a range that ends.

StageNumber ==
    CASE stage = "fetch" -> 1
      [] stage = "generate" -> 2
      [] stage = "begin" -> 3
      [] stage = "insert" -> 4
      [] stage = "publish" -> 5
      [] stage = "sending" -> 6
      [] OTHER -> 7

\* To a later stage; within the generation, to a later prompt of the script; within the
\* transaction, to a later chunk of the rows.
Forward ==
    \/ StageNumber < StageNumber'
    \/ /\ stage = "generate" /\ stage' = "generate" /\ script' = script
       /\ \/ scene < scene'
          \/ scene = scene' /\ board < board'
          \/ scene = scene' /\ board = board' /\ step < step'
    \/ stage = "insert" /\ stage' = "insert" /\ prompts' = prompts /\ written < written'

\* Where the stages that have several steps end.
InRange ==
    /\ stage = "generate" =>
          scene \in 1 .. Len(script) /\ board \in 0 .. script[scene] /\ step \in 1 .. 5
    /\ stage = "insert" => written \in 0 .. Len(prompts)

LEMMA StepsForward == ASSUME Inv, Next PROVE Forward
<1>1. /\ scene \in Nat /\ board \in Nat /\ step \in 1 .. 5
      /\ written \in 0 .. Len(prompts) /\ Len(prompts) \in Nat
  BY DEF Inv, TypeOK
<1>2. CASE FetchFailed \/ Fetch \/ ScenePromptFailed \/ Begin \/ Commit \/ CommitUnknown
  BY <1>2 DEF FetchFailed, Fetch, ScenePromptFailed, Begin, Commit, CommitUnknown,
              Forward, StageNumber
<1>3. CASE StoreFailed \/ Publish \/ PublishRefused \/ Published
  BY <1>3 DEF StoreFailed, Publish, PublishRefused, Published, Storing, Forward, StageNumber
<1>4. CASE InsertChunk
  <2>1. written < written'
    BY <1>1, <1>4, PipelineScope DEF InsertChunk, NextChunk
  <2> QED BY <1>4, <2>1 DEF InsertChunk, generation, Forward
<1>5. ASSUME stage = "generate", NextBoard PROVE Forward
  <2>1. script' = script
    BY <1>5 DEF NextBoard
  <2>2. CASE board' = board + 1 /\ UNCHANGED <<stage, scene>>
    BY <1>1, <1>5, <2>1, <2>2 DEF Forward
  <2>3. CASE scene' = scene + 1 /\ UNCHANGED stage
    BY <1>1, <1>5, <2>1, <2>3 DEF Forward
  <2>4. CASE stage' = "begin"
    BY <1>5, <2>4 DEF Forward, StageNumber
  <2> QED BY <1>5, <2>2, <2>3, <2>4 DEF NextBoard
<1>6. CASE ScenePrompt
  <2>1. CASE step = 1
    BY <1>6, <2>1 DEF ScenePrompt, Forward
  <2>2. CASE step # 1
    BY <1>5, <1>6, <2>2 DEF ScenePrompt
  <2> QED BY <2>1, <2>2
<1>7. CASE BoardPrompt
  <2>1. CASE step < 5
    BY <1>1, <1>7, <2>1 DEF BoardPrompt, Forward
  <2>2. CASE ~(step < 5)
    BY <1>5, <1>7, <2>2 DEF BoardPrompt
  <2> QED BY <2>1, <2>2
<1>8. CASE BoardPromptFailed
  BY <1>5, <1>8 DEF BoardPromptFailed
<1> QED BY <1>2, <1>3, <1>4, <1>6, <1>7, <1>8 DEF Next

\* No run goes round in circles: it takes no prompt and no chunk twice, and returns to no
\* stage, so that it is over after a number of steps that the script bounds.
THEOREM RunsGoForward == Spec => []InRange /\ [][Forward]_vars
<1>1. Inv => InRange
  BY DEF Inv, TypeOK, Cursor, InRange
<1>2. Inv /\ [Next]_vars => [Forward]_vars
  BY StepsForward
<1> QED BY <1>1, <1>2, Invariance, PTL DEF Spec
=============================================================================
