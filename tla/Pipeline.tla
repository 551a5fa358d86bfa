------------------------------ MODULE Pipeline ------------------------------
(***************************************************************************)
(* One run of TaskProcessor::process: the script from MongoDB, the prompts *)
(* of task/scene.rs and task/storyboard.rs, the transaction of             *)
(* db/mysql.rs, the completion message.  An LLM call either yields a       *)
(* prompt or an error (LlmClient says when).                               *)
(***************************************************************************)
EXTENDS Naturals, Sequences, FiniteSets

CONSTANTS Scripts,    \* the scripts found: the number of storyboards per scene
          ChunkSize   \* rows per INSERT statement

ASSUME PipelineScope ==
    /\ Scripts \subseteq Seq(Nat)
    /\ ChunkSize \in Nat \ {0}

SceneSequence == <<"video_prompt", "multi_view_prompt">>
StoryboardSequence ==
    <<"text_to_image", "spatial_composition_drawing", "fusion_image",
      "sound_effect", "special_effect">>

\* The earlier prompts of its storyboard that build_system_prompt quotes in a prompt.
Quotes(type) ==
    CASE type = "spatial_composition_drawing" -> {"text_to_image"}
      [] type = "fusion_image" -> {"text_to_image", "spatial_composition_drawing"}
      [] OTHER -> {}

VARIABLES
    stage,        \* where process stands
    script,       \* the script fetched
    scene,        \* the scene in work
    board,        \* the storyboard in work, 0 for the scene's own prompts
    step,         \* the prompt of the sequence in work
    previous,     \* previous_prompts: the types generated for the storyboard
    prompts,      \* all_prompts: the rows to write
    failedBoards, \* total_failed_storyboards
    written,      \* rows of prompts the open transaction has inserted
    table,        \* the rows of this run that tb_media_prompt holds
    announced     \* the completion message was sent

generation == <<script, scene, board, step, previous, prompts, failedBoards>>
vars == <<stage, generation, written, table, announced>>

Storing == {"begin", "insert"}

Row(type, status) ==
    [scene |-> scene, board |-> board, type |-> type, status |-> status]
Rows == [scene : Nat, board : Nat, status : {"success", "failed"},
         type : {SceneSequence[i] : i \in 1 .. 2} \union {StoryboardSequence[i] : i \in 1 .. 5}]

TypeOK ==
    /\ stage \in {"fetch", "generate", "publish", "sending", "succeeded", "failed"}
                    \union Storing
    /\ script \in Scripts \union {<<>>}
    /\ scene \in Nat /\ board \in Nat
    /\ step \in 1 .. 5
    /\ previous \subseteq {StoryboardSequence[i] : i \in 1 .. 5}
    /\ prompts \in Seq(Rows)
    /\ failedBoards \in Nat
    /\ written \in 0 .. Len(prompts)
    /\ table \in {<<>>, prompts}
    /\ announced \in BOOLEAN

Init ==
    /\ stage = "fetch" /\ script = <<>>
    /\ scene = 1 /\ board = 0 /\ step = 1
    /\ previous = {} /\ prompts = <<>> /\ failedBoards = 0
    /\ written = 0 /\ table = <<>>
    /\ announced = FALSE

\* The script is not found, or MongoDB fails, or it has no scenes.
FetchFailed ==
    /\ stage = "fetch"
    /\ stage' = "failed"
    /\ UNCHANGED <<generation, written, table, announced>>

Fetch ==
    /\ stage = "fetch"
    /\ script' \in Scripts \ {<<>>}
    /\ stage' = "generate"
    /\ UNCHANGED <<scene, board, step, previous, prompts, failedBoards, written, table, announced>>

-----------------------------------------------------------------------------
(* Generation.                                                             *)

\* The next storyboard of the scene, or the next scene, or the end of generation.
NextBoard ==
    /\ previous' = {}
    /\ step' = 1
    /\ UNCHANGED script
    /\ \/ /\ board < script[scene]
          /\ board' = board + 1
          /\ UNCHANGED <<stage, scene>>
       \/ /\ board = script[scene] /\ scene < Len(script)
          /\ scene' = scene + 1 /\ board' = 0
          /\ UNCHANGED stage
       \/ /\ board = script[scene] /\ scene = Len(script)
          /\ stage' = "begin"
          /\ UNCHANGED <<scene, board>>

\* process_scene: video_prompt, then multi_view_prompt.
ScenePrompt ==
    /\ stage = "generate" /\ board = 0
    /\ prompts' = Append(prompts, Row(SceneSequence[step], "success"))
    /\ IF step = 1
       THEN step' = 2 /\ UNCHANGED <<stage, script, scene, board, previous>>
       ELSE NextBoard
    /\ UNCHANGED <<failedBoards, written, table, announced>>

\* Its failure is that of the task.
ScenePromptFailed ==
    /\ stage = "generate" /\ board = 0
    /\ stage' = "failed"
    /\ UNCHANGED <<generation, written, table, announced>>

\* Mutant: the prompt is not remembered for the later ones.
BoardPromptForgotten ==
    /\ stage = "generate" /\ board > 0
    /\ prompts' = Append(prompts, Row(StoryboardSequence[step], "success"))
    /\ IF step < 5
       THEN step' = step + 1 /\ UNCHANGED <<stage, script, scene, board, previous>>
       ELSE NextBoard
    /\ UNCHANGED <<failedBoards, written, table, announced>>

\* process_storyboard: the prompts in sequence, each quoting earlier ones.
BoardPrompt ==
    /\ stage = "generate" /\ board > 0
    /\ prompts' = Append(prompts, Row(StoryboardSequence[step], "success"))
    /\ IF step < 5
       THEN /\ step' = step + 1
            /\ previous' = previous \union {StoryboardSequence[step]}
            /\ UNCHANGED <<stage, script, scene, board>>
       ELSE NextBoard
    /\ UNCHANGED <<failedBoards, written, table, announced>>

\* Mutant: the storyboard goes on after a failed prompt.
BoardGoesOn ==
    /\ stage = "generate" /\ board > 0
    /\ prompts' = Append(prompts, Row(StoryboardSequence[step], "failed"))
    /\ failedBoards' = failedBoards + 1
    /\ IF step < 5
       THEN step' = step + 1 /\ UNCHANGED <<stage, script, scene, board, previous>>
       ELSE NextBoard
    /\ UNCHANGED <<written, table, announced>>

\* A failure is recorded and ends the storyboard only.
BoardPromptFailed ==
    /\ stage = "generate" /\ board > 0
    /\ prompts' = Append(prompts, Row(StoryboardSequence[step], "failed"))
    /\ failedBoards' = failedBoards + 1
    /\ NextBoard
    /\ UNCHANGED <<written, table, announced>>

-----------------------------------------------------------------------------
(* batch_insert_prompts.  Whatever fails drops the transaction, which rolls *)
(* it back.                                                                *)

Begin ==
    /\ stage = "begin"
    /\ stage' = "insert"
    /\ UNCHANGED <<generation, written, table, announced>>

\* Mutant: the last chunk is taken to be full.
NextChunkFull == written + ChunkSize

\* Where the next chunk ends; the last one may be shorter.
NextChunk == IF written + ChunkSize < Len(prompts) THEN written + ChunkSize ELSE Len(prompts)

\* Mutant: each chunk is committed by itself.
InsertChunkCommitted ==
    /\ stage = "insert"
    /\ written < Len(prompts)
    /\ written' = NextChunk
    /\ table' = SubSeq(prompts, 1, NextChunk)
    /\ UNCHANGED <<stage, generation, announced>>

InsertChunk ==
    /\ stage = "insert"
    /\ written < Len(prompts)
    /\ written' = NextChunk
    /\ UNCHANGED <<stage, generation, table, announced>>

\* Mutant: only the first chunk is written.
CommitFirstChunk ==
    /\ stage = "insert"
    /\ written > 0
    /\ table' = SubSeq(prompts, 1, written)
    /\ stage' = "publish"
    /\ UNCHANGED <<generation, written, announced>>

Commit ==
    /\ stage = "insert"
    /\ written = Len(prompts)
    /\ table' = SubSeq(prompts, 1, written)
    /\ stage' = "publish"
    /\ UNCHANGED <<generation, written, announced>>

\* Mutant: the task is not failed but the transaction is tried again.
StoreRetried ==
    /\ stage \in Storing
    /\ stage' = "begin" /\ written' = 0
    /\ UNCHANGED <<generation, table, announced>>

StoreFailed ==
    /\ stage \in Storing
    /\ stage' = "failed"
    /\ UNCHANGED <<generation, written, table, announced>>

\* The answer to the commit is lost; the server may have done it.
CommitUnknown ==
    /\ stage = "insert"
    /\ written = Len(prompts)
    /\ stage' = "failed"
    /\ table' = SubSeq(prompts, 1, written)
    /\ UNCHANGED <<generation, written, announced>>

-----------------------------------------------------------------------------
(* publish_completion.                                                     *)

Publish ==
    /\ stage = "publish"
    /\ stage' = "sending"
    /\ announced' = TRUE
    /\ UNCHANGED <<generation, written, table>>

PublishRefused ==
    /\ stage = "publish"
    /\ stage' = "failed"
    /\ UNCHANGED <<generation, written, table, announced>>

Published ==
    /\ stage = "sending"
    /\ stage' \in {"succeeded", "failed"}
    /\ UNCHANGED <<generation, written, table, announced>>

Next ==
    \/ FetchFailed \/ Fetch
    \/ ScenePrompt \/ ScenePromptFailed \/ BoardPrompt \/ BoardPromptFailed
    \/ Begin \/ InsertChunk \/ Commit \/ StoreFailed \/ CommitUnknown
    \/ Publish \/ PublishRefused \/ Published

Spec == Init /\ [][Next]_vars
FairSpec == Spec /\ WF_vars(Next)

-----------------------------------------------------------------------------
(* What a complete result is.                                              *)

\* The rows of a scene (board 0) or of one of its storyboards are n rows in a block, with
\* the prompts of a sequence, all of them generated but possibly the last.
Block(rows, i, b, sequence, from, n, end) ==
    /\ from + n <= Len(rows)
    /\ \A k \in 1 .. Len(rows) :
          rows[k].scene = i /\ rows[k].board = b <=> k \in from + 1 .. from + n
    /\ \A k \in 1 .. n :
          /\ rows[from + k].type = sequence[k]
          /\ rows[from + k].status = IF k = n THEN end ELSE "success"

\* A scene has both of its prompts.  A storyboard has its whole sequence, or is cut short
\* behind a failed prompt.
SceneComplete(rows, i) ==
    \E from \in 0 .. Len(rows) : Block(rows, i, 0, SceneSequence, from, 2, "success")

BoardComplete(rows, i, b) ==
    \E from \in 0 .. Len(rows), n \in 1 .. 5, end \in {"success", "failed"} :
        /\ n = 5 \/ end = "failed"
        /\ Block(rows, i, b, StoryboardSequence, from, n, end)

GroupComplete(rows, i, b) == IF b = 0 THEN SceneComplete(rows, i) ELSE BoardComplete(rows, i, b)

InOrder(rows) ==
    \A k \in 1 .. Len(rows) - 1 :
        \/ rows[k].scene < rows[k + 1].scene
        \/ rows[k].scene = rows[k + 1].scene /\ rows[k].board <= rows[k + 1].board

Complete(rows) ==
    /\ \A i \in 1 .. Len(script) : \A b \in 0 .. script[i] : GroupComplete(rows, i, b)
    /\ InOrder(rows)

\* The table never holds part of a result: whatever fails between the first
\* prompt and the commit, it has the rows of every scene and storyboard or none.
StoredIsComplete == table # <<>> => Complete(table)

\* A task is announced only with its complete result in the table.
AnnouncedIsStored == announced => table # <<>> /\ Complete(table)

\* A prompt that quotes earlier ones is requested only after these were generated
\* for the same storyboard: get_previous never falls back to the empty string.
QuotesAvailable ==
    stage = "generate" /\ board > 0 => Quotes(StoryboardSequence[step]) \subseteq previous

\* The number of failed storyboards that is reported is that of the rows.
FailedRows(rows) == {k \in 1 .. Len(rows) : rows[k].status = "failed"}
FailedGroups(rows) == {<<rows[k].scene, rows[k].board>> : k \in FailedRows(rows)}

FailuresCounted ==
    /\ failedBoards = Cardinality(FailedRows(prompts))
    /\ failedBoards = Cardinality(FailedGroups(prompts))

\* Every run ends.
RunEnds == <>(stage \in {"succeeded", "failed"})

-----------------------------------------------------------------------------
(* A run is an attempt of TaskDelivery.                                    *)

Attempt == INSTANCE TaskAttempt WITH
    phase <- IF stage \in {"fetch", "generate"} THEN "prepare"
             ELSE IF stage \in Storing THEN "insert" ELSE stage,
    stored <- table # <<>>

\* The steps in which TaskDelivery describes a task are those of the pipeline:
\* all of the generation is one Prepare, the transaction is one Insert.
RunIsAttempt == Attempt!Spec
=============================================================================
