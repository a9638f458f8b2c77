---------------------------- MODULE NoteEditorAI ----------------------------
(***************************************************************************)
(* Writing suggestions in the note editor: NoteEditorAIController with the *)
(* buttons and the undo of NoteEditorView.                                 *)
(*                                                                         *)
(* A request is one press of an action; it is written by one run, and by   *)
(* one more for every Resume.  A run is a main-actor Task; nothing orders  *)
(* the turns of different runs.  The engine (ChatGeneration) appears only  *)
(* as streams that give tokens and end at any time, so that the stop sent  *)
(* to it has no effect of its own.  A text is the set of changes in it, a  *)
(* draft the sequence of the runs its tokens come from.  What the model    *)
(* answers to a request that fails is an empty draft: no view shows        *)
(* errorMessage.                                                           *)
(***************************************************************************)
EXTENDS Naturals, Sequences

CONSTANTS MaxRuns,    \* bound: generations
          MaxTokens,  \* bound: tokens of a generation
          MaxTyped,   \* bound: changes typed
          MaxUndos,   \* bound: undo and redo steps
          NoRun       \* Swift nil

Runs     == 1..MaxRuns
Typed    == {"typed"} \X (1..MaxTyped)
Drafts   == {"draft"} \X Runs
Contents == SUBSET (Typed \cup Drafts)

ASSUME EditorBounds == /\ MaxRuns \in Nat \ {0} /\ MaxTokens \in Nat \ {0}
                       /\ MaxTyped \in Nat /\ MaxUndos \in Nat
ASSUME NoRunAssumption == NoRun \notin Runs

VARIABLES
  noteContent,      \* note.content
  undoStack, redoStack,
  request,          \* activeAction: the first run of the pending request
  base,             \* snapshot.baseText, {} without a snapshot
  previewText,
  isGenerating, generationTask,
  phase,            \* where each run's Task is
  requestOf,        \* the request each run was started for
  prefix,           \* basePreview of each run
  out,              \* tokens each run has taken
  cancelled,        \* runs whose Task was cancelled
  typedCount, undos,  \* counters of the bounds
  orphans,          \* history: runs another run's defer took the handle of
  reverted          \* history: whether an undo or redo came under the draft

note    == <<noteContent, undoStack, redoStack, typedCount, undos>>
draft   == <<request, base, previewText, reverted>>
handle  == <<isGenerating, generationTask>>
locals  == <<requestOf, prefix>>
editorVars == <<note, draft, handle, phase, locals, out, cancelled, orphans>>

AliveRuns == {r \in Runs : phase[r] \in {"opening", "stream"}}
Writers   == AliveRuns \ cancelled

EditorTypeOK ==
  /\ noteContent \in Contents /\ undoStack \in Seq(Contents) /\ redoStack \in Seq(Contents)
  /\ request \in Runs \cup {NoRun}
  /\ base \in Contents
  /\ previewText \in Seq(Runs)
  /\ isGenerating \in BOOLEAN /\ generationTask \in Runs \cup {NoRun}
  /\ phase \in [Runs -> {"unused", "opening", "stream", "done"}]
  /\ requestOf \in [Runs -> Runs \cup {NoRun}]
  /\ prefix \in [Runs -> Seq(Runs)]
  /\ out \in [Runs -> 0..MaxTokens]
  /\ cancelled \in SUBSET Runs /\ orphans \in SUBSET Runs
  /\ typedCount \in 0..MaxTyped /\ undos \in 0..MaxUndos
  /\ reverted \in BOOLEAN

hasPendingPreview == request # NoRun
canAcceptPreview  == previewText # <<>>

-----------------------------------------------------------------------------
(* The run's Task. *)

\* runGeneration: it cancels the Task it has a handle of.
RunGeneration(r, req, text) ==
  /\ phase[r] = "unused" /\ \A q \in Runs : q < r => phase[q] # "unused"
  /\ cancelled' = cancelled \cup ({generationTask} \cap AliveRuns)
  /\ isGenerating' = TRUE
  /\ generationTask' = r
  /\ previewText' = text
  /\ phase' = [phase EXCEPT ![r] = "opening"]
  /\ requestOf' = [requestOf EXCEPT ![r] = req]
  /\ prefix' = [prefix EXCEPT ![r] = text]

\* applyTemplate and completion have answered; neither looks at the cancellation.
Open(r) ==
  /\ phase[r] = "opening"
  /\ phase' = [phase EXCEPT ![r] = "stream"]
  /\ UNCHANGED <<note, draft, handle, locals, out, cancelled, orphans>>

\* Mistake to catch: the loop does not look at Task.isCancelled.
TakeTokenAnyway(r) ==
  /\ phase[r] = "stream" /\ out[r] < MaxTokens
  /\ out' = [out EXCEPT ![r] = @ + 1]
  /\ previewText' = prefix[r] \o [n \in 1..out'[r] |-> r]
  /\ UNCHANGED <<note, request, base, reverted, handle, phase, locals, cancelled, orphans>>

\* The preview is what the run found there followed by its own output.
TakeToken(r) ==
  /\ phase[r] = "stream" /\ r \notin cancelled
  /\ out[r] < MaxTokens
  /\ out' = [out EXCEPT ![r] = @ + 1]
  /\ previewText' = prefix[r] \o [n \in 1..out'[r] |-> r]
  /\ UNCHANGED <<note, request, base, reverted, handle, phase, locals, cancelled, orphans>>

\* Mistake to catch: only a stream that ends by itself is reported.
EndRunSilently(r) ==
  /\ phase[r] = "stream"
  /\ phase' = [phase EXCEPT ![r] = "done"]
  /\ generationTask' = NoRun
  /\ orphans' = orphans \cup ({generationTask} \cap (Writers \ {r}))
  /\ UNCHANGED <<note, draft, isGenerating, locals, out, cancelled>>

\* The stream is over or failed, or the Task is cancelled.  The defer clears the
\* handle whosever it is by now.
EndRun(r) ==
  /\ phase[r] = "stream"
  /\ phase' = [phase EXCEPT ![r] = "done"]
  /\ isGenerating' = FALSE
  /\ generationTask' = NoRun
  /\ orphans' = orphans \cup ({generationTask} \cap (Writers \ {r}))
  /\ UNCHANGED <<note, draft, locals, out, cancelled>>

RunStep(r) == Open(r) \/ TakeToken(r) \/ EndRun(r)

-----------------------------------------------------------------------------
(* The buttons. *)

\* start; whether a model is loaded or the chat is generating is left open.
Start ==
  /\ ~hasPendingPreview
  /\ \E r \in Runs : RunGeneration(r, r, <<>>) /\ request' = r
  /\ base' = noteContent /\ reverted' = FALSE
  /\ UNCHANGED <<note, out, orphans>>

\* resume: the new run continues the draft.
Resume ==
  /\ hasPendingPreview /\ ~isGenerating /\ canAcceptPreview
  /\ \E r \in Runs : RunGeneration(r, request, previewText)
  /\ UNCHANGED <<note, request, base, reverted, out, orphans>>

\* Mistake to catch: the Task is left to run to its end.
StopEffectUncancelled ==
  /\ generationTask' = NoRun
  /\ isGenerating' = FALSE
  /\ UNCHANGED cancelled

\* stop, also for a view that disappears.
StopEffect ==
  /\ cancelled' = cancelled \cup ({generationTask} \cap AliveRuns)
  /\ generationTask' = NoRun
  /\ isGenerating' = FALSE

Stop ==
  /\ isGenerating
  /\ StopEffect
  /\ UNCHANGED <<note, draft, phase, locals, out, orphans>>

\* clearState.
ClearState ==
  /\ StopEffect
  /\ request' = NoRun /\ base' = {} /\ previewText' = <<>> /\ reverted' = FALSE

\* Mistake to catch: the draft is all that is left.
AcceptReplacing ==
  /\ hasPendingPreview /\ canAcceptPreview /\ ~isGenerating
  /\ noteContent' = {<<"draft", request>>}
  /\ undoStack' = <<noteContent>> \o undoStack /\ redoStack' = <<>>
  /\ ClearState
  /\ UNCHANGED <<typedCount, undos, phase, locals, out, orphans>>

\* acceptPreview.
Accept ==
  /\ hasPendingPreview /\ canAcceptPreview /\ ~isGenerating
  /\ noteContent' = base \cup {<<"draft", request>>}
  /\ undoStack' = <<noteContent>> \o undoStack /\ redoStack' = <<>>
  /\ ClearState
  /\ UNCHANGED <<typedCount, undos, phase, locals, out, orphans>>

\* discardPreview: stop, then reject.
Discard ==
  /\ hasPendingPreview
  /\ noteContent' = base
  /\ ClearState
  /\ UNCHANGED <<undoStack, redoStack, typedCount, undos, phase, locals, out, orphans>>

\* Typing; the text view keeps an undo list of its own for it (external).
Type ==
  /\ ~hasPendingPreview
  /\ typedCount < MaxTyped
  /\ typedCount' = typedCount + 1
  /\ noteContent' = noteContent \cup {<<"typed", typedCount'>>}
  /\ UNCHANGED <<undoStack, redoStack, undos, draft, handle, phase, locals, out,
                 cancelled, orphans>>

\* The closure of registerUndo.  A pending draft does not hold it back.
Undo ==
  /\ undos < MaxUndos /\ undos' = undos + 1
  /\ undoStack # <<>>
  /\ noteContent' = Head(undoStack)
  /\ undoStack' = Tail(undoStack)
  /\ redoStack' = <<noteContent>> \o redoStack
  /\ reverted' = hasPendingPreview
  /\ UNCHANGED <<typedCount, request, base, previewText, handle, phase, locals, out,
                 cancelled, orphans>>

\* The inner closure registers no undo of its own.
Redo ==
  /\ undos < MaxUndos /\ undos' = undos + 1
  /\ redoStack # <<>>
  /\ noteContent' = Head(redoStack)
  /\ redoStack' = Tail(redoStack)
  /\ reverted' = hasPendingPreview
  /\ UNCHANGED <<typedCount, undoStack, request, base, previewText, handle, phase, locals,
                 out, cancelled, orphans>>

\* The editor is closed and opened again with a controller of its own; the runs
\* of the old one write into that.
Reopen ==
  /\ request' = NoRun /\ base' = {} /\ previewText' = <<>> /\ reverted' = FALSE
  /\ isGenerating' = FALSE /\ generationTask' = NoRun
  /\ phase' = [r \in Runs |-> IF r \in AliveRuns THEN "done" ELSE phase[r]]
  /\ UNCHANGED <<note, locals, out, cancelled, orphans>>

-----------------------------------------------------------------------------
EditorInit ==
  /\ noteContent = {} /\ undoStack = <<>> /\ redoStack = <<>>
  /\ request = NoRun /\ base = {} /\ previewText = <<>>
  /\ isGenerating = FALSE /\ generationTask = NoRun
  /\ phase = [r \in Runs |-> "unused"]
  /\ requestOf = [r \in Runs |-> NoRun] /\ prefix = [r \in Runs |-> <<>>]
  /\ out = [r \in Runs |-> 0]
  /\ cancelled = {} /\ orphans = {} /\ reverted = FALSE
  /\ typedCount = 0 /\ undos = 0

EditorNext ==
  \/ Start \/ Resume \/ Stop \/ Accept \/ Discard \/ Type \/ Undo \/ Redo \/ Reopen
  \/ \E r \in Runs : RunStep(r)

\* Streams end, and their Tasks go on.
EditorFairness == \A r \in Runs : WF_editorVars(Open(r)) /\ WF_editorVars(EndRun(r))

EditorSpec == EditorInit /\ [][EditorNext]_editorVars /\ EditorFairness

-----------------------------------------------------------------------------
(* Properties *)

\* While Pause is shown, the handle is that of a run that goes on and was not
\* stopped yet: the defer of an older run never leaves Pause without effect.
PauseHasATask == isGenerating => generationTask \in Writers

\* While Resume and Accept are shown, nothing goes on writing into the draft,
\* and never do two runs write: except for runs whose handle the defer of an
\* older run has cleared, which no button can stop any more.
OneWriter == Writers \subseteq {generationTask} \cup orphans

\* The draft the user accepts consists of tokens of his request, whatever was
\* paused, resumed and discarded before; unless such a run wrote into it.
DraftOfThisRequest ==
  LET writers == {previewText[i] : i \in DOMAIN previewText}
  IN writers \cap orphans = {} => \A r \in writers : requestOf[r] = request

\* Accepting and discarding write the note from the snapshot of the request.
\* They overwrite nothing: it is still the note's text, unless the user has
\* undone or redone an earlier suggestion under the draft.
SnapshotIsCurrent == hasPendingPreview /\ ~reverted => base = noteContent

\* The editor keeps the promise of SuggestedEdit: whatever the runs do, accepting adds
\* the draft to the text the user has, and discarding leaves that text alone.
Promise == INSTANCE SuggestedEdit WITH
             Requests <- Runs, None <- NoRun, text <- noteContent, pending <- request,
             disturbed <- reverted

KeepsPromise == Promise!Spec

\* Accept comes within reach again: the controller does not stay busy.
GenerationEnds == isGenerating ~> ~isGenerating
=============================================================================
