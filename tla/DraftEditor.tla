------------------------------ MODULE DraftEditor ------------------------------
(***************************************************************************)
(* web: WorkflowBuilderPage, one editor of a workflow's draft. The server  *)
(* takes whole drafts, and the last one wins. The canvas is saved by the   *)
(* Save, Publish and Run buttons and by the inspector, the name also on    *)
(* its own, by reading the saved draft and sending it back with the new    *)
(* name. A handler works with the canvas of the moment it was called and   *)
(* awaits one answer after the other, while the canvas stays editable.     *)
(*                                                                         *)
(* Contents are numbered in the order of the edits. A request fails before *)
(* or after it took effect; one that takes effect long after its client    *)
(* gave up is left out, and so are other editors, pausing, loading and     *)
(* leaving the page. One connection is made at a time, and a line drawn    *)
(* while it is made, which its save lacks, is left out. A change comes     *)
(* more than two seconds after the last publication, which is what the     *)
(* page takes for an unpublished change.                                   *)
(***************************************************************************)
EXTENDS Naturals

CONSTANTS MaxEdits, MaxTitles, MaxFaults

VARIABLES
    canvas, title,   \* what the page shows
    isSaved, isSavingWorkflow,
    workflow,        \* the page's copy of the workflow: name, and what hasUnpublishedChanges sees
    server,          \* the draft's canvas, the published one, and their ages
    rename,          \* renameRef: a rename in flight, and whether the inspector saved since it read
    save,            \* a save in flight, of the buttons and of the inspector
    run,             \* the last run: the canvas at its click, and the one it executes
    faults

page == <<canvas, title, isSaved, isSavingWorkflow, workflow>>
vars == <<page, server, rename, save, run, faults>>

Savers == {"button", "inspector"}
Never  == 0

NoRename == [pc |-> "none", title |-> 0, canvas |-> 0, crossed |-> FALSE]
NoSave   == [pc |-> "none", for |-> "save", canvas |-> 0, title |-> 0, clean |-> FALSE, clicked |-> 0]
NoRun    == [pc |-> "none", clicked |-> 0, executes |-> 0]

Init ==
    /\ canvas = 1 /\ title = 1
    /\ isSaved = TRUE /\ isSavingWorkflow = FALSE
    /\ \E published \in {Never, 1} :
         /\ server = [canvas |-> 1, title |-> 1, published |-> published, behind |-> FALSE]
         /\ workflow = [name |-> 1, published |-> published # Never, behind |-> FALSE]
    /\ rename = NoRename
    /\ save = [s \in Savers |-> NoSave]
    /\ run = NoRun
    /\ faults = MaxFaults

-----------------------------------------------------------------------------
(* Every change of the canvas, undo and redo among them.                   *)
Edit ==
    /\ canvas <= MaxEdits
    /\ canvas' = canvas + 1
    /\ isSaved' = FALSE
    /\ UNCHANGED <<title, isSavingWorkflow, workflow, server, rename, save, run, faults>>

(* The name in the header, which is disabled while saving.                 *)
TypeTitle ==
    /\ ~isSavingWorkflow
    /\ title <= MaxTitles
    /\ title' = title + 1
    /\ UNCHANGED <<canvas, isSaved, isSavingWorkflow, workflow, server, rename, save, run, faults>>

UnguardedDefect == rename.pc = "none" /\ isSaved

MayRename == ~isSavingWorkflow /\ rename.pc = "none" /\ isSaved

CommitTitle ==
    /\ MayRename
    /\ title # workflow.name
    /\ rename' = [NoRename EXCEPT !.pc = "read", !.title = title]
    /\ UNCHANGED <<page, server, save, run, faults>>

(* renameWorkflow: the saved draft, read past the cache, with a new name.  *)
RenameReads ==
    /\ rename.pc = "read"
    /\ rename' = [rename EXCEPT !.pc = "put", !.canvas = server.canvas]
    /\ UNCHANGED <<page, server, save, run, faults>>

Written(c, n) ==
    server' = [server EXCEPT !.canvas = c, !.title = n, !.behind = server.published # Never]

RenameArrives ==
    /\ rename.pc = "put"
    /\ Written(rename.canvas, rename.title)
    /\ rename' = [rename EXCEPT !.pc = "answered"]
    /\ UNCHANGED <<page, save, run, faults>>

RenameEnds ==
    /\ rename.pc = "answered"
    /\ title' = rename.title
    /\ workflow' = [workflow EXCEPT !.name = rename.title, !.behind = server.behind]
    /\ rename' = NoRename
    /\ UNCHANGED <<canvas, isSaved, isSavingWorkflow, server, save, run, faults>>

RenameFails ==
    /\ rename.pc # "none"
    /\ faults > 0
    /\ faults' = faults - 1
    /\ isSaved' = FALSE
    /\ rename' = NoRename
    /\ UNCHANGED <<canvas, title, isSavingWorkflow, workflow, server, save, run>>

-----------------------------------------------------------------------------
HasUnpublishedChanges == ~isSaved \/ (workflow.published /\ workflow.behind)

Begin(s, purpose) ==
    save' = [save EXCEPT ![s] = [pc |-> "waiting", for |-> purpose, canvas |-> canvas, title |-> title,
                                 clean |-> isSaved, clicked |-> canvas]]

(* handleSaveDraft, handlePublishWorkflow, and handleRunWorkflow when it   *)
(* has to publish first.                                                   *)
Click(purpose) ==
    /\ ~isSavingWorkflow /\ save["button"].pc = "none"
    /\ purpose = "run" => workflow.published /\ HasUnpublishedChanges
    /\ Begin("button", purpose)
    /\ isSavingWorkflow' = TRUE
    /\ UNCHANGED <<canvas, title, isSaved, workflow, server, rename, run, faults>>

RunAtOnce ==
    /\ ~isSavingWorkflow
    /\ workflow.published /\ ~HasUnpublishedChanges
    /\ run' = [pc |-> "sent", clicked |-> canvas, executes |-> Never]
    /\ UNCHANGED <<page, server, rename, save, faults>>

(* The dialog of the inspector is submitted: handleCreate works with the   *)
(* page of this moment. Its X may be clicked at any time and stops         *)
(* nothing, so the page stays in use until the save below has ended.       *)
Connect ==
    /\ save["inspector"].pc = "none"
    /\ save' = [save EXCEPT !["inspector"] = [NoSave EXCEPT !.pc = "creating", !.title = title]]
    /\ UNCHANGED <<page, server, rename, run, faults>>

(* handleInspectorConnectionCreated: the connection is put into the step   *)
(* and the steps of the submission, with it, are shown and saved, with no  *)
(* regard to a save of the buttons. The page is left for Google then, or   *)
(* stays when that fails.                                                  *)
ConnectionCreated ==
    /\ save["inspector"].pc = "creating"
    /\ canvas <= MaxEdits
    /\ canvas' = canvas + 1
    /\ isSaved' = FALSE
    /\ save' = [save EXCEPT !["inspector"].pc = "waiting", !["inspector"].canvas = canvas',
                            !["inspector"].clicked = canvas']
    /\ UNCHANGED <<title, isSavingWorkflow, workflow, server, rename, run, faults>>

(* `await renameRef.current`; a clean draft is published as it is.         *)
RenameOver(s) == rename.pc = "none"

Proceed(s) ==
    /\ save[s].pc = "waiting"
    /\ RenameOver(s)
    /\ save' = [save EXCEPT ![s].pc = IF save[s].for # "save" /\ save[s].clean THEN "publish" ELSE "put"]
    /\ UNCHANGED <<page, server, rename, run, faults>>

SaveArrives(s) ==
    /\ save[s].pc = "put"
    /\ Written(save[s].canvas, save[s].title)
    /\ save' = [save EXCEPT ![s].pc = "saved"]
    /\ rename' = [rename EXCEPT !.crossed = @ \/ (s = "inspector" /\ rename.pc = "put")]
    /\ UNCHANGED <<page, run, faults>>

Ends(s) ==
    /\ save' = [save EXCEPT ![s] = NoSave]
    /\ isSavingWorkflow' = IF s = "button" THEN FALSE ELSE isSavingWorkflow

SaveAnswered(s) ==
    /\ save[s].pc = "saved"
    /\ title' = save[s].title
    /\ isSaved' = TRUE
    /\ workflow' = [workflow EXCEPT !.name = save[s].title, !.behind = server.behind]
    /\ IF save[s].for = "save" THEN Ends(s)
       ELSE save' = [save EXCEPT ![s].pc = "publish"] /\ UNCHANGED isSavingWorkflow
    /\ UNCHANGED <<canvas, server, rename, run, faults>>

PublishArrives(s) ==
    /\ save[s].pc = "publish"
    /\ server' = [server EXCEPT !.published = server.canvas, !.behind = FALSE]
    /\ save' = [save EXCEPT ![s].pc = "published"]
    /\ UNCHANGED <<page, rename, run, faults>>

Published(s) ==
    /\ save[s].pc = "published"
    /\ workflow' = [name |-> server.title, published |-> TRUE, behind |-> server.behind]
    /\ isSaved' = TRUE
    /\ Ends(s)
    /\ run' = IF save[s].for = "run" THEN [pc |-> "sent", clicked |-> save[s].clicked, executes |-> Never] ELSE run
    /\ UNCHANGED <<canvas, title, server, rename, faults>>

SaveFails(s) ==
    /\ save[s].pc # "none"
    /\ faults > 0
    /\ faults' = faults - 1
    /\ Ends(s)
    /\ UNCHANGED <<canvas, title, isSaved, workflow, server, rename, run>>

(* The run executes what is published when the request arrives.            *)
RunArrives ==
    /\ run.pc = "sent"
    /\ run' = [run EXCEPT !.pc = "accepted", !.executes = server.published]
    /\ UNCHANGED <<page, server, rename, save, faults>>

Next ==
    \/ Edit \/ Connect \/ ConnectionCreated
    \/ \E purpose \in {"save", "publish", "run"} : Click(purpose)
    \/ RunAtOnce \/ RunArrives
    \/ \E s \in Savers : \/ Proceed(s) \/ SaveArrives(s) \/ SaveAnswered(s)
                         \/ PublishArrives(s) \/ Published(s) \/ SaveFails(s)
    \/ CommitTitle \/ RenameReads \/ RenameArrives \/ RenameEnds \/ RenameFails
    \/ TypeTitle

Spec == Init /\ [][Next]_vars

-----------------------------------------------------------------------------
(* "A save/publish waits for a rename in flight (renameRef), so the two    *)
(* PUTs can never cross and overwrite the new canvas"                      *)
(* (WorkflowBuilderPage.tsx 819-820): a rename on its way carries the      *)
(* canvas that the server has, whatever is edited, saved, published or     *)
(* connected while it reads and writes.                                    *)
RenameCarriesTheCanvas == rename.pc = "put" => rename.canvas = server.canvas

(* What holds of it: the saves of the buttons never cross a rename, also   *)
(* while the inspector saves beside both; only a save of the inspector     *)
(* that lands between the rename's read and its write is overwritten.      *)
OnlyTheInspectorCrosses == rename.pc = "put" => rename.canvas = server.canvas \/ rename.crossed

(* "A run executes the published version, so unsaved or unpublished draft  *)
(* edits are published first" (WorkflowBuilderPage.tsx 924): a run that    *)
(* was accepted executes the canvas of its click or a later one.           *)
RunExecutesTheEdits == run.pc = "accepted" => run.executes >= run.clicked
=============================================================================
