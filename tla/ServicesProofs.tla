---------------------------- MODULE ServicesProofs ----------------------------
(***************************************************************************)
(* What holds of the services around the workflow engine, for every value  *)
(* of their constants. Each service has an inductive invariant of its own  *)
(* (EditorInv, TurnInv, ...), proved from the service's Init and Next; its *)
(* ...IsKept lemma then says that it holds of Services as long as the      *)
(* behaviour is one of that service.                                       *)
(***************************************************************************)
EXTENDS Services, FiniteSetTheorems, WellFoundedInduction, TLAPS

-----------------------------------------------------------------------------
(* The draft editor. A rename and a save of the buttons are never both     *)
(* between reading and writing: the save waits for the rename, and a       *)
(* rename does not start while such a save is under way. The inspector's   *)
(* save waits too, but a rename may start while it is under way.           *)
Renames == [pc : {"none", "read", "put", "answered"}, title : Nat, canvas : Nat, crossed : BOOLEAN]

Saves == [pc : {"none", "creating", "waiting", "put", "saved", "publish", "published"},
          for : {"save", "publish", "run"}, canvas : Nat, title : Nat, clean : BOOLEAN, clicked : Nat]

Servers == [canvas : Nat, title : Nat, published : Nat, behind : BOOLEAN]

EditorTypes ==
    /\ canvas \in Nat /\ title \in Nat
    /\ isSaved \in BOOLEAN /\ isSavingWorkflow \in BOOLEAN
    /\ server \in Servers
    /\ rename \in Renames
    /\ save \in [Editor!Savers -> Saves]

EditorInv ==
    /\ EditorTypes
    /\ save["button"].pc # "none" => isSavingWorkflow
    /\ save["inspector"].for = "save"
    /\ rename.pc # "none" => save["button"].pc \in {"none", "waiting"}
    /\ Editor!OnlyTheInspectorCrosses

LEMMA EditorInit == Editor!Init => EditorInv
  <1> SUFFICES ASSUME Editor!Init PROVE EditorInv
    OBVIOUS
  <1>1. canvas = 1 /\ title = 1 /\ isSaved = TRUE /\ isSavingWorkflow = FALSE
    BY DEF Editor!Init
  <1>2. rename = Editor!NoRename /\ save = [s \in Editor!Savers |-> Editor!NoSave]
    BY DEF Editor!Init
  <1>3. server \in Servers
    BY DEF Editor!Init, Servers, Editor!Never
  <1>4. rename \in Renames /\ rename.pc = "none"
    BY <1>2 DEF Renames, Editor!NoRename
  <1>5. /\ save \in [Editor!Savers -> Saves]
        /\ \A s \in Editor!Savers : save[s].pc = "none" /\ save[s].for = "save"
    BY <1>2 DEF Saves, Editor!NoSave
  <1>6. canvas \in Nat /\ title \in Nat
    BY <1>1
  <1>7. isSaved \in BOOLEAN /\ isSavingWorkflow \in BOOLEAN
    BY <1>1
  <1>8. EditorTypes
    BY <1>3, <1>4, <1>5, <1>6, <1>7 DEF EditorTypes
  <1> QED
    BY <1>4, <1>5, <1>8 DEF EditorInv, Editor!OnlyTheInspectorCrosses, Editor!Savers

LEMMA EditorTypesStep == EditorTypes /\ Editor!Next => EditorTypes'
  <1> SUFFICES ASSUME EditorTypes, Editor!Next PROVE EditorTypes'
    OBVIOUS
  <1>1. canvas \in Nat /\ title \in Nat /\ server \in Servers /\ rename \in Renames
        /\ save \in [Editor!Savers -> Saves] /\ "inspector" \in Editor!Savers /\ "button" \in Editor!Savers
    BY DEF EditorTypes, Editor!Savers
  <1>2. isSaved \in BOOLEAN /\ isSavingWorkflow \in BOOLEAN
    BY DEF EditorTypes
  <1>a. CASE Editor!Edit
    <2>1. canvas' \in Nat /\ UNCHANGED <<title, server, rename, save>>
      BY <1>1, <1>a DEF Editor!Edit
    <2>2. isSaved' = FALSE /\ isSavingWorkflow' = isSavingWorkflow
      BY <1>a DEF Editor!Edit
    <2> QED
      BY <1>1, <1>2, <2>1, <2>2 DEF EditorTypes
  <1>b. CASE Editor!TypeTitle
    <2>1. title' \in Nat /\ UNCHANGED <<canvas, server, rename, save>>
      BY <1>1, <1>b DEF Editor!TypeTitle
    <2>2. UNCHANGED <<isSaved, isSavingWorkflow>>
      BY <1>b DEF Editor!TypeTitle
    <2> QED
      BY <1>1, <1>2, <2>1, <2>2 DEF EditorTypes
  <1>c. CASE Editor!Connect \/ Editor!ConnectionCreated
    <2>1. UNCHANGED <<title, server, rename, isSavingWorkflow>>
      BY <1>c DEF Editor!Connect, Editor!ConnectionCreated, Editor!page
    <2>2. canvas' \in Nat
      BY <1>1, <1>c DEF Editor!Connect, Editor!ConnectionCreated, Editor!page
    <2>3. isSaved' \in BOOLEAN
      <3>1. isSaved' = isSaved \/ isSaved' = FALSE
        BY <1>c DEF Editor!Connect, Editor!ConnectionCreated, Editor!page
      <3> QED
        BY <1>2, <3>1
    <2>4. save["inspector"] \in Saves
      BY <1>1
    <2>5. save' \in [Editor!Savers -> Saves]
      <3>1. CASE Editor!Connect
        <4> DEFINE new == [Editor!NoSave EXCEPT !.pc = "creating", !.title = title]
        <4>1. save' = [save EXCEPT !["inspector"] = new]
          BY <3>1 DEF Editor!Connect
        <4>2. new \in Saves
          BY <1>1 DEF Saves, Editor!NoSave
        <4> HIDE DEF new
        <4> QED
          BY <1>1, <4>1, <4>2
      <3>2. CASE Editor!ConnectionCreated
        <4> DEFINE new == [save["inspector"] EXCEPT !.pc = "waiting", !.canvas = canvas', !.clicked = canvas']
        <4>1. save' = [save EXCEPT !["inspector"] = new]
          BY <1>1, <3>2 DEF Editor!ConnectionCreated
        <4>2. new \in Saves
          BY <2>2, <2>4 DEF Saves
        <4> HIDE DEF new
        <4> QED
          BY <1>1, <4>1, <4>2
      <3> QED
        BY <1>c, <3>1, <3>2
    <2> QED
      BY <1>1, <1>2, <2>1, <2>2, <2>3, <2>5 DEF EditorTypes
  <1>d. CASE Editor!CommitTitle \/ Editor!RenameReads
    <2>1. UNCHANGED <<canvas, title, server, save, isSaved, isSavingWorkflow>>
      BY <1>d DEF Editor!CommitTitle, Editor!RenameReads, Editor!page
    <2>2. rename' \in Renames
      <3>1. CASE Editor!CommitTitle
        BY <1>1, <3>1 DEF Editor!CommitTitle, Editor!NoRename, Renames
      <3>2. CASE Editor!RenameReads
        BY <1>1, <3>2 DEF Editor!RenameReads, Renames, Servers
      <3> QED
        BY <1>d, <3>1, <3>2
    <2> QED
      BY <1>1, <1>2, <2>1, <2>2 DEF EditorTypes
  <1>e. CASE Editor!RenameArrives
    <2>1. UNCHANGED <<canvas, title, save, isSaved, isSavingWorkflow>>
      BY <1>e DEF Editor!RenameArrives, Editor!page
    <2>2. rename' \in Renames
      BY <1>1, <1>e DEF Editor!RenameArrives, Renames
    <2>3. server' \in Servers
      BY <1>1, <1>e DEF Editor!RenameArrives, Editor!Written, Renames, Servers
    <2> QED
      BY <1>1, <1>2, <2>1, <2>2, <2>3 DEF EditorTypes
  <1>f. CASE Editor!RenameEnds
    <2>1. UNCHANGED <<canvas, server, save, isSaved, isSavingWorkflow>>
      BY <1>f DEF Editor!RenameEnds
    <2>2. rename' \in Renames /\ title' \in Nat
      BY <1>1, <1>f DEF Editor!RenameEnds, Editor!NoRename, Renames
    <2> QED
      BY <1>1, <1>2, <2>1, <2>2 DEF EditorTypes
  <1>g. CASE Editor!RenameFails
    <2>1. UNCHANGED <<canvas, title, server, save, isSavingWorkflow>> /\ isSaved' = FALSE
      BY <1>g DEF Editor!RenameFails
    <2>2. rename' \in Renames
      BY <1>1, <1>g DEF Editor!RenameFails, Editor!NoRename, Renames
    <2> QED
      BY <1>1, <1>2, <2>1, <2>2 DEF EditorTypes
  <1>h. ASSUME NEW purpose \in {"save", "publish", "run"}, Editor!Click(purpose) PROVE EditorTypes'
    <2>1. UNCHANGED <<canvas, title, server, rename, isSaved>> /\ isSavingWorkflow' = TRUE
      BY <1>h DEF Editor!Click
    <2>2. save' \in [Editor!Savers -> Saves]
      <3> DEFINE new == [pc |-> "waiting", for |-> purpose, canvas |-> canvas, title |-> title,
                         clean |-> isSaved, clicked |-> canvas]
      <3>1. save' = [save EXCEPT !["button"] = new]
        BY <1>h DEF Editor!Click, Editor!Begin
      <3>2. new \in Saves
        BY <1>1, <1>2, <1>h DEF Saves
      <3> HIDE DEF new
      <3> QED
        BY <1>1, <3>1, <3>2
    <2> QED
      BY <1>1, <1>2, <2>1, <2>2 DEF EditorTypes
  <1>i. CASE Editor!RunAtOnce \/ Editor!RunArrives
    <2>1. UNCHANGED <<canvas, title, server, rename, save, isSaved, isSavingWorkflow>>
      BY <1>i DEF Editor!RunAtOnce, Editor!RunArrives, Editor!page
    <2> QED
      BY <1>1, <1>2, <2>1 DEF EditorTypes
  <1>j. ASSUME NEW s \in Editor!Savers, \/ Editor!Proceed(s) \/ Editor!SaveArrives(s) \/ Editor!SaveAnswered(s)
                                        \/ Editor!PublishArrives(s) \/ Editor!Published(s) \/ Editor!SaveFails(s)
        PROVE  EditorTypes'
    <2>0. save[s] \in Saves /\ Editor!NoSave \in Saves
      BY <1>1 DEF Saves, Editor!NoSave
    <2>1. PICK new \in Saves : save' = [save EXCEPT ![s] = new]
      <3>1. CASE Editor!Proceed(s)
        <4>1. save' = [save EXCEPT ![s].pc = save'[s].pc] /\ save'[s].pc \in {"publish", "put"}
          BY <1>1, <3>1 DEF Editor!Proceed
        <4> QED
          BY <1>1, <2>0, <4>1 DEF Saves
      <3>2. CASE Editor!SaveArrives(s)
        BY <2>0, <3>2 DEF Editor!SaveArrives, Saves
      <3>3. CASE Editor!SaveAnswered(s)
        BY <2>0, <3>3 DEF Editor!SaveAnswered, Editor!Ends, Saves
      <3>4. CASE Editor!PublishArrives(s)
        BY <2>0, <3>4 DEF Editor!PublishArrives, Saves
      <3>5. CASE Editor!Published(s) \/ Editor!SaveFails(s)
        BY <2>0, <3>5 DEF Editor!Published, Editor!SaveFails, Editor!Ends
      <3> QED
        BY <1>j, <3>1, <3>2, <3>3, <3>4, <3>5
    <2>2. save' \in [Editor!Savers -> Saves]
      BY <1>1, <2>1
    <2>3. rename' \in Renames /\ canvas' = canvas
      <3>1. CASE Editor!SaveArrives(s)
        BY <1>1, <3>1 DEF Editor!SaveArrives, Editor!page, Renames
      <3>2. CASE ~Editor!SaveArrives(s)
        BY <1>1, <1>j, <3>2 DEF Editor!Proceed, Editor!SaveAnswered, Editor!PublishArrives, Editor!Published,
                                Editor!SaveFails, Editor!page
      <3> QED
        BY <3>1, <3>2
    <2>4. title' = title \/ title' = save[s].title
      BY <1>j DEF Editor!Proceed, Editor!SaveArrives, Editor!SaveAnswered, Editor!PublishArrives,
                  Editor!Published, Editor!SaveFails, Editor!page
    <2>5. title' \in Nat
      BY <1>1, <2>0, <2>4 DEF Saves
    <2>6. server' \in Servers
      <3>1. CASE Editor!SaveArrives(s)
        BY <1>1, <2>0, <3>1 DEF Editor!SaveArrives, Editor!Written, Servers, Saves
      <3>2. CASE Editor!PublishArrives(s)
        BY <1>1, <3>2 DEF Editor!PublishArrives, Servers
      <3>3. CASE Editor!Proceed(s) \/ Editor!SaveAnswered(s) \/ Editor!Published(s) \/ Editor!SaveFails(s)
        BY <1>1, <3>3 DEF Editor!Proceed, Editor!SaveAnswered, Editor!Published, Editor!SaveFails
      <3> QED
        BY <1>j, <3>1, <3>2, <3>3
    <2>7. isSaved' = isSaved \/ isSaved' = TRUE
      BY <1>j DEF Editor!Proceed, Editor!SaveArrives, Editor!SaveAnswered, Editor!PublishArrives,
                  Editor!Published, Editor!SaveFails, Editor!page
    <2>8. isSavingWorkflow' = isSavingWorkflow \/ isSavingWorkflow' = FALSE
      BY <1>j DEF Editor!Proceed, Editor!SaveArrives, Editor!SaveAnswered, Editor!PublishArrives,
                  Editor!Published, Editor!SaveFails, Editor!page, Editor!Ends
    <2>9. isSaved' \in BOOLEAN /\ isSavingWorkflow' \in BOOLEAN
      BY <1>2, <2>7, <2>8
    <2> QED
      BY <1>1, <2>2, <2>3, <2>5, <2>6, <2>9 DEF EditorTypes
  <1> QED
    BY <1>a, <1>b, <1>c, <1>d, <1>e, <1>f, <1>g, <1>h, <1>i, <1>j DEF Editor!Next

(* What a step does to the reads and writes of the rename and the saves.   *)
ButtonsWait ==
    /\ save["button"].pc # "none" => isSavingWorkflow
    /\ save["inspector"].for = "save"
    /\ rename.pc # "none" => save["button"].pc \in {"none", "waiting"}
    /\ Editor!OnlyTheInspectorCrosses

LEMMA EditorOrder == ASSUME EditorInv, Editor!Next PROVE ButtonsWait'
  <1>1. /\ server \in Servers /\ rename \in Renames /\ save \in [Editor!Savers -> Saves]
        /\ "inspector" \in Editor!Savers /\ "button" \in Editor!Savers
        /\ \A s \in Editor!Savers : s = "button" \/ s = "inspector"
    BY DEF EditorInv, EditorTypes, Editor!Savers
  <1>2. isSavingWorkflow \in BOOLEAN
    BY DEF EditorInv, EditorTypes
  <1>3. ButtonsWait
    BY DEF EditorInv, ButtonsWait
  <1> USE DEF ButtonsWait, Editor!OnlyTheInspectorCrosses
  <1>a. CASE Editor!Edit \/ Editor!TypeTitle \/ Editor!RunAtOnce \/ Editor!RunArrives
    <2>1. UNCHANGED <<server, rename, save, isSavingWorkflow>>
      BY <1>a DEF Editor!Edit, Editor!TypeTitle, Editor!RunAtOnce, Editor!RunArrives, Editor!page
    <2> QED
      BY <1>3, <2>1
  <1>b. CASE Editor!Connect \/ Editor!ConnectionCreated
    <2>1. UNCHANGED <<server, rename, isSavingWorkflow>>
      BY <1>b DEF Editor!Connect, Editor!ConnectionCreated, Editor!page
    <2>2. save'["button"] = save["button"]
      BY <1>1, <1>b DEF Editor!Connect, Editor!ConnectionCreated
    <2>3. save'["inspector"].for = "save"
      <3>1. CASE Editor!Connect
        <4>1. save'["inspector"] = [Editor!NoSave EXCEPT !.pc = "creating", !.title = title]
          BY <1>1, <3>1 DEF Editor!Connect
        <4> QED
          BY <4>1 DEF Editor!NoSave
      <3>2. CASE Editor!ConnectionCreated
        <4>1. save'["inspector"] = [save["inspector"] EXCEPT !.pc = "waiting", !.canvas = canvas', !.clicked = canvas']
          BY <1>1, <3>2 DEF Editor!ConnectionCreated
        <4>2. save["inspector"] \in Saves
          BY <1>1
        <4> QED
          BY <1>3, <4>1, <4>2 DEF Saves
      <3> QED
        BY <1>b, <3>1, <3>2
    <2> QED
      BY <1>3, <2>1, <2>2, <2>3
  <1>c. CASE Editor!CommitTitle
    <2>1. UNCHANGED <<server, save, isSavingWorkflow>> /\ rename'.pc = "read"
      BY <1>1, <1>c DEF Editor!CommitTitle, Editor!NoRename, Editor!page
    <2>2. ~isSavingWorkflow
      BY <1>c DEF Editor!CommitTitle, Editor!MayRename
    <2>3. save["button"].pc = "none"
      BY <1>3, <2>2
    <2> QED
      BY <1>3, <2>1, <2>3
  <1>d. CASE Editor!RenameReads
    <2>1. UNCHANGED <<server, save, isSavingWorkflow>>
      BY <1>d DEF Editor!RenameReads, Editor!page
    <2>2. rename.pc = "read" /\ rename'.pc = "put" /\ rename'.canvas = server.canvas
      BY <1>1, <1>d DEF Editor!RenameReads, Renames
    <2> QED
      BY <1>3, <2>1, <2>2
  <1>e. CASE Editor!RenameArrives \/ Editor!RenameEnds \/ Editor!RenameFails
    <2>1. UNCHANGED <<save, isSavingWorkflow>>
      BY <1>e DEF Editor!RenameArrives, Editor!RenameEnds, Editor!RenameFails, Editor!page
    <2>2. rename.pc # "none" /\ rename'.pc \in {"answered", "none"}
      BY <1>1, <1>e DEF Editor!RenameArrives, Editor!RenameEnds, Editor!RenameFails, Editor!NoRename, Renames
    <2> QED
      BY <1>3, <2>1, <2>2
  <1>f. ASSUME NEW purpose \in {"save", "publish", "run"}, Editor!Click(purpose) PROVE ButtonsWait'
    <2>1. UNCHANGED <<server, rename>> /\ isSavingWorkflow' = TRUE
      BY <1>f DEF Editor!Click
    <2>2. save'["inspector"] = save["inspector"] /\ save'["button"].pc = "waiting"
      BY <1>1, <1>f DEF Editor!Click, Editor!Begin
    <2> QED
      BY <1>3, <2>1, <2>2
  <1>g. ASSUME NEW s \in Editor!Savers, Editor!Proceed(s) PROVE ButtonsWait'
    <2>1. UNCHANGED <<server, rename, isSavingWorkflow>> /\ rename.pc = "none" /\ save[s].pc = "waiting"
      BY <1>g DEF Editor!Proceed, Editor!RenameOver, Editor!page
    <2>2. /\ \A t \in Editor!Savers : t # s => save'[t] = save[t]
          /\ save'[s].for = save[s].for
      BY <1>1, <1>g DEF Editor!Proceed, Saves
    <2>3. (save["button"].pc # "none" => isSavingWorkflow)' /\ save'["inspector"].for = "save"
      BY <1>1, <1>3, <2>1, <2>2
    <2> QED
      BY <2>1, <2>3
  <1>h. ASSUME NEW s \in Editor!Savers, \/ Editor!SaveArrives(s) \/ Editor!SaveAnswered(s) \/ Editor!PublishArrives(s)
                                        \/ Editor!Published(s) \/ Editor!SaveFails(s)
        PROVE  /\ \A t \in Editor!Savers : t # s => save'[t] = save[t]
               /\ (save["button"].pc # "none" => isSavingWorkflow)' /\ save'["inspector"].for = "save"
               /\ save[s].pc = "waiting" => save'[s].pc \in {"none", "waiting"}
               /\ save[s].pc # "none"
    <2>1. Editor!NoSave.pc = "none" /\ Editor!NoSave.for = "save" /\ save[s] \in Saves
      BY <1>1 DEF Editor!NoSave
    <2>2. CASE Editor!Ends(s) /\ save[s].pc # "none"
      BY <1>1, <1>3, <2>1, <2>2 DEF Editor!Ends
    <2>3. CASE /\ ~Editor!Ends(s)
               /\ Editor!SaveArrives(s) \/ Editor!SaveAnswered(s) \/ Editor!PublishArrives(s)
      <3>1. PICK after \in {"saved", "publish", "published"} : save' = [save EXCEPT ![s].pc = after]
        BY <2>3 DEF Editor!SaveArrives, Editor!SaveAnswered, Editor!PublishArrives
      <3>2. isSavingWorkflow' = isSavingWorkflow /\ save[s].pc \in {"put", "saved", "publish"}
        BY <2>3 DEF Editor!SaveArrives, Editor!SaveAnswered, Editor!PublishArrives, Editor!page
      <3>3. save'[s].for = save[s].for /\ \A t \in Editor!Savers : t # s => save'[t] = save[t]
        BY <1>1, <2>1, <3>1 DEF Saves
      <3> QED
        BY <1>1, <1>3, <3>2, <3>3
    <2> QED
      BY <1>h, <2>2, <2>3 DEF Editor!SaveAnswered, Editor!SaveFails, Editor!Published, Editor!SaveArrives,
                              Editor!PublishArrives
  <1>i. ASSUME NEW s \in Editor!Savers, Editor!SaveArrives(s) PROVE ButtonsWait'
    <2>1. save[s].pc = "put" /\ rename' = [rename EXCEPT !.crossed = rename.crossed \/ (s = "inspector" /\ rename.pc = "put")]
      BY <1>i DEF Editor!SaveArrives
    <2>2. rename'.pc = rename.pc /\ rename'.canvas = rename.canvas
      BY <1>1, <2>1 DEF Renames
    <2>3. CASE s = "button"
      BY <1>1, <1>3, <1>h, <1>i, <2>1, <2>2, <2>3
    <2>4. CASE s = "inspector"
      <3>1. rename.pc = "put" => rename'.crossed
        BY <1>1, <2>1, <2>4 DEF Renames
      <3> QED
        BY <1>1, <1>3, <1>h, <1>i, <2>2, <2>4, <3>1
    <2> QED
      BY <1>1, <2>3, <2>4
  <1>j. ASSUME NEW s \in Editor!Savers,
               Editor!SaveAnswered(s) \/ Editor!PublishArrives(s) \/ Editor!Published(s) \/ Editor!SaveFails(s)
        PROVE  ButtonsWait'
    <2>1. rename' = rename /\ server'.canvas = server.canvas
      BY <1>1, <1>j DEF Editor!SaveAnswered, Editor!PublishArrives, Editor!Published, Editor!SaveFails, Editor!page, Servers
    <2>2. rename.pc # "none" => save'["button"].pc \in {"none", "waiting"}
      <3>1. CASE s = "inspector"
        BY <1>1, <1>3, <1>h, <1>j, <3>1
      <3>2. CASE s = "button"
        BY <1>1, <1>3, <1>h, <1>j, <3>2
      <3> QED
        BY <1>1, <3>1, <3>2
    <2> QED
      BY <1>1, <1>3, <1>h, <1>j, <2>1, <2>2
  <1> QED
    BY <1>a, <1>b, <1>c, <1>d, <1>e, <1>f, <1>g, <1>i, <1>j DEF Editor!Next

LEMMA EditorStep == ASSUME EditorInv, [Editor!Next]_(Editor!vars) PROVE EditorInv'
  <1>1. CASE Editor!Next
    <2>1. EditorTypes'
      BY <1>1, EditorTypesStep DEF EditorInv
    <2> QED
      BY <1>1, <2>1, EditorOrder DEF EditorInv, ButtonsWait
  <1>2. CASE UNCHANGED Editor!vars
    <2>1. UNCHANGED <<canvas, title, server, rename, save, isSaved, isSavingWorkflow>>
      BY <1>2 DEF Editor!vars, Editor!page
    <2> QED
      BY <2>1 DEF EditorInv, EditorTypes, Editor!OnlyTheInspectorCrosses
  <1> QED
    BY <1>1, <1>2

LEMMA EditorIsKept == Spec => [](service = "editor" => EditorInv)
  <1>1. Init => (service = "editor" => EditorInv)
    BY ServicesAssumption, EditorInit DEF Init
  <1>2. (service = "editor" => EditorInv) /\ [Next]_vars => (service = "editor" => EditorInv)'
    <2> SUFFICES ASSUME service = "editor" => EditorInv, [Next]_vars, service' = "editor" PROVE EditorInv'
      OBVIOUS
    <2>1. service = "editor" /\ [Editor!Next]_(Editor!vars)
      BY DEF Next, vars, ClientsOnly, EditorOnly, Editor!vars, Editor!page
    <2> QED
      BY <2>1, ServicesAssumption, EditorStep
  <1> QED
    BY <1>1, <1>2, PTL DEF Spec

(* A rename on its way carries the canvas that the server has, unless the  *)
(* inspector saved meanwhile: the write of a button's save never falls     *)
(* between the read and the write of a rename (commitTitle and the awaits  *)
(* of renameRef in WorkflowBuilderPage.tsx).                               *)
THEOREM RenamesKeepTheButtonsCanvas == Spec => []OnlyTheInspectorCrosses
  <1>1. (service = "editor" => EditorInv) => OnlyTheInspectorCrosses
    BY DEF EditorInv, OnlyTheInspectorCrosses
  <1> QED
    BY <1>1, EditorIsKept, PTL

-----------------------------------------------------------------------------
(* Sums over a finite set. The fold of the community modules is a          *)
(* recursive function on the subsets; its equation has a solution for      *)
(* every finite set, and the sum bounds what its summands bound.           *)
Some(s) == CHOOSE x \in s : TRUE

Sums(c, U, f) == [s \in SUBSET U |-> IF s = {} THEN 0 ELSE c[Some(s)] + f[s \ {Some(s)}]]

Sum(c, U) == (CHOOSE f : f = Sums(c, U, f))[U]

LEMMA LeastNumber ==
    ASSUME NEW T \in SUBSET Nat, T # {}
    PROVE  \E m \in T : \A k \in T : m <= k
  <1> DEFINE Less == {p \in Nat \X Nat : p[1] < p[2]}
  <1>1. IsWellFoundedOn(Less, Nat)
    BY NatLessThanWellFounded DEF OpToRel
  <1> HIDE DEF Less
  <1>2. \E m \in T : \A k \in T : <<k, m>> \notin Less
    BY <1>1, WFMin
  <1>3. \A k, m \in Nat : <<k, m>> \notin Less => m <= k
    BY DEF Less
  <1> QED
    BY <1>2, <1>3

(* What one step of the recursion does with a function on the subsets.     *)
LEMMA SumsStep ==
    ASSUME NEW U, IsFiniteSet(U), NEW c \in [U -> Nat], NEW f \in [SUBSET U -> Nat]
    PROVE  /\ Sums(c, U, f) \in [SUBSET U -> Nat]
           /\ Sums(c, U, f)[{}] = 0
           /\ \A s \in SUBSET U : s # {} =>
                /\ Some(s) \in s
                /\ Sums(c, U, f)[s] = c[Some(s)] + f[s \ {Some(s)}]
                /\ Cardinality(s) \in Nat /\ Cardinality(s \ {Some(s)}) = Cardinality(s) - 1
  <1>1. ASSUME NEW s \in SUBSET U, s # {}
        PROVE  Some(s) \in s /\ Sums(c, U, f)[s] = c[Some(s)] + f[s \ {Some(s)}] /\ Sums(c, U, f)[s] \in Nat
    <2>1. Some(s) \in s
      BY <1>1 DEF Some
    <2>2. Sums(c, U, f)[s] = c[Some(s)] + f[s \ {Some(s)}]
      BY <1>1 DEF Sums
    <2>3. c[Some(s)] \in Nat /\ f[s \ {Some(s)}] \in Nat
      BY <2>1
    <2> QED
      BY <2>1, <2>2, <2>3
  <1>2. Sums(c, U, f)[{}] = 0
    BY DEF Sums
  <1>3. ASSUME NEW s \in SUBSET U PROVE Sums(c, U, f)[s] \in Nat
    <2>1. CASE s = {}
      BY <1>2, <2>1
    <2>2. CASE s # {}
      BY <1>1, <2>2
    <2> QED
      BY <2>1, <2>2
  <1>4. Sums(c, U, f) \in [SUBSET U -> Nat]
    <2>1. Sums(c, U, f) = [s \in SUBSET U |-> Sums(c, U, f)[s]]
      BY DEF Sums
    <2> HIDE DEF Sums
    <2> QED
      BY <1>3, <2>1
  <1>5. ASSUME NEW s \in SUBSET U, NEW x \in s
        PROVE  Cardinality(s) \in Nat /\ Cardinality(s \ {x}) = Cardinality(s) - 1
    BY FS_Subset, FS_RemoveElement, FS_CardinalityType
  <1> QED
    BY <1>1, <1>2, <1>4, <1>5

(* Applied as often as U has elements, it makes the equation's solution.   *)
LEMMA SumExists ==
    ASSUME NEW U, IsFiniteSet(U), NEW c \in [U -> Nat]
    PROVE  \E f \in [SUBSET U -> Nat] : f = Sums(c, U, f)
  <1>0. ASSUME NEW f \in [SUBSET U -> Nat], NEW s \in SUBSET U, s # {}
        PROVE  /\ Some(s) \in s
               /\ Sums(c, U, f)[s] = c[Some(s)] + f[s \ {Some(s)}]
               /\ Cardinality(s) \in Nat /\ Cardinality(s \ {Some(s)}) = Cardinality(s) - 1
    BY <1>0, SumsStep
  <1> DEFINE Good(k, f) == \A s \in SUBSET U : Cardinality(s) <= k => f[s] = Sums(c, U, f)[s]
             Bad == {k \in Nat : ~\E f \in [SUBSET U -> Nat] : Good(k, f)}
  <1>1. \E f \in [SUBSET U -> Nat] : Good(0, f)
    <2> DEFINE z == [s \in SUBSET U |-> 0]
    <2>1. z \in [SUBSET U -> Nat]
      OBVIOUS
    <2>2. \A s \in SUBSET U : Cardinality(s) <= 0 => s = {}
      BY FS_Subset, FS_CardinalityType, FS_EmptySet
    <2>3. Sums(c, U, z)[{}] = 0 /\ z[{}] = 0
      BY <2>1, SumsStep
    <2> HIDE DEF z
    <2> QED
      BY <2>1, <2>2, <2>3
  <1>2. ASSUME NEW k \in Nat, NEW f \in [SUBSET U -> Nat], Good(k, f)
        PROVE  \E g \in [SUBSET U -> Nat] : Good(k + 1, g)
    <2> DEFINE g == Sums(c, U, f)
    <2>1. g \in [SUBSET U -> Nat]
      BY SumsStep
    <2> HIDE DEF g
    <2>2. ASSUME NEW s \in SUBSET U, Cardinality(s) <= k + 1, s # {}
          PROVE  g[s] = Sums(c, U, g)[s]
      <3>1. /\ Some(s) \in s /\ Sums(c, U, f)[s] = c[Some(s)] + f[s \ {Some(s)}]
            /\ Cardinality(s) \in Nat /\ Cardinality(s \ {Some(s)}) = Cardinality(s) - 1
        BY <1>0, <2>2
      <3>2. Sums(c, U, g)[s] = c[Some(s)] + g[s \ {Some(s)}]
        BY <1>0, <2>1, <2>2
      <3>3. s \ {Some(s)} \in SUBSET U /\ Cardinality(s \ {Some(s)}) <= k
        BY <2>2, <3>1
      <3>4. f[s \ {Some(s)}] = g[s \ {Some(s)}]
        BY <1>2, <3>3 DEF g
      <3> QED
        BY <3>1, <3>2, <3>4 DEF g
    <2>3. g[{}] = Sums(c, U, g)[{}]
      BY <2>1, SumsStep DEF g
    <2> QED
      BY <2>1, <2>2, <2>3
  <1> HIDE DEF Good
  <1>3. Bad = {}
    <2> SUFFICES ASSUME Bad # {} PROVE FALSE
      OBVIOUS
    <2>1. PICK m \in Bad : \A k \in Bad : m <= k
      BY LeastNumber
    <2>2. m # 0
      BY <1>1
    <2>3. m - 1 \in Nat /\ m - 1 \notin Bad /\ (m - 1) + 1 = m
      <3>1. m \in Nat
        BY <2>1
      <3> HIDE DEF Bad
      <3> QED
        BY <2>1, <2>2, <3>1
    <2>4. PICK f \in [SUBSET U -> Nat] : Good(m - 1, f)
      BY <2>3
    <2>5. \E g \in [SUBSET U -> Nat] : Good((m - 1) + 1, g)
      BY <1>2, <2>3, <2>4
    <2> QED
      BY <2>1, <2>3, <2>5
  <1>4. Cardinality(U) \in Nat
    BY FS_CardinalityType
  <1>5. PICK f \in [SUBSET U -> Nat] : Good(Cardinality(U), f)
    BY <1>3, <1>4
  <1>6. \A s \in SUBSET U : f[s] = Sums(c, U, f)[s]
    BY <1>5, FS_Subset DEF Good
  <1>7. Sums(c, U, f) \in [SUBSET U -> Nat]
    BY SumsStep
  <1> HIDE DEF Bad
  <1> QED
    BY <1>6, <1>7

(* If each element of U is worth at least what it owns of T, U is worth at *)
(* least T.                                                                *)
LEMMA SumCovers ==
    ASSUME NEW U, IsFiniteSet(U), NEW c \in [U -> Nat], NEW T, IsFiniteSet(T), NEW own \in [T -> U],
           \A u \in U : Cardinality({t \in T : own[t] = u}) <= c[u]
    PROVE  Sum(c, U) \in Nat /\ Cardinality(T) <= Sum(c, U)
  <1> DEFINE f == CHOOSE g : g = Sums(c, U, g)
             Of(s) == {t \in T : own[t] \in s}
             Bad == {k \in Nat : \E s \in SUBSET U : Cardinality(s) = k /\ ~(f[s] \in Nat /\ Cardinality(Of(s)) <= f[s])}
  <1>1. f = Sums(c, U, f)
    BY SumExists
  <1>2. Sum(c, U) = f[U]
    BY DEF Sum
  <1> HIDE DEF f
  <1>3. f[{}] = 0
    BY <1>1 DEF Sums
  <1>4. ASSUME NEW s \in SUBSET U, s # {}
        PROVE  \E x \in s : f[s] = c[x] + f[s \ {x}]
    <2>1. Some(s) \in s
      BY <1>4 DEF Some
    <2>2. Sums(c, U, f)[s] = c[Some(s)] + f[s \ {Some(s)}]
      BY <1>4 DEF Sums
    <2> QED
      BY <1>1, <2>1, <2>2
  <1>5. \A s \in SUBSET U : Cardinality(s) \in Nat /\ IsFiniteSet(s)
    BY FS_Subset, FS_CardinalityType
  <1>6. \A s : IsFiniteSet(Of(s)) /\ Cardinality(Of(s)) \in Nat
    BY FS_Subset, FS_CardinalityType
  <1>7. ASSUME NEW s \in SUBSET U, NEW x \in s, f[s \ {x}] \in Nat, Cardinality(Of(s \ {x})) <= f[s \ {x}],
               f[s] = c[x] + f[s \ {x}]
        PROVE  f[s] \in Nat /\ Cardinality(Of(s)) <= f[s]
    <2> DEFINE One == {t \in T : own[t] = x}
    <2>1. Of(s) = Of(s \ {x}) \union One /\ Of(s \ {x}) \intersect One = {}
      OBVIOUS
    <2>2. IsFiniteSet(One) /\ Cardinality(One) \in Nat /\ Cardinality(One) <= c[x] /\ c[x] \in Nat
      BY FS_Subset, FS_CardinalityType
    <2> HIDE DEF One, Of
    <2>3. Cardinality(Of(s)) = Cardinality(Of(s \ {x})) + Cardinality(One) - Cardinality({})
      BY <1>6, <2>1, <2>2, FS_Union
    <2>4. Cardinality(Of(s)) = Cardinality(Of(s \ {x})) + Cardinality(One)
      BY <1>6, <2>2, <2>3, FS_EmptySet
    <2> QED
      BY <1>6, <1>7, <2>2, <2>4
  <1>8. Bad = {}
    <2> SUFFICES ASSUME Bad # {} PROVE FALSE
      OBVIOUS
    <2>1. PICK m \in Bad : \A k \in Bad : m <= k
      BY LeastNumber
    <2>2. PICK s \in SUBSET U : Cardinality(s) = m /\ ~(f[s] \in Nat /\ Cardinality(Of(s)) <= f[s])
      BY <2>1
    <2>3. s # {}
      <3> SUFFICES ASSUME s = {} PROVE FALSE
        OBVIOUS
      <3>1. Of(s) = {}
        OBVIOUS
      <3> HIDE DEF Of
      <3> QED
        BY <1>3, <2>2, <3>1, FS_EmptySet
    <2>4. PICK x \in s : f[s] = c[x] + f[s \ {x}]
      BY <1>4, <2>3
    <2>5. Cardinality(s \ {x}) = m - 1 /\ s \ {x} \in SUBSET U /\ m - 1 \in Nat
      <3>1. Cardinality(s \ {x}) = m - 1
        BY <1>5, <2>2, FS_RemoveElement
      <3>2. s \ {x} \in SUBSET U
        OBVIOUS
      <3> QED
        BY <1>5, <3>1, <3>2
    <2>6. m - 1 \notin Bad
      BY <2>1, <2>5, SMTT(30)
    <2> HIDE DEF Of
    <2>7. f[s \ {x}] \in Nat /\ Cardinality(Of(s \ {x})) <= f[s \ {x}]
      BY <2>5, <2>6
    <2> QED
      BY <1>7, <2>2, <2>4, <2>7
  <1>9. Cardinality(U) \in Nat
    BY FS_CardinalityType
  <1>10. Of(U) = T
    OBVIOUS
  <1> HIDE DEF Of
  <1>11. f[U] \in Nat /\ Cardinality(Of(U)) <= f[U]
    BY <1>8, <1>9
  <1> QED
    BY <1>2, <1>10, <1>11

-----------------------------------------------------------------------------
(* The assistant's turns. A turn that was counted and not refunded is      *)
(* covered by the usage of its user: so the turns that may be granted are  *)
(* never more than the limits, whichever of them looks first.              *)
Chats ==
    [pc : {"idle", "admitted", "counted", "asking", "asked", "streaming", "ending", "over"},
     day : 0 .. Days, calls : Nat, granted : BOOLEAN, streamed : BOOLEAN, undo : SUBSET {"refund", "delete"}]

Held(u)     == {t \in Assistant!Holding : UserOf[t] = u}
Counted(t)  == turn[t].granted \/ turn[t].pc = "counted"
Units(d, u) == {t \in Turns : Counted(t) /\ turn[t].day = d /\ UserOf[t] = u}
Within(d, u) ==
    {t \in Turns : /\ turn[t].granted \/ (turn[t].pc = "counted" /\ turn[t].calls <= UserLimit)
                   /\ turn[t].day = d /\ UserOf[t] = u}

TurnTypes ==
    /\ today \in 1 .. Days
    /\ turn \in [Turns -> Chats]
    /\ perUser \in [Users -> Nat]
    /\ total \in Nat
    /\ usage \in [1 .. Days -> [Users -> Nat]]

(* Where a turn holds a unit, and that only a granted one can refund it.   *)
TurnsAreInOrder ==
    \A t \in Turns :
        /\ turn[t].pc # "idle" => turn[t].day # 0
        /\ turn[t].pc \in {"idle", "admitted", "counted"} => ~turn[t].granted
        /\ turn[t].pc \in {"asking", "asked", "streaming"} \/ "refund" \in turn[t].undo => turn[t].granted
        /\ turn[t].pc # "ending" => turn[t].undo = {}

SlotsInv ==
    /\ total = Cardinality(Assistant!Holding)
    /\ \A u \in Users : perUser[u] = Cardinality(Held(u))

QuotaInv ==
    /\ Assistant!Metered => \A d \in 1 .. Days, u \in Users : Cardinality(Units(d, u)) <= usage[d][u]
    /\ UserLimit > 0 => \A d \in 1 .. Days, u \in Users : Cardinality(Within(d, u)) <= UserLimit
    /\ WorkspaceLimit > 0 => \A d \in 1 .. Days : Cardinality(Assistant!Granted(d)) <= WorkspaceLimit

TurnInv == TurnTypes /\ TurnsAreInOrder /\ SlotsInv /\ QuotaInv

(* The instance has its own copies of the library's operators.             *)
LEMMA SameCardinality == \A S : Assistant!Cardinality(S) = Cardinality(S)
  BY DEF Assistant!Cardinality, Cardinality

LEMMA TurnConstants ==
    ASSUME Assistant!TurnAssumption
    PROVE  /\ IsFiniteSet(Turns) /\ IsFiniteSet(Users)
           /\ UserOf \in [Turns -> Users]
           /\ UserLimit \in Nat /\ WorkspaceLimit \in Nat
           /\ Days \in Nat \ {0}
  BY DEF Assistant!TurnAssumption, Assistant!IsFiniteSet, IsFiniteSet

LEMMA WorkspaceSum ==
    ASSUME NEW d PROVE Assistant!WorkspaceCalls(d) = Sum(usage[d], Users)
  BY DEF Assistant!WorkspaceCalls, Assistant!MapThenSumSet, Assistant!MapThenFoldSet, Sum, Sums, Some

LEMMA PartsAreFinite ==
    ASSUME IsFiniteSet(Turns), NEW T \in SUBSET Turns
    PROVE  IsFiniteSet(T) /\ Cardinality(T) \in Nat
  BY FS_Subset, FS_CardinalityType

LEMMA TurnInit == ASSUME Assistant!TurnAssumption, Assistant!Init PROVE TurnInv
  <1>1. /\ today = 1 /\ total = 0 /\ perUser = [u \in Users |-> 0]
        /\ usage = [d \in 1 .. Days |-> [u \in Users |-> 0]]
        /\ turn = [t \in Turns |-> Assistant!Idle]
    BY DEF Assistant!Init
  <1>2. Assistant!Idle \in Chats
    BY TurnConstants DEF Assistant!Idle, Chats
  <1>3. TurnTypes
    BY <1>1, <1>2, TurnConstants DEF TurnTypes
  <1>4. \A t \in Turns : turn[t].pc = "idle" /\ turn[t].granted = FALSE /\ turn[t].undo = {}
    BY <1>1 DEF Assistant!Idle
  <1>5. TurnsAreInOrder
    BY <1>4 DEF TurnsAreInOrder
  <1>6. Assistant!Holding = {} /\ \A u : Held(u) = {}
    BY <1>4 DEF Assistant!Holding, Held
  <1>7. \A d, u : Units(d, u) = {} /\ Within(d, u) = {} /\ Assistant!Granted(d) = {}
    BY <1>4 DEF Units, Within, Counted, Assistant!Granted
  <1>8. SlotsInv
    BY <1>1, <1>6, FS_EmptySet DEF SlotsInv
  <1>9. \A d \in 1 .. Days, u \in Users : usage[d][u] = 0
    BY <1>1
  <1>10. QuotaInv
    BY <1>7, <1>9, FS_EmptySet, TurnConstants DEF QuotaInv
  <1> QED
    BY <1>3, <1>5, <1>8, <1>10 DEF TurnInv

(* The quota survives a step after which no more is counted or granted.    *)
LEMMA NoMoreIsCounted ==
    ASSUME Assistant!TurnAssumption, TurnTypes, QuotaInv, usage' = usage,
           \A s \in Turns :
               /\ Counted(s)' => Counted(s) /\ turn'[s].day = turn[s].day
               /\ turn'[s].granted => turn[s].granted
               /\ turn'[s].pc = "counted" => turn[s].pc = "counted" /\ turn'[s].calls = turn[s].calls
    PROVE  QuotaInv'
  <1>1. \A d, u : Units(d, u)' \subseteq Units(d, u) /\ Within(d, u)' \subseteq Within(d, u)
    BY DEF Units, Within, Counted
  <1>2. \A d : Assistant!Granted(d)' \subseteq Assistant!Granted(d)
    BY DEF Assistant!Granted, Counted
  <1>3. \A d, u : Units(d, u) \in SUBSET Turns /\ Within(d, u) \in SUBSET Turns
                  /\ Assistant!Granted(d) \in SUBSET Turns
    BY DEF Units, Within, Assistant!Granted
  <1>4. ASSUME NEW T \in SUBSET Turns, NEW R \in SUBSET T
        PROVE  Cardinality(R) \in Nat /\ Cardinality(T) \in Nat /\ Cardinality(R) <= Cardinality(T)
    BY TurnConstants, PartsAreFinite, FS_Subset
  <1>5. Assistant!Metered' = Assistant!Metered
    BY DEF Assistant!Metered
  <1>6. ASSUME Assistant!Metered, NEW d \in 1 .. Days, NEW u \in Users
        PROVE  (Cardinality(Units(d, u)) <= usage[d][u])'
    <2>1. Cardinality(Units(d, u)) <= usage[d][u] /\ usage[d][u] \in Nat
      BY <1>6 DEF QuotaInv, TurnTypes
    <2>2. Cardinality(Units(d, u)') <= Cardinality(Units(d, u)) /\ Cardinality(Units(d, u)') \in Nat
          /\ Cardinality(Units(d, u)) \in Nat
      BY <1>1, <1>3, <1>4
    <2> QED
      BY <2>1, <2>2
  <1>7. ASSUME UserLimit > 0, NEW d \in 1 .. Days, NEW u \in Users
        PROVE  (Cardinality(Within(d, u)) <= UserLimit)'
    <2>1. Cardinality(Within(d, u)) <= UserLimit /\ UserLimit \in Nat
      BY <1>7, TurnConstants DEF QuotaInv
    <2>2. Cardinality(Within(d, u)') <= Cardinality(Within(d, u)) /\ Cardinality(Within(d, u)') \in Nat
          /\ Cardinality(Within(d, u)) \in Nat
      BY <1>1, <1>3, <1>4
    <2> QED
      BY <2>1, <2>2
  <1>8. ASSUME WorkspaceLimit > 0, NEW d \in 1 .. Days
        PROVE  (Cardinality(Assistant!Granted(d)) <= WorkspaceLimit)'
    <2>1. Cardinality(Assistant!Granted(d)) <= WorkspaceLimit /\ WorkspaceLimit \in Nat
      BY <1>8, TurnConstants DEF QuotaInv
    <2>2. Cardinality(Assistant!Granted(d)') <= Cardinality(Assistant!Granted(d))
          /\ Cardinality(Assistant!Granted(d)') \in Nat /\ Cardinality(Assistant!Granted(d)) \in Nat
      BY <1>2, <1>3, <1>4
    <2> QED
      BY <2>1, <2>2
  <1> QED
    BY <1>5, <1>6, <1>7, <1>8 DEF QuotaInv

(* The slots survive a step of turns that neither come nor go.             *)
LEMMA NobodyComesOrGoes ==
    ASSUME SlotsInv, UNCHANGED <<total, perUser>>, Assistant!Holding' = Assistant!Holding
    PROVE  SlotsInv'
  BY DEF SlotsInv, Held

(* A turn comes: one slot more, for it and for its user.                   *)
LEMMA OneComes ==
    ASSUME Assistant!TurnAssumption, TurnTypes, SlotsInv, NEW t \in Turns, t \notin Assistant!Holding,
           Assistant!Holding' = Assistant!Holding \union {t},
           total' = total + 1, perUser' = [perUser EXCEPT ![UserOf[t]] = @ + 1]
    PROVE  SlotsInv' /\ total' \in Nat /\ perUser' \in [Users -> Nat]
  <1>1. UserOf[t] \in Users /\ perUser \in [Users -> Nat] /\ total \in Nat
    BY TurnConstants DEF TurnTypes
  <1>2. Assistant!Holding \in SUBSET Turns
    BY DEF Assistant!Holding
  <1>3. IsFiniteSet(Assistant!Holding)
    BY <1>2, TurnConstants, PartsAreFinite
  <1>4. Cardinality(Assistant!Holding') = Cardinality(Assistant!Holding) + 1
    BY <1>3, FS_AddElement
  <1>5. ASSUME NEW u \in Users PROVE perUser'[u] = Cardinality(Held(u)')
    <2>1. Held(u) \in SUBSET Turns
      BY <1>2 DEF Held
    <2>2. IsFiniteSet(Held(u)) /\ perUser[u] = Cardinality(Held(u))
      BY <2>1, TurnConstants, PartsAreFinite DEF SlotsInv
    <2>3. CASE u = UserOf[t]
      <3>1. Held(u)' = Held(u) \union {t} /\ t \notin Held(u)
        BY <2>3 DEF Held
      <3>2. Cardinality(Held(u)') = Cardinality(Held(u)) + 1
        BY <2>2, <3>1, FS_AddElement
      <3> QED
        BY <1>1, <2>2, <2>3, <3>2
    <2>4. CASE u # UserOf[t]
      <3>1. Held(u)' = Held(u)
        BY <2>4 DEF Held
      <3> QED
        BY <1>1, <2>2, <2>4, <3>1
    <2> QED
      BY <2>3, <2>4
  <1>6. total' = Cardinality(Assistant!Holding')
    BY <1>4 DEF SlotsInv
  <1>7. total' \in Nat /\ perUser' \in [Users -> Nat]
    BY <1>1
  <1> QED
    BY <1>5, <1>6, <1>7 DEF SlotsInv

(* A turn goes: its slot is given back, which it had.                      *)
LEMMA OneGoes ==
    ASSUME Assistant!TurnAssumption, TurnTypes, SlotsInv, NEW t \in Turns, t \in Assistant!Holding,
           Assistant!Holding' = Assistant!Holding \ {t},
           total' = total - 1, perUser' = [perUser EXCEPT ![UserOf[t]] = @ - 1]
    PROVE  SlotsInv' /\ total' \in Nat /\ perUser' \in [Users -> Nat]
  <1>1. UserOf[t] \in Users /\ perUser \in [Users -> Nat] /\ total \in Nat
    BY TurnConstants DEF TurnTypes
  <1>2. Assistant!Holding \in SUBSET Turns /\ Assistant!Holding' \in SUBSET Turns
    BY DEF Assistant!Holding
  <1>3. IsFiniteSet(Assistant!Holding) /\ Cardinality(Assistant!Holding') \in Nat
    BY <1>2, TurnConstants, PartsAreFinite
  <1>4. Cardinality(Assistant!Holding') = Cardinality(Assistant!Holding) - 1
    BY <1>3, FS_RemoveElement
  <1>5. ASSUME NEW u \in Users PROVE perUser'[u] = Cardinality(Held(u)') /\ perUser'[u] \in Nat
    <2>1. Held(u) \in SUBSET Turns /\ Held(u)' \in SUBSET Turns
      BY <1>2 DEF Held
    <2>2. IsFiniteSet(Held(u)) /\ perUser[u] = Cardinality(Held(u)) /\ Cardinality(Held(u)') \in Nat
      BY <2>1, TurnConstants, PartsAreFinite DEF SlotsInv
    <2>3. CASE u = UserOf[t]
      <3>1. Held(u)' = Held(u) \ {t} /\ t \in Held(u)
        BY <2>3 DEF Held
      <3>2. Cardinality(Held(u)') = Cardinality(Held(u)) - 1
        BY <2>2, <3>1, FS_RemoveElement
      <3> QED
        BY <1>1, <2>2, <2>3, <3>2
    <2>4. CASE u # UserOf[t]
      <3>1. Held(u)' = Held(u)
        BY <2>4 DEF Held
      <3> QED
        BY <1>1, <2>2, <2>4, <3>1
    <2> QED
      BY <2>3, <2>4
  <1>6. total' = Cardinality(Assistant!Holding')
    BY <1>4 DEF SlotsInv
  <1>7. perUser' \in [Users -> Nat]
    <2>1. perUser' = [u \in Users |-> perUser'[u]]
      BY <1>1
    <2> QED
      BY <1>5, <2>1
  <1> QED
    BY <1>3, <1>5, <1>6, <1>7 DEF SlotsInv

(* One turn moves on.                                                      *)
Orderly(c) ==
    /\ c.pc # "idle" => c.day # 0
    /\ c.pc \in {"idle", "admitted", "counted"} => ~c.granted
    /\ c.pc \in {"asking", "asked", "streaming"} \/ "refund" \in c.undo => c.granted
    /\ c.pc # "ending" => c.undo = {}

LEMMA OneTurn ==
    ASSUME TurnTypes, TurnsAreInOrder, NEW t \in Turns, NEW new \in Chats, turn' = [turn EXCEPT ![t] = new], Orderly(new)
    PROVE  /\ turn' \in [Turns -> Chats] /\ turn'[t] = new /\ \A s \in Turns : s # t => turn'[s] = turn[s]
           /\ TurnsAreInOrder'
           /\ Assistant!Holding' = IF new.pc \in {"idle", "over"} THEN Assistant!Holding \ {t}
                                   ELSE Assistant!Holding \union {t}
  <1>1. turn' \in [Turns -> Chats] /\ turn'[t] = new /\ \A s \in Turns : s # t => turn'[s] = turn[s]
    BY DEF TurnTypes
  <1>2. TurnsAreInOrder'
    <2> SUFFICES ASSUME NEW s \in Turns PROVE Orderly(turn'[s])
      BY DEF TurnsAreInOrder, Orderly
    <2>1. CASE s = t
      BY <1>1, <2>1
    <2>2. CASE s # t
      BY <1>1, <2>2 DEF TurnsAreInOrder, Orderly
    <2> QED
      BY <2>1, <2>2
  <1>3. Assistant!Holding' = IF new.pc \in {"idle", "over"} THEN Assistant!Holding \ {t}
                             ELSE Assistant!Holding \union {t}
    BY <1>1 DEF Assistant!Holding
  <1> QED
    BY <1>1, <1>2, <1>3

(* A turn moves on that keeps its slot, its unit and its grant.            *)
LEMMA QuietStep ==
    ASSUME Assistant!TurnAssumption, TurnInv, NEW t \in Turns, NEW new \in Chats,
           turn' = [turn EXCEPT ![t] = new], UNCHANGED <<today, total, perUser, usage>>, Orderly(new),
           turn[t].pc \notin {"idle", "over"}, new.pc \notin {"idle", "counted", "over"},
           new.granted = turn[t].granted, new.day = turn[t].day
    PROVE  TurnInv'
  <1>1. /\ turn' \in [Turns -> Chats] /\ turn'[t] = new /\ \A s \in Turns : s # t => turn'[s] = turn[s]
        /\ TurnsAreInOrder'
        /\ Assistant!Holding' = Assistant!Holding
    BY OneTurn DEF TurnInv, Assistant!Holding
  <1>2. QuotaInv'
    <2>1. \A s \in Turns :
            /\ Counted(s)' => Counted(s) /\ turn'[s].day = turn[s].day
            /\ turn'[s].granted => turn[s].granted
            /\ turn'[s].pc = "counted" => turn[s].pc = "counted" /\ turn'[s].calls = turn[s].calls
      BY <1>1 DEF Counted
    <2> QED
      BY <2>1, NoMoreIsCounted DEF TurnInv
  <1>3. SlotsInv'
    BY <1>1, NobodyComesOrGoes DEF TurnInv
  <1>4. TurnTypes'
    BY <1>1 DEF TurnInv, TurnTypes
  <1> QED
    BY <1>1, <1>2, <1>3, <1>4 DEF TurnInv

(* A turn ends, however: Release gives its slot back.                      *)
LEMMA ReleaseStep ==
    ASSUME Assistant!TurnAssumption, TurnInv, NEW t \in Turns, turn[t].pc \notin {"idle", "over"}, turn[t].undo = {},
           Assistant!Release(t), UNCHANGED <<today, usage>>
    PROVE  TurnInv'
  <1> DEFINE new == [turn[t] EXCEPT !.pc = "over"]
  <1>1. turn[t] \in Chats /\ turn[t].day # 0
    BY DEF TurnInv, TurnTypes, TurnsAreInOrder
  <1>2. new \in Chats /\ new.pc = "over" /\ new.granted = turn[t].granted /\ new.day = turn[t].day /\ new.undo = {}
    BY <1>1 DEF Chats
  <1>3. turn' = [turn EXCEPT ![t] = new]
    BY DEF Assistant!Release
  <1> HIDE DEF new
  <1>4. Orderly(new)
    BY <1>1, <1>2 DEF Orderly
  <1>5. /\ turn' \in [Turns -> Chats] /\ turn'[t] = new /\ \A s \in Turns : s # t => turn'[s] = turn[s]
        /\ TurnsAreInOrder'
        /\ Assistant!Holding' = Assistant!Holding \ {t}
    BY <1>2, <1>3, <1>4, OneTurn DEF TurnInv
  <1>6. \A s \in Turns :
          /\ Counted(s)' => Counted(s) /\ turn'[s].day = turn[s].day
          /\ turn'[s].granted => turn[s].granted
          /\ turn'[s].pc = "counted" => turn[s].pc = "counted" /\ turn'[s].calls = turn[s].calls
    BY <1>2, <1>5 DEF Counted
  <1>7. QuotaInv'
    BY <1>6, NoMoreIsCounted DEF TurnInv
  <1>8. t \in Assistant!Holding
    BY DEF Assistant!Holding
  <1>9. total' = total - 1 /\ perUser' = [perUser EXCEPT ![UserOf[t]] = @ - 1]
    BY DEF Assistant!Release
  <1>10. SlotsInv' /\ total' \in Nat /\ perUser' \in [Users -> Nat]
    BY <1>5, <1>8, <1>9, OneGoes DEF TurnInv
  <1>11. TurnTypes'
    BY <1>5, <1>10 DEF TurnInv, TurnTypes
  <1> QED
    BY <1>5, <1>7, <1>10, <1>11 DEF TurnInv

LEMMA AdmitStep ==
    ASSUME Assistant!TurnAssumption, TurnInv, NEW t \in Turns, Assistant!Admit(t)
    PROVE  TurnInv'
  <1> DEFINE new == [turn[t] EXCEPT !.pc = "admitted", !.day = today]
  <1>1. turn[t] \in Chats /\ turn[t].pc = "idle" /\ turn[t].granted = FALSE /\ turn[t].undo = {}
    BY DEF TurnInv, TurnTypes, TurnsAreInOrder, Chats, Assistant!Admit
  <1>2. today \in 1 .. Days /\ Days \in Nat /\ today # 0
    BY TurnConstants DEF TurnInv, TurnTypes
  <1>3. new \in Chats /\ new.pc = "admitted" /\ new.granted = FALSE /\ new.undo = {} /\ new.day = today
    <2>1. today \in 0 .. Days
      BY <1>2
    <2> QED
      BY <1>1, <2>1 DEF Chats
  <1>4. turn' = [turn EXCEPT ![t] = new]
    BY DEF Assistant!Admit
  <1> HIDE DEF new
  <1>5. Orderly(new)
    BY <1>2, <1>3 DEF Orderly
  <1>6. /\ turn' \in [Turns -> Chats] /\ turn'[t] = new /\ \A s \in Turns : s # t => turn'[s] = turn[s]
        /\ TurnsAreInOrder'
        /\ Assistant!Holding' = Assistant!Holding \union {t}
    BY <1>3, <1>4, <1>5, OneTurn DEF TurnInv
  <1>7. \A s \in Turns :
          /\ Counted(s)' => Counted(s) /\ turn'[s].day = turn[s].day
          /\ turn'[s].granted => turn[s].granted
          /\ turn'[s].pc = "counted" => turn[s].pc = "counted" /\ turn'[s].calls = turn[s].calls
    BY <1>3, <1>6 DEF Counted
  <1>8. usage' = usage /\ today' = today /\ total' = total + 1 /\ perUser' = [perUser EXCEPT ![UserOf[t]] = @ + 1]
    BY DEF Assistant!Admit
  <1>9. QuotaInv'
    BY <1>7, <1>8, NoMoreIsCounted DEF TurnInv
  <1>10. t \notin Assistant!Holding
    BY <1>1 DEF Assistant!Holding
  <1>11. SlotsInv' /\ total' \in Nat /\ perUser' \in [Users -> Nat]
    BY <1>6, <1>8, <1>10, OneComes DEF TurnInv
  <1>12. TurnTypes'
    BY <1>6, <1>8, <1>11 DEF TurnInv, TurnTypes
  <1> QED
    BY <1>6, <1>9, <1>11, <1>12 DEF TurnInv

(* Counting: the unit is in the usage as soon as the turn holds it, and    *)
(* who is told of no more than the limit is one of no more than that.      *)
LEMMA RecordUsageStep ==
    ASSUME Assistant!TurnAssumption, TurnInv, NEW t \in Turns, Assistant!RecordUsage(t)
    PROVE  TurnInv'
  <1> DEFINE d == turn[t].day
             u == UserOf[t]
             new == [turn[t] EXCEPT !.pc = "counted", !.calls = usage'[d][u]]
  <1>1. turn[t] \in Chats /\ turn[t].pc = "admitted" /\ turn[t].granted = FALSE /\ turn[t].undo = {} /\ d # 0
    BY DEF TurnInv, TurnTypes, TurnsAreInOrder, Chats, Assistant!RecordUsage
  <1>2. d \in 1 .. Days /\ u \in Users /\ usage \in [1 .. Days -> [Users -> Nat]] /\ Days \in Nat
    <2>1. d \in 0 .. Days
      BY <1>1 DEF Chats
    <2> QED
      BY <1>1, <2>1, TurnConstants DEF TurnInv, TurnTypes
  <1>3. usage' = IF Assistant!Metered THEN [usage EXCEPT ![d][u] = @ + 1] ELSE usage
    BY DEF Assistant!RecordUsage
  <1>4. UNCHANGED <<today, total, perUser>> /\ turn' = [turn EXCEPT ![t] = new]
    <2> DEFINE calls == usage'[d][u]
    <2>1. turn' = [turn EXCEPT ![t].pc = "counted", ![t].calls = calls]
      BY DEF Assistant!RecordUsage
    <2> HIDE DEF calls
    <2>2. turn' = [turn EXCEPT ![t] = [turn[t] EXCEPT !.pc = "counted", !.calls = calls]]
      BY <2>1 DEF TurnInv, TurnTypes
    <2>3. UNCHANGED <<today, total, perUser>>
      BY DEF Assistant!RecordUsage
    <2> QED
      BY <2>2, <2>3 DEF calls
  <1> HIDE DEF d, u
  <1>5. usage' \in [1 .. Days -> [Users -> Nat]]
    BY <1>2, <1>3
  <1>6. new \in Chats /\ new.pc = "counted" /\ new.granted = FALSE /\ new.undo = {} /\ new.day = d
        /\ new.calls = usage'[d][u]
    <2>1. usage'[d][u] \in Nat
      BY <1>2, <1>5
    <2> QED
      BY <1>1, <2>1 DEF Chats, d
  <1> HIDE DEF new
  <1>7. Orderly(new)
    BY <1>1, <1>6 DEF Orderly
  <1>8. /\ turn' \in [Turns -> Chats] /\ turn'[t] = new /\ \A s \in Turns : s # t => turn'[s] = turn[s]
        /\ TurnsAreInOrder'
        /\ Assistant!Holding' = Assistant!Holding \union {t}
    BY <1>4, <1>6, <1>7, OneTurn DEF TurnInv
  <1>9. SlotsInv'
    <2>1. t \in Assistant!Holding
      BY <1>1 DEF Assistant!Holding
    <2> QED
      BY <1>4, <1>8, <2>1, NobodyComesOrGoes DEF TurnInv
  <1>10. TurnTypes'
    BY <1>4, <1>5, <1>8 DEF TurnInv, TurnTypes
  <1>11. CASE ~Assistant!Metered
    <2>1. UserLimit = 0 /\ WorkspaceLimit = 0 /\ ~Assistant!Metered'
      BY <1>11, TurnConstants DEF Assistant!Metered
    <2>2. QuotaInv'
      BY <2>1 DEF QuotaInv
    <2> QED
      BY <1>8, <1>9, <1>10, <2>2 DEF TurnInv
  <1>12. CASE Assistant!Metered
    <2>1. ASSUME NEW e \in 1 .. Days, NEW w \in Users
          PROVE  /\ usage'[e][w] = IF e = d /\ w = u THEN usage[e][w] + 1 ELSE usage[e][w]
                 /\ Units(e, w)' = IF e = d /\ w = u THEN Units(e, w) \union {t} ELSE Units(e, w)
                 /\ t \notin Units(e, w) /\ t \notin Within(e, w)
                 /\ Within(e, w)' = IF e = d /\ w = u /\ usage'[d][u] <= UserLimit THEN Within(e, w) \union {t}
                                    ELSE Within(e, w)
      <3>1. usage'[e][w] = IF e = d /\ w = u THEN usage[e][w] + 1 ELSE usage[e][w]
        BY <1>2, <1>3, <1>12
      <3>2. \A s \in Turns : Counted(s)' <=> s = t \/ Counted(s)
        BY <1>6, <1>8 DEF Counted
      <3>3. ~Counted(t) /\ turn'[t].day = d /\ u = UserOf[t]
        BY <1>1, <1>6, <1>8 DEF Counted, u
      <3>4. Units(e, w)' = IF e = d /\ w = u THEN Units(e, w) \union {t} ELSE Units(e, w)
        BY <1>8, <3>2, <3>3 DEF Units
      <3>5. t \notin Units(e, w) /\ t \notin Within(e, w)
        BY <1>1 DEF Units, Within, Counted
      <3>6. Within(e, w)' = IF e = d /\ w = u /\ usage'[d][u] <= UserLimit THEN Within(e, w) \union {t}
                            ELSE Within(e, w)
        BY <1>1, <1>6, <1>8, <3>3 DEF Within
      <3> QED
        BY <3>1, <3>4, <3>5, <3>6
    <2>2. ASSUME NEW e \in 1 .. Days, NEW w \in Users
          PROVE  /\ Cardinality(Units(e, w)) \in Nat /\ Cardinality(Within(e, w)) \in Nat
                 /\ IsFiniteSet(Units(e, w)) /\ IsFiniteSet(Within(e, w))
                 /\ Cardinality(Within(e, w)) <= Cardinality(Units(e, w))
                 /\ Cardinality(Units(e, w)) <= usage[e][w] /\ usage[e][w] \in Nat
      <3>1. Units(e, w) \in SUBSET Turns /\ Within(e, w) \in SUBSET Units(e, w) /\ Within(e, w) \in SUBSET Turns
        BY DEF Units, Within, Counted
      <3>2. IsFiniteSet(Units(e, w)) /\ IsFiniteSet(Within(e, w))
            /\ Cardinality(Units(e, w)) \in Nat /\ Cardinality(Within(e, w)) \in Nat
        BY <3>1, TurnConstants, PartsAreFinite
      <3>3. Cardinality(Within(e, w)) <= Cardinality(Units(e, w))
        BY <3>1, <3>2, FS_Subset
      <3>4. Cardinality(Units(e, w)) <= usage[e][w] /\ usage[e][w] \in Nat
        BY <1>2, <1>12 DEF TurnInv, QuotaInv
      <3> QED
        BY <3>2, <3>3, <3>4
    <2>3. ASSUME NEW e \in 1 .. Days, NEW w \in Users
          PROVE  (Cardinality(Units(e, w)) <= usage[e][w])'
      <3>1. Cardinality(Units(e, w) \union {t}) = Cardinality(Units(e, w)) + 1
        BY <2>1, <2>2, FS_AddElement
      <3>2. CASE e = d /\ w = u
        <4>1. Cardinality(Units(e, w)') = Cardinality(Units(e, w)) + 1 /\ usage'[e][w] = usage[e][w] + 1
          BY <2>1, <3>1, <3>2
        <4> QED
          BY <2>2, <4>1
      <3>3. CASE ~(e = d /\ w = u)
        <4>1. Units(e, w)' = Units(e, w) /\ usage'[e][w] = usage[e][w]
          BY <2>1, <3>3
        <4> QED
          BY <2>2, <4>1
      <3> QED
        BY <3>2, <3>3
    <2>4. ASSUME UserLimit > 0, NEW e \in 1 .. Days, NEW w \in Users
          PROVE  (Cardinality(Within(e, w)) <= UserLimit)'
      <3>1. Cardinality(Within(e, w) \union {t}) = Cardinality(Within(e, w)) + 1
        BY <2>1, <2>2, FS_AddElement
      <3>2. Cardinality(Within(e, w)) <= UserLimit /\ UserLimit \in Nat
        BY <2>4, TurnConstants DEF TurnInv, QuotaInv
      <3>3. CASE e = d /\ w = u /\ usage'[d][u] <= UserLimit
        <4>1. usage[e][w] + 1 <= UserLimit
          BY <2>1, <3>3
        <4>2. Cardinality(Within(e, w)') = Cardinality(Within(e, w)) + 1
          BY <2>1, <3>1, <3>3
        <4> QED
          BY <2>2, <3>2, <4>1, <4>2
      <3>4. CASE ~(e = d /\ w = u /\ usage'[d][u] <= UserLimit)
        <4>1. Within(e, w)' = Within(e, w)
          BY <2>1, <3>4
        <4> QED
          BY <3>2, <4>1
      <3> QED
        BY <3>3, <3>4
    <2>5. \A e : Assistant!Granted(e)' = Assistant!Granted(e)
      BY <1>1, <1>6, <1>8 DEF Assistant!Granted
    <2>6. QuotaInv'
      BY <2>3, <2>4, <2>5 DEF TurnInv, QuotaInv
    <2> QED
      BY <1>8, <1>9, <1>10, <2>6 DEF TurnInv
  <1> QED
    BY <1>11, <1>12

(* A turn is granted when the sum is within the limit, and everything that *)
(* was granted before is in the sum.                                       *)
LEMMA CheckQuotaStep ==
    ASSUME Assistant!TurnAssumption, TurnInv, NEW t \in Turns, Assistant!CheckQuota(t)
    PROVE  TurnInv'
  <1>0. turn[t] \in Chats /\ turn[t].pc = "counted" /\ turn[t].granted = FALSE /\ turn[t].undo = {} /\ turn[t].day # 0
    BY DEF TurnInv, TurnTypes, TurnsAreInOrder, Chats, Assistant!CheckQuota
  <1>1. CASE Assistant!OverQuota(t)
    BY <1>0, <1>1, ReleaseStep DEF Assistant!CheckQuota
  <1>2. CASE ~Assistant!OverQuota(t)
    <2> DEFINE new == [turn[t] EXCEPT !.pc = "asking", !.granted = TRUE]
    <2>1. turn' = [turn EXCEPT ![t] = new] /\ UNCHANGED <<today, total, perUser, usage>>
      BY <1>2 DEF Assistant!CheckQuota
    <2>2. new \in Chats /\ new.pc = "asking" /\ new.granted = TRUE /\ new.day = turn[t].day /\ new.undo = {}
      BY <1>0 DEF Chats
    <2> HIDE DEF new
    <2>3. Orderly(new)
      BY <1>0, <2>2 DEF Orderly
    <2>4. /\ turn' \in [Turns -> Chats] /\ turn'[t] = new /\ \A s \in Turns : s # t => turn'[s] = turn[s]
          /\ TurnsAreInOrder'
          /\ Assistant!Holding' = Assistant!Holding \union {t}
      BY <2>1, <2>2, <2>3, OneTurn DEF TurnInv
    <2>5. SlotsInv'
      <3>1. t \in Assistant!Holding
        BY <1>0 DEF Assistant!Holding
      <3> QED
        BY <2>1, <2>4, <3>1, NobodyComesOrGoes DEF TurnInv
    <2>6. TurnTypes'
      BY <2>1, <2>4 DEF TurnInv, TurnTypes
    <2>7. \A d, u : Units(d, u)' = Units(d, u)
      <3>1. \A s \in Turns : (Counted(s)' <=> Counted(s)) /\ turn'[s].day = turn[s].day
        BY <1>0, <2>2, <2>4 DEF Counted
      <3> QED
        BY <3>1 DEF Units
    <2>8. Assistant!Metered => \A d \in 1 .. Days, u \in Users : (Cardinality(Units(d, u)) <= usage[d][u])'
      BY <2>1, <2>7 DEF TurnInv, QuotaInv
    <2>9. UserLimit > 0 => \A d \in 1 .. Days, u \in Users : (Cardinality(Within(d, u)) <= UserLimit)'
      <3> SUFFICES ASSUME UserLimit > 0 PROVE \A d \in 1 .. Days, u \in Users : (Cardinality(Within(d, u)) <= UserLimit)'
        OBVIOUS
      <3>1. turn[t].calls <= UserLimit
        <4>1. ~(turn[t].calls > UserLimit) /\ turn[t].calls \in Nat /\ UserLimit \in Nat
          BY <1>0, <1>2, TurnConstants DEF Assistant!OverQuota, Chats
        <4> QED
          BY <4>1
      <3>2. \A d, u : Within(d, u)' = Within(d, u)
        BY <1>0, <2>2, <2>4, <3>1 DEF Within
      <3> QED
        BY <3>2 DEF TurnInv, QuotaInv
    <2>10. ASSUME WorkspaceLimit > 0, NEW d \in 1 .. Days
           PROVE  (Cardinality(Assistant!Granted(d)) <= WorkspaceLimit)'
      <3>1. CASE d # turn[t].day
        <4>1. Assistant!Granted(d)' = Assistant!Granted(d)
          BY <2>2, <2>4, <3>1 DEF Assistant!Granted
        <4> QED
          BY <2>10, <4>1 DEF TurnInv, QuotaInv
      <3>2. CASE d = turn[t].day
        <4> DEFINE All == {s \in Turns : Counted(s) /\ turn[s].day = d}
                   own == [s \in All |-> UserOf[s]]
        <4>1. IsFiniteSet(Users) /\ IsFiniteSet(Turns) /\ WorkspaceLimit \in Nat /\ UserOf \in [Turns -> Users]
          BY TurnConstants
        <4>2. IsFiniteSet(All) /\ Cardinality(All) \in Nat
          BY <4>1, PartsAreFinite
        <4>3. own \in [All -> Users]
          BY <4>1
        <4>4. \A u \in Users : {s \in All : own[s] = u} = Units(d, u)
          BY DEF Units
        <4>5. Assistant!Granted(d)' \subseteq All
          BY <1>0, <2>2, <2>4 DEF Assistant!Granted, Counted
        <4> HIDE DEF All, own
        <4>6. usage[d] \in [Users -> Nat] /\ \A u \in Users : Cardinality(Units(d, u)) <= usage[d][u]
          BY <2>10 DEF TurnInv, TurnTypes, QuotaInv, Assistant!Metered
        <4>7. Sum(usage[d], Users) \in Nat /\ Cardinality(All) <= Sum(usage[d], Users)
          BY <4>1, <4>2, <4>3, <4>4, <4>6, SumCovers
        <4>8. ~(Sum(usage[d], Users) > WorkspaceLimit)
          BY <1>2, <2>10, <3>2, WorkspaceSum DEF Assistant!OverQuota
        <4>9. Cardinality(Assistant!Granted(d)') \in Nat /\ Cardinality(Assistant!Granted(d)') <= Cardinality(All)
          BY <4>2, <4>5, FS_Subset, FS_CardinalityType
        <4> QED
          BY <4>1, <4>2, <4>7, <4>8, <4>9
      <3> QED
        BY <3>1, <3>2
    <2>11. QuotaInv'
      BY <2>8, <2>9, <2>10 DEF QuotaInv, Assistant!Metered
    <2> QED
      BY <2>4, <2>5, <2>6, <2>11 DEF TurnInv
  <1> QED
    BY <1>1, <1>2

(* A refund takes back the unit of a turn that is no longer granted.       *)
LEMMA RefundStep ==
    ASSUME Assistant!TurnAssumption, TurnInv, NEW t \in Turns, Assistant!Refund(t)
    PROVE  TurnInv'
  <1> DEFINE d == turn[t].day
             u == UserOf[t]
             new == [turn[t] EXCEPT !.undo = @ \ {"refund"}, !.granted = FALSE]
  <1>1. turn[t] \in Chats /\ turn[t].pc = "ending" /\ "refund" \in turn[t].undo
    BY DEF TurnInv, TurnTypes, Assistant!Refund
  <1>2. turn[t].granted /\ d # 0
    BY <1>1 DEF TurnInv, TurnsAreInOrder
  <1>3. d \in 1 .. Days /\ u \in Users /\ usage \in [1 .. Days -> [Users -> Nat]] /\ Days \in Nat
    <2>1. d \in 0 .. Days
      BY <1>1 DEF Chats
    <2> QED
      BY <1>2, <2>1, TurnConstants DEF TurnInv, TurnTypes
  <1>4. usage' = IF Assistant!Metered THEN [usage EXCEPT ![d][u] = Assistant!Less(@)] ELSE usage
    BY DEF Assistant!Refund, Assistant!RefundDay
  <1>5. UNCHANGED <<today, total, perUser>> /\ turn' = [turn EXCEPT ![t] = new]
    BY DEF Assistant!Refund, TurnInv, TurnTypes
  <1>6. new \in Chats /\ new.pc = "ending" /\ new.granted = FALSE /\ new.day = d /\ new.undo = turn[t].undo \ {"refund"}
    BY <1>1 DEF Chats
  <1> HIDE DEF d, u, new
  <1>7. \A k \in Nat : Assistant!Less(k) \in Nat
    BY DEF Assistant!Less
  <1>8. usage' \in [1 .. Days -> [Users -> Nat]]
    BY <1>3, <1>4, <1>7
  <1>9. Orderly(new)
    BY <1>2, <1>6 DEF Orderly
  <1>10. /\ turn' \in [Turns -> Chats] /\ turn'[t] = new /\ \A s \in Turns : s # t => turn'[s] = turn[s]
         /\ TurnsAreInOrder'
         /\ Assistant!Holding' = Assistant!Holding \union {t}
    BY <1>5, <1>6, <1>9, OneTurn DEF TurnInv
  <1>11. SlotsInv'
    <2>1. t \in Assistant!Holding
      BY <1>1 DEF Assistant!Holding
    <2> QED
      BY <1>5, <1>10, <2>1, NobodyComesOrGoes DEF TurnInv
  <1>12. TurnTypes'
    BY <1>5, <1>8, <1>10 DEF TurnInv, TurnTypes
  <1>13. \A e, w : Units(e, w)' = IF e = d /\ w = u THEN Units(e, w) \ {t} ELSE Units(e, w)
    <2> TAKE e, w
    <2>1. ~Counted(t)' /\ Counted(t) /\ turn[t].day = d /\ u = UserOf[t]
      BY <1>2, <1>6, <1>10 DEF Counted, d, u
    <2>2. \A s \in Turns : s # t => (Counted(s)' <=> Counted(s)) /\ turn'[s].day = turn[s].day
      BY <1>10 DEF Counted
    <2> QED
      BY <2>1, <2>2 DEF Units
  <1>14. \A e, w : Within(e, w)' \subseteq Within(e, w) /\ Assistant!Granted(e)' \subseteq Assistant!Granted(e)
    BY <1>6, <1>10 DEF Within, Assistant!Granted
  <1>15. ASSUME NEW e, NEW w
         PROVE  /\ IsFiniteSet(Units(e, w)) /\ Cardinality(Units(e, w)) \in Nat /\ Cardinality(Units(e, w)') \in Nat
                /\ Cardinality(Within(e, w)) \in Nat /\ Cardinality(Within(e, w)') \in Nat
                /\ Cardinality(Within(e, w)') <= Cardinality(Within(e, w))
                /\ Cardinality(Assistant!Granted(e)) \in Nat /\ Cardinality(Assistant!Granted(e)') \in Nat
                /\ Cardinality(Assistant!Granted(e)') <= Cardinality(Assistant!Granted(e))
    <2>1. /\ Units(e, w) \in SUBSET Turns /\ Units(e, w)' \in SUBSET Turns
          /\ Within(e, w) \in SUBSET Turns /\ Within(e, w)' \in SUBSET Turns
          /\ Assistant!Granted(e) \in SUBSET Turns /\ Assistant!Granted(e)' \in SUBSET Turns
      BY DEF Units, Within, Assistant!Granted
    <2> QED
      BY <1>14, <2>1, TurnConstants, PartsAreFinite, FS_Subset
  <1>16. ASSUME Assistant!Metered, NEW e \in 1 .. Days, NEW w \in Users
         PROVE  (Cardinality(Units(e, w)) <= usage[e][w])'
    <2>1. Cardinality(Units(e, w)) <= usage[e][w] /\ usage[e][w] \in Nat
      BY <1>3, <1>16 DEF TurnInv, QuotaInv
    <2>2. CASE e = d /\ w = u
      <3>1. Units(e, w)' = Units(e, w) \ {t} /\ t \in Units(e, w)
        BY <1>2, <1>13, <2>2 DEF Units, Counted, d, u
      <3>2. Cardinality(Units(e, w)') = Cardinality(Units(e, w)) - 1
        BY <1>15, <3>1, FS_RemoveElement
      <3>3. usage'[e][w] = Assistant!Less(usage[e][w])
        BY <1>3, <1>4, <1>16, <2>2
      <3>4. usage'[e][w] = usage[e][w] - 1
        BY <1>15, <2>1, <3>2, <3>3 DEF Assistant!Less
      <3> QED
        BY <1>15, <2>1, <3>2, <3>4
    <2>3. CASE ~(e = d /\ w = u)
      <3>1. Units(e, w)' = Units(e, w) /\ usage'[e][w] = usage[e][w]
        BY <1>3, <1>4, <1>13, <2>3
      <3> QED
        BY <2>1, <3>1
    <2> QED
      BY <2>2, <2>3
  <1>17. ASSUME UserLimit > 0, NEW e \in 1 .. Days, NEW w \in Users
         PROVE  (Cardinality(Within(e, w)) <= UserLimit)'
    <2>1. Cardinality(Within(e, w)) <= UserLimit /\ UserLimit \in Nat
      BY <1>17, TurnConstants DEF TurnInv, QuotaInv
    <2> QED
      BY <1>15, <2>1
  <1>18. ASSUME WorkspaceLimit > 0, NEW e \in 1 .. Days
         PROVE  (Cardinality(Assistant!Granted(e)) <= WorkspaceLimit)'
    <2>1. Cardinality(Assistant!Granted(e)) <= WorkspaceLimit /\ WorkspaceLimit \in Nat
      BY <1>18, TurnConstants DEF TurnInv, QuotaInv
    <2> QED
      BY <1>15, <2>1
  <1>19. QuotaInv'
    BY <1>16, <1>17, <1>18 DEF QuotaInv, Assistant!Metered
  <1> QED
    BY <1>10, <1>11, <1>12, <1>19 DEF TurnInv

(* The steps that touch neither a slot nor a unit.                         *)
LEMMA QuietSteps ==
    ASSUME Assistant!TurnAssumption, TurnInv, NEW t \in Turns,
           \/ Assistant!StoreQuestion(t) \/ Assistant!ReadHistory(t) \/ Assistant!Delta(t) \/ Assistant!Done(t)
           \/ Assistant!Break(t) \/ Assistant!InternalError(t) \/ Assistant!DeleteQuestion(t)
           \/ \E step \in {"refund", "delete"} : Assistant!FailToUndo(t, step)
    PROVE  TurnInv'
  <1>1. turn[t] \in Chats /\ Orderly(turn[t]) /\ turn \in [Turns -> Chats]
    BY DEF TurnInv, TurnTypes, TurnsAreInOrder, Orderly
  <1>2. ASSUME NEW new \in Chats, turn' = [turn EXCEPT ![t] = new], UNCHANGED <<today, total, perUser, usage>>,
               Orderly(new), turn[t].pc \notin {"idle", "over"}, new.pc \notin {"idle", "counted", "over"},
               new.granted = turn[t].granted, new.day = turn[t].day
        PROVE  TurnInv'
    BY <1>2, QuietStep
  <1>3. CASE Assistant!StoreQuestion(t) \/ Assistant!ReadHistory(t)
    <2> DEFINE new == [turn[t] EXCEPT !.pc = IF turn[t].pc = "asking" THEN "asked" ELSE "streaming"]
    <2>1. turn[t].pc \in {"asking", "asked"} /\ turn' = [turn EXCEPT ![t] = new] /\ UNCHANGED <<today, total, perUser, usage>>
      BY <1>3 DEF Assistant!StoreQuestion, Assistant!ReadHistory
    <2>2. /\ new \in Chats /\ new.pc \in {"asked", "streaming"} /\ new.granted = turn[t].granted
          /\ new.day = turn[t].day /\ new.undo = turn[t].undo
      BY <1>1 DEF Chats
    <2> HIDE DEF new
    <2>3. Orderly(new)
      BY <1>1, <2>1, <2>2 DEF Orderly
    <2> QED
      BY <1>2, <2>1, <2>2, <2>3
  <1>4. CASE Assistant!Delta(t)
    <2> DEFINE new == [turn[t] EXCEPT !.streamed = TRUE]
    <2>1. turn[t].pc = "streaming" /\ turn' = [turn EXCEPT ![t] = new] /\ UNCHANGED <<today, total, perUser, usage>>
      BY <1>4 DEF Assistant!Delta
    <2>2. /\ new \in Chats /\ new.pc = turn[t].pc /\ new.granted = turn[t].granted
          /\ new.day = turn[t].day /\ new.undo = turn[t].undo
      BY <1>1 DEF Chats
    <2> HIDE DEF new
    <2>3. Orderly(new)
      BY <1>1, <2>1, <2>2 DEF Orderly
    <2> QED
      BY <1>2, <2>1, <2>2, <2>3
  <1>5. CASE Assistant!Done(t) \/ Assistant!InternalError(t)
    <2> DEFINE new == [turn[t] EXCEPT !.pc = "ending"]
    <2>1. turn[t].pc = "streaming" /\ turn' = [turn EXCEPT ![t] = new] /\ UNCHANGED <<today, total, perUser, usage>>
      BY <1>5 DEF Assistant!Done, Assistant!InternalError
    <2>2. /\ new \in Chats /\ new.pc = "ending" /\ new.granted = turn[t].granted
          /\ new.day = turn[t].day /\ new.undo = turn[t].undo
      BY <1>1 DEF Chats
    <2> HIDE DEF new
    <2>3. Orderly(new)
      BY <1>1, <2>1, <2>2 DEF Orderly
    <2> QED
      BY <1>2, <2>1, <2>2, <2>3
  <1>6. CASE Assistant!Break(t)
    <2> DEFINE undo == Assistant!ToUndo(t)
               new == [turn[t] EXCEPT !.pc = "ending", !.undo = undo]
    <2>1. turn[t].pc = "streaming" /\ turn' = [turn EXCEPT ![t] = new] /\ UNCHANGED <<today, total, perUser, usage>>
      BY <1>6 DEF Assistant!Break
    <2>2. undo \in SUBSET {"refund", "delete"}
      BY DEF Assistant!ToUndo
    <2> HIDE DEF undo
    <2>3. /\ new \in Chats /\ new.pc = "ending" /\ new.granted = turn[t].granted /\ new.day = turn[t].day
      BY <1>1, <2>2 DEF Chats
    <2> HIDE DEF new
    <2>4. Orderly(new)
      BY <1>1, <2>1, <2>3 DEF Orderly
    <2> QED
      BY <1>2, <2>1, <2>3, <2>4
  <1>7. ASSUME Assistant!DeleteQuestion(t) \/ \E step \in {"refund", "delete"} : Assistant!FailToUndo(t, step)
        PROVE  TurnInv'
    <2>1. PICK step \in {"refund", "delete"} : turn' = [turn EXCEPT ![t].undo = @ \ {step}]
      BY <1>7 DEF Assistant!DeleteQuestion, Assistant!FailToUndo
    <2> DEFINE new == [turn[t] EXCEPT !.undo = @ \ {step}]
    <2>2. turn[t].pc = "ending" /\ UNCHANGED <<today, total, perUser, usage>>
      BY <1>7 DEF Assistant!DeleteQuestion, Assistant!FailToUndo
    <2>3. turn' = [turn EXCEPT ![t] = new]
      BY <2>1
    <2>4. /\ new \in Chats /\ new.pc = "ending" /\ new.granted = turn[t].granted
          /\ new.day = turn[t].day /\ new.undo \subseteq turn[t].undo
      BY <1>1, <2>2 DEF Chats
    <2> HIDE DEF new
    <2>5. Orderly(new)
      BY <1>1, <2>2, <2>4 DEF Orderly
    <2> QED
      BY <1>2, <2>2, <2>3, <2>4, <2>5
  <1> QED
    BY <1>3, <1>4, <1>5, <1>6, <1>7

LEMMA CrashStep ==
    ASSUME Assistant!TurnAssumption, TurnInv, Assistant!Crash
    PROVE  TurnInv'
  <1> DEFINE after(s) == [turn[s] EXCEPT !.pc = "over", !.undo = {}]
  <1>1. \A s \in Turns : turn[s] \in Chats /\ Orderly(turn[s])
    BY DEF TurnInv, TurnTypes, TurnsAreInOrder, Orderly
  <1>2. turn' = [s \in Turns |-> IF s \in Assistant!Holding THEN after(s) ELSE turn[s]]
    BY DEF Assistant!Crash
  <1>3. \A s \in Turns : /\ after(s) \in Chats /\ after(s).pc = "over" /\ after(s).undo = {}
                         /\ after(s).granted = turn[s].granted /\ after(s).day = turn[s].day
    BY <1>1 DEF Chats
  <1> HIDE DEF after
  <1>4. turn' \in [Turns -> Chats]
    BY <1>1, <1>2, <1>3
  <1>5. \A s \in Turns : s \in Assistant!Holding <=> turn[s].pc \notin {"idle", "over"}
    BY DEF Assistant!Holding
  <1>6. TurnsAreInOrder'
    <2> SUFFICES ASSUME NEW s \in Turns PROVE Orderly(turn'[s])
      BY DEF TurnsAreInOrder, Orderly
    <2>1. CASE s \in Assistant!Holding
      BY <1>1, <1>2, <1>3, <1>5, <2>1 DEF Orderly
    <2>2. CASE s \notin Assistant!Holding
      BY <1>1, <1>2, <2>2
    <2> QED
      BY <2>1, <2>2
  <1>7. UNCHANGED <<today, usage>> /\ total' = 0 /\ perUser' = [u \in Users |-> 0]
    BY DEF Assistant!Crash
  <1>8. Assistant!Holding' = {} /\ \A u : Held(u)' = {}
    BY <1>2, <1>3, <1>5 DEF Assistant!Holding, Held
  <1>9. SlotsInv'
    BY <1>7, <1>8, FS_EmptySet DEF SlotsInv
  <1>10. \A s \in Turns :
           /\ Counted(s)' => Counted(s) /\ turn'[s].day = turn[s].day
           /\ turn'[s].granted => turn[s].granted
           /\ turn'[s].pc = "counted" => turn[s].pc = "counted" /\ turn'[s].calls = turn[s].calls
    BY <1>2, <1>3 DEF Counted
  <1>11. QuotaInv'
    BY <1>7, <1>10, NoMoreIsCounted DEF TurnInv
  <1>12. TurnTypes'
    BY <1>4, <1>7 DEF TurnInv, TurnTypes
  <1> QED
    BY <1>6, <1>9, <1>11, <1>12 DEF TurnInv

LEMMA TurnStep ==
    ASSUME Assistant!TurnAssumption, TurnInv, [Assistant!Next]_(Assistant!vars)
    PROVE  TurnInv'
  <1>1. ASSUME NEW t \in Turns, Assistant!Leave(t) \/ Assistant!End(t) \/ Assistant!FailBeforeStream(t) PROVE TurnInv'
    <2>1. turn[t].pc \notin {"idle", "over"} /\ Assistant!Release(t) /\ UNCHANGED <<today, usage>>
      BY <1>1 DEF Assistant!Leave, Assistant!End, Assistant!FailBeforeStream, Assistant!Finished
    <2>2. turn[t].undo = {}
      BY <1>1 DEF Assistant!Leave, Assistant!End, Assistant!FailBeforeStream, Assistant!Finished,
                  TurnInv, TurnsAreInOrder
    <2> QED
      BY <2>1, <2>2, ReleaseStep
  <1>2. CASE Assistant!Midnight
    <2>1. UNCHANGED <<turn, total, perUser, usage>> /\ today' \in 1 .. Days
      BY <1>2, TurnConstants DEF Assistant!Midnight, TurnInv, TurnTypes
    <2> QED
      BY <2>1 DEF TurnInv, TurnTypes, TurnsAreInOrder, SlotsInv, QuotaInv, Held, Units, Within, Counted,
                  Assistant!Holding, Assistant!Granted, Assistant!Metered
  <1>3. CASE UNCHANGED Assistant!vars
    BY <1>3 DEF Assistant!vars, TurnInv, TurnTypes, TurnsAreInOrder, SlotsInv, QuotaInv, Held, Units, Within, Counted,
                Assistant!Holding, Assistant!Granted, Assistant!Metered
  <1> QED
    BY <1>1, <1>2, <1>3, AdmitStep, RecordUsageStep, CheckQuotaStep, RefundStep, QuietSteps, CrashStep
       DEF Assistant!Next

LEMMA TurnIsKept == Spec => [](service = "assistant" => TurnInv)
  <1>1. Init => (service = "assistant" => TurnInv)
    BY ServicesAssumption, TurnInit DEF Init
  <1>2. (service = "assistant" => TurnInv) /\ [Next]_vars => (service = "assistant" => TurnInv)'
    <2> SUFFICES ASSUME service = "assistant" => TurnInv, [Next]_vars, service' = "assistant" PROVE TurnInv'
      OBVIOUS
    <2>1. service = "assistant" /\ [Assistant!Next]_(Assistant!vars)
      BY DEF Next, vars, ClientsOnly, AssistantOnly, Assistant!vars
    <2> QED
      BY <2>1, ServicesAssumption, TurnStep
  <1> QED
    BY <1>1, <1>2, PTL DEF Spec

(* The admission counters are the turns in work: no way out of chat()      *)
(* leaks a slot or gives one back twice, also not a crash.                 *)
THEOREM SlotsAreCounted == Spec => []SlotsAreTurns
  <1>1. (service = "assistant" => TurnInv) => SlotsAreTurns
    BY SameCardinality DEF TurnInv, SlotsInv, Held, SlotsAreTurns, Assistant!SlotsAreTurns
  <1> QED
    BY <1>1, TurnIsKept, PTL

(* Who was granted is within the limits.                                   *)
LEMMA QuotaIsWithin == ASSUME Assistant!TurnAssumption, TurnInv PROVE Assistant!QuotaHolds
  <1>1. ASSUME UserLimit > 0, NEW d \in 1 .. Days, NEW u \in Users
        PROVE  Cardinality({t \in Assistant!Granted(d) : UserOf[t] = u}) <= UserLimit
    <2>1. {t \in Assistant!Granted(d) : UserOf[t] = u} \in SUBSET Within(d, u)
      BY DEF Assistant!Granted, Within
    <2>2. Within(d, u) \in SUBSET Turns
      BY DEF Within
    <2>3. IsFiniteSet(Within(d, u)) /\ Cardinality(Within(d, u)) \in Nat
      BY <2>2, TurnConstants, PartsAreFinite
    <2>4. Cardinality({t \in Assistant!Granted(d) : UserOf[t] = u}) <= Cardinality(Within(d, u))
          /\ Cardinality({t \in Assistant!Granted(d) : UserOf[t] = u}) \in Nat
      BY <2>1, <2>3, FS_Subset, FS_CardinalityType
    <2>5. Cardinality(Within(d, u)) <= UserLimit /\ UserLimit \in Nat
      BY <1>1, TurnConstants DEF TurnInv, QuotaInv
    <2> QED
      BY <2>3, <2>4, <2>5
  <1>2. ASSUME WorkspaceLimit > 0, NEW d \in 1 .. Days
        PROVE  Cardinality(Assistant!Granted(d)) <= WorkspaceLimit
    BY <1>2 DEF TurnInv, QuotaInv
  <1> QED
    BY <1>1, <1>2, SameCardinality DEF Assistant!QuotaHolds

(* The turns that may have reached the provider for a day stay within the  *)
(* limits of their user and of the workspace, for any number of turns that *)
(* count at once, fail, are refunded late or die with the process.         *)
THEOREM QuotaIsKept == Spec => []QuotaHolds
  <1>1. (service = "assistant" => TurnInv) => QuotaHolds
    BY ServicesAssumption, QuotaIsWithin DEF QuotaHolds
  <1> QED
    BY <1>1, TurnIsKept, PTL

-----------------------------------------------------------------------------
(* The outbox publisher: what bounds its sleep holds from the end of one   *)
(* poll to the next, also over a tick that does not poll.                  *)
OutboxTypes ==
    /\ backoff \in [delay : Int, left : Int]
    /\ wall \in Int
    /\ pc \in {"due", "poll", "idle", "slept"}
    /\ row \in Nat \union {NoRow}

OutboxInv ==
    /\ OutboxTypes
    /\ pc \in {"slept", "due"} /\ row # NoRow /\ known /\ ~signal =>
          backoff.left <= Outbox!Larger(row, Outbox!Larger(OutboxBase, OutboxErrorCeiling))

LEMMA OutboxConstants ==
    ASSUME Outbox!PollingAssumption
    PROVE  /\ OutboxBase \in Nat \ {0} /\ OutboxMax \in Nat \ {0} /\ OutboxRampCeiling \in Nat \ {0} /\ OutboxErrorCeiling \in Nat \ {0}
           /\ OutboxJitter \in Nat /\ OutboxDelays \subseteq Nat \ {0} /\ NoRow \notin Nat
  BY DEF Outbox!PollingAssumption, Outbox!BackoffAssumption

LEMMA OutboxErrors ==
    ASSUME Outbox!PollingAssumption, NEW b \in [delay : Int, left : Int]
    PROVE  /\ Outbox!RecordError(b) \in [delay : Int, left : Int]
           /\ Outbox!RecordError(b).left <= Outbox!Larger(OutboxBase, OutboxErrorCeiling)
  BY OutboxConstants DEF Outbox!RecordError, Outbox!Larger, Outbox!Smaller

LEMMA OutboxIdles ==
    ASSUME Outbox!PollingAssumption, NEW b \in [delay : Int, left : Int], wall \in Int, NEW due \in Nat
    PROVE  /\ Outbox!RecordIdle(b, wall) \in [delay : Int, left : Int]
           /\ Outbox!RecordIdleUntil(b, wall, due) \in [delay : Int, left : Int]
           /\ Outbox!RecordIdleUntil(b, wall, due).left <= Outbox!Larger(due, Outbox!Larger(OutboxBase, OutboxErrorCeiling))
  <1>1. Outbox!AlignedDelay(wall) \in Int
    BY OutboxConstants DEF Outbox!AlignedDelay
  <1> QED
    BY <1>1, OutboxConstants DEF Outbox!RecordIdle, Outbox!RecordIdleUntil, Outbox!Larger, Outbox!Smaller

LEMMA OutboxStep ==
    ASSUME Outbox!PollingAssumption, OutboxInv, [Outbox!Next]_(Outbox!vars)
    PROVE  OutboxInv'
  <1>0. /\ OutboxBase \in Nat \ {0} /\ OutboxMax \in Nat \ {0} /\ OutboxRampCeiling \in Nat \ {0} /\ OutboxErrorCeiling \in Nat \ {0}
        /\ OutboxJitter \in Nat /\ OutboxDelays \subseteq Nat \ {0} /\ NoRow \notin Nat
    BY OutboxConstants
  <1>1. backoff \in [delay : Int, left : Int] /\ wall \in Int /\ row \in Nat \union {NoRow}
    BY DEF OutboxInv, OutboxTypes
  <1> DEFINE Asleep == pc \in {"slept", "due"} /\ row # NoRow /\ known /\ ~signal
             Bounded == backoff.left <= Outbox!Larger(row, Outbox!Larger(OutboxBase, OutboxErrorCeiling))
  <1>2. Asleep => Bounded
    BY DEF OutboxInv
  <1>3. (OutboxTypes /\ (Asleep => Bounded))' => OutboxInv'
    BY DEF OutboxInv
  <1>a. CASE Outbox!CommitHere \/ Outbox!CommitElsewhere
    <2>1. UNCHANGED <<backoff, wall, pc>> /\ row' = 0 /\ known' = FALSE
      BY <1>a DEF Outbox!CommitHere, Outbox!CommitElsewhere
    <2> QED
      BY <1>3, <2>1 DEF OutboxInv, OutboxTypes
  <1>b. CASE Outbox!RaiseSignal
    <2>1. UNCHANGED <<backoff, wall, pc, row>> /\ signal' = TRUE
      BY <1>b DEF Outbox!RaiseSignal
    <2> QED
      BY <1>3, <2>1 DEF OutboxInv, OutboxTypes
  <1>c. CASE Outbox!Tick
    <2>1. UNCHANGED <<wall, row, known>> /\ backoff' = Outbox!Woken /\ pc = "due"
          /\ pc' = IF Outbox!ShouldPoll(Outbox!Woken) THEN "poll" ELSE "slept"
      BY <1>c DEF Outbox!Tick
    <2>2. CASE signal
      <3>1. backoff' = [delay |-> OutboxBase, left |-> 0] /\ pc' = "poll"
        BY <2>1, <2>2 DEF Outbox!Woken, Outbox!Awake, Outbox!ShouldPoll
      <3> QED
        BY <1>0, <1>1, <1>3, <2>1, <3>1 DEF OutboxTypes
    <2>3. CASE ~signal
      <3>1. backoff' = backoff /\ pc' \in {"poll", "slept"}
        BY <2>1, <2>3 DEF Outbox!Woken
      <3>2. OutboxTypes'
        BY <1>1, <2>1, <3>1 DEF OutboxTypes
      <3>3. (Asleep => Bounded)'
        BY <1>2, <2>1, <2>3, <3>1
      <3> QED
        BY <1>3, <3>2, <3>3
    <2> QED
      BY <2>2, <2>3
  <1>d. CASE Outbox!PollPublishes
    <2>1. wall' = wall /\ row' = NoRow /\ pc' = "slept" /\ backoff' = Outbox!Awake
      BY <1>d DEF Outbox!PollPublishes, Outbox!Record
    <2>2. OutboxTypes'
      BY <1>0, <1>1, <2>1 DEF OutboxTypes, Outbox!Awake
    <2> QED
      BY <1>3, <2>1, <2>2
  <1>e. CASE Outbox!PollReschedules \/ Outbox!PollFindsNothing
    <2>1. UNCHANGED <<backoff, wall>> /\ pc' = "idle" /\ row' \in OutboxDelays \union {row}
      BY <1>e DEF Outbox!PollReschedules, Outbox!PollFindsNothing
    <2>2. OutboxTypes'
      BY <1>0, <1>1, <2>1 DEF OutboxTypes
    <2> QED
      BY <1>3, <2>1, <2>2
  <1>f. CASE Outbox!PollFails \/ Outbox!LookUpFails
    <2>1. wall' = wall /\ pc' = "slept" /\ row' \in OutboxDelays \union {row} /\ backoff' = Outbox!RecordError(backoff)
      BY <1>f DEF Outbox!PollFails, Outbox!LookUpFails
    <2>2. backoff' \in [delay : Int, left : Int] /\ backoff'.left <= Outbox!Larger(OutboxBase, OutboxErrorCeiling)
      BY <1>1, <2>1, OutboxErrors
    <2>3. OutboxTypes'
      BY <1>0, <1>1, <2>1, <2>2 DEF OutboxTypes
    <2>4. row' # NoRow => row' \in Nat
      BY <2>3 DEF OutboxTypes
    <2>5. row' # NoRow => Bounded'
      BY <1>0, <2>2, <2>4 DEF Outbox!Larger
    <2> QED
      BY <1>3, <2>3, <2>5
  <1>g. CASE Outbox!LookUpDue
    <2>1. /\ UNCHANGED <<wall, row>> /\ pc' = "slept"
          /\ backoff' = IF row = NoRow THEN Outbox!RecordIdle(backoff, wall) ELSE Outbox!RecordIdleUntil(backoff, wall, row)
      BY <1>g DEF Outbox!LookUpDue
    <2>2. CASE row = NoRow
      <3>1. backoff' \in [delay : Int, left : Int]
        BY <1>1, <2>1, <2>2, OutboxIdles, 0 \in Nat
      <3>2. OutboxTypes'
        BY <1>1, <2>1, <3>1 DEF OutboxTypes
      <3> QED
        BY <1>3, <2>1, <2>2, <3>2
    <2>3. CASE row # NoRow
      <3>1. backoff' \in [delay : Int, left : Int] /\ Bounded'
        BY <1>1, <2>1, <2>3, OutboxIdles
      <3>2. OutboxTypes'
        BY <1>1, <2>1, <3>1 DEF OutboxTypes
      <3> QED
        BY <1>3, <3>1, <3>2
    <2> QED
      BY <2>2, <2>3
  <1>h. CASE Outbox!TimePasses
    <2>1. /\ pc = "slept" /\ pc' = "due" /\ wall' = (wall + OutboxBase) % OutboxMax
          /\ backoff' = [backoff EXCEPT !.left = Outbox!Larger(@ - OutboxBase, 0)]
          /\ row' = IF row = NoRow THEN NoRow ELSE Outbox!Larger(row - OutboxBase, 0)
          /\ UNCHANGED <<known, signal>>
      BY <1>h DEF Outbox!TimePasses, Outbox!TimeLeft
    <2>2. wall' \in Int
      BY <1>0, <1>1, <2>1
    <2>3. row' \in Nat \union {NoRow} /\ (row' = NoRow <=> row = NoRow)
      BY <1>0, <1>1, <2>1 DEF Outbox!Larger
    <2>4. backoff' \in [delay : Int, left : Int] /\ backoff'.left = Outbox!Larger(backoff.left - OutboxBase, 0)
      BY <1>0, <1>1, <2>1 DEF Outbox!Larger
    <2>5. OutboxTypes'
      BY <2>1, <2>2, <2>3, <2>4 DEF OutboxTypes
    <2>6. row # NoRow /\ Bounded => Bounded'
      BY <1>0, <1>1, <2>1, <2>4 DEF Outbox!Larger
    <2> QED
      BY <1>2, <1>3, <2>1, <2>3, <2>5, <2>6
  <1>i. CASE UNCHANGED Outbox!vars
    BY <1>i DEF Outbox!vars, OutboxInv, OutboxTypes
  <1> QED
    BY <1>a, <1>b, <1>c, <1>d, <1>e, <1>f, <1>g, <1>h, <1>i DEF Outbox!Next

LEMMA OutboxInit == ASSUME Outbox!PollingAssumption, Outbox!Init PROVE OutboxInv
  <1>1. backoff = [delay |-> OutboxBase, left |-> 0] /\ wall \in Int /\ pc = "due" /\ row = NoRow
    BY OutboxConstants DEF Outbox!Init, Outbox!Awake
  <1> QED
    BY <1>1, OutboxConstants DEF OutboxInv, OutboxTypes

LEMMA OutboxIsKept == Spec => [](service = "outbox" => OutboxInv)
  <1>1. Init => (service = "outbox" => OutboxInv)
    BY ServicesAssumption, OutboxInit DEF Init
  <1>2. (service = "outbox" => OutboxInv) /\ [Next]_vars => (service = "outbox" => OutboxInv)'
    <2> SUFFICES ASSUME service = "outbox" => OutboxInv, [Next]_vars, service' = "outbox" PROVE OutboxInv'
      OBVIOUS
    <2>1. service = "outbox" /\ [Outbox!Next]_(Outbox!vars)
      BY DEF Next, vars, ClientsOnly, PollersOnly, Outbox!vars
    <2> QED
      BY <2>1, ServicesAssumption, OutboxStep
  <1> QED
    BY <1>1, <1>2, PTL DEF Spec

(* The outbox publisher never sleeps over a row that this instance was     *)
(* signalled about or knows the due time of, for any delays of the backoff *)
(* (ExecutionOutboxPublisher.publishPendingOnSchedule and IdleBackoff).    *)
THEOREM KnownRowsAreNotSleptOver == Spec => []NeverSleepsOverKnownWork
  <1>1. (service = "outbox" => OutboxInv) => NeverSleepsOverKnownWork
    BY DEF OutboxInv, NeverSleepsOverKnownWork, Outbox!NeverSleepsOverKnownWork
  <1> QED
    BY <1>1, OutboxIsKept, PTL

-----------------------------------------------------------------------------
(* The recovery scanner.                                                   *)
RecoveryInv ==
    /\ backoff \in [delay : Int, left : Int]
    /\ wall \in Nat
    /\ pc \in {"due", "scan", "slept"}
    /\ seen => active
    /\ pc \in {"slept", "due"} /\ active /\ seen /\ ~unseen /\ ~failed => backoff.left <= RecoveryBase
    /\ Recovery!SleepIsBounded

LEMMA RecoveryConstants ==
    ASSUME Recovery!BackoffAssumption
    PROVE  /\ RecoveryBase \in Nat \ {0} /\ RecoveryMax \in Nat \ {0} /\ RecoveryRampCeiling \in Nat \ {0} /\ RecoveryJitter \in Nat /\ RecoveryBase <= RecoveryMax
           /\ RecoveryMax \div 2 \in Nat
  BY DEF Recovery!BackoffAssumption

(* The aligned wake is at least half of RecoveryMax away, and less than another    *)
(* RecoveryMax later.                                                              *)
LEMMA AlignedDelayIsBounded ==
    ASSUME Recovery!BackoffAssumption, wall \in Nat
    PROVE  /\ Recovery!AlignedDelay(wall) \in Int
           /\ Recovery!AlignedDelay(wall) >= RecoveryMax \div 2 + RecoveryJitter
           /\ Recovery!AlignedDelay(wall) < RecoveryMax + RecoveryMax \div 2 + RecoveryJitter
  <1> DEFINE earliest == wall + RecoveryMax \div 2
             q == (earliest + RecoveryMax - 1) \div RecoveryMax
  <1>1. RecoveryMax \in Nat \ {0} /\ RecoveryJitter \in Nat /\ RecoveryMax \div 2 \in Nat
    BY RecoveryConstants
  <1>2. earliest \in Nat /\ earliest + RecoveryMax - 1 \in Nat
    BY <1>1
  <1> HIDE DEF earliest
  <1>3. q \in Int /\ q * RecoveryMax <= earliest + RecoveryMax - 1 /\ earliest + RecoveryMax - 1 < q * RecoveryMax + RecoveryMax
    BY <1>1, <1>2
  <1>4. q * RecoveryMax \in Int
    BY <1>1, <1>3
  <1>5. Recovery!AlignedDelay(wall) = q * RecoveryMax - wall + RecoveryJitter
    BY DEF Recovery!AlignedDelay, earliest
  <1> HIDE DEF q
  <1> QED
    BY <1>1, <1>2, <1>3, <1>4, <1>5 DEF earliest

(* What a scan records.                                                    *)
LEMMA ScanRecords ==
    ASSUME Recovery!BackoffAssumption, wall \in Nat, NEW b \in [delay : Int, left : Int], NEW busy \in BOOLEAN
    PROVE  /\ Recovery!Record(b, busy, wall) \in [delay : Int, left : Int]
           /\ Recovery!Record(b, busy, wall).left <= RecoveryMax + RecoveryMax \div 2 + RecoveryJitter
           /\ busy => Recovery!Record(b, busy, wall).left = 0
  <1> DEFINE aligned == Recovery!AlignedDelay(wall)
  <1>1. aligned \in Int /\ aligned < RecoveryMax + RecoveryMax \div 2 + RecoveryJitter
    BY AlignedDelayIsBounded
  <1> HIDE DEF aligned
  <1>2. CASE busy
    <2>1. Recovery!Record(b, busy, wall) = [delay |-> RecoveryBase, left |-> 0]
      BY <1>2 DEF Recovery!Record, Recovery!Awake
    <2> QED
      BY <2>1, RecoveryConstants
  <1>3. CASE ~busy
    <2>1. Recovery!Record(b, busy, wall) =
            IF RecoveryMax <= RecoveryBase THEN [b EXCEPT !.left = RecoveryBase]
            ELSE IF 2 * b.delay < RecoveryMax /\ 2 * b.delay <= RecoveryRampCeiling THEN [delay |-> 2 * b.delay, left |-> 2 * b.delay]
            ELSE [delay |-> RecoveryMax, left |-> aligned]
      BY <1>3 DEF Recovery!Record, Recovery!NeverSleeps, aligned
    <2> QED
      BY <1>1, <1>3, <2>1, RecoveryConstants
  <1> QED
    BY <1>2, <1>3

LEMMA RecoveryStep ==
    ASSUME Recovery!BackoffAssumption, RecoveryInv, [Recovery!Next]_(Recovery!vars)
    PROVE  RecoveryInv'
  <1>0. RecoveryBase \in Nat \ {0} /\ RecoveryMax \in Nat \ {0} /\ RecoveryJitter \in Nat /\ RecoveryMax \div 2 \in Nat
    BY RecoveryConstants
  <1>1. backoff \in [delay : Int, left : Int] /\ wall \in Nat /\ pc \in {"due", "scan", "slept"}
        /\ backoff.left <= RecoveryMax + RecoveryMax \div 2 + RecoveryJitter
    BY DEF RecoveryInv, Recovery!SleepIsBounded
  <1> DEFINE Watched == active /\ seen /\ ~unseen /\ ~failed
  <1>2. (seen => active) /\ (pc \in {"slept", "due"} /\ Watched => backoff.left <= RecoveryBase)
    BY DEF RecoveryInv
  <1>a. CASE Recovery!AdmitHere \/ Recovery!AdmitElsewhere
    <2>1. UNCHANGED <<backoff, wall, pc, seen>> /\ ~active
      BY <1>a DEF Recovery!AdmitHere, Recovery!AdmitElsewhere
    <2> QED
      BY <1>1, <1>2, <2>1 DEF RecoveryInv, Recovery!SleepIsBounded
  <1>b. CASE Recovery!RaiseActivity
    <2>1. UNCHANGED <<backoff, wall, pc, seen, active>> /\ unseen' = TRUE
      BY <1>b DEF Recovery!RaiseActivity
    <2> QED
      BY <1>1, <1>2, <2>1 DEF RecoveryInv, Recovery!SleepIsBounded
  <1>c. CASE Recovery!RunEnds
    <2>1. UNCHANGED <<backoff, wall, pc>> /\ seen' = FALSE
      BY <1>c DEF Recovery!RunEnds
    <2> QED
      BY <1>1, <2>1 DEF RecoveryInv, Recovery!SleepIsBounded
  <1>d. CASE Recovery!Tick
    <2>1. /\ pc = "due" /\ UNCHANGED <<wall, active, failed>> /\ seen' = (seen \/ (unseen /\ active))
          /\ backoff' = Recovery!Woken /\ pc' = IF Recovery!ShouldPoll(Recovery!Woken) THEN "scan" ELSE "slept"
      BY <1>d DEF Recovery!Tick
    <2>2. seen' => active'
      BY <1>2, <2>1
    <2>3. CASE unseen
      <3>1. backoff' = [delay |-> RecoveryBase, left |-> 0] /\ pc' = "scan"
        BY <2>1, <2>3 DEF Recovery!Woken, Recovery!Awake, Recovery!ShouldPoll
      <3> QED
        BY <1>0, <1>1, <2>1, <2>2, <3>1 DEF RecoveryInv, Recovery!SleepIsBounded
    <2>4. CASE ~unseen
      <3>1. backoff' = backoff /\ pc' \in {"scan", "slept"}
        BY <2>1, <2>4 DEF Recovery!Woken
      <3>2. Watched' => Watched
        BY <2>1, <2>4
      <3>3. (pc \in {"slept", "due"} /\ Watched => backoff.left <= RecoveryBase)'
        BY <1>2, <2>1, <3>1, <3>2
      <3> QED
        BY <1>1, <2>1, <2>2, <3>1, <3>3 DEF RecoveryInv, Recovery!SleepIsBounded
    <2> QED
      BY <2>3, <2>4
  <1>e. CASE Recovery!Scan
    <2>1. UNCHANGED <<wall, active>> /\ backoff' = Recovery!Record(backoff, active, wall) /\ seen' = active /\ pc' = "slept"
      BY <1>e DEF Recovery!Scan
    <2>2. CASE active
      <3>1. backoff' = Recovery!Awake
        BY <2>1, <2>2 DEF Recovery!Record
      <3>2. backoff' \in [delay : Int, left : Int] /\ backoff'.left = 0
        BY <1>0, <3>1 DEF Recovery!Awake
      <3>3. backoff'.left <= RecoveryBase /\ backoff'.left <= RecoveryMax + RecoveryMax \div 2 + RecoveryJitter
        BY <1>0, <3>2
      <3> QED
        BY <1>1, <2>1, <3>2, <3>3 DEF RecoveryInv, Recovery!SleepIsBounded
    <2>3. CASE ~active
      <3>1. backoff' = Recovery!Record(backoff, FALSE, wall)
        BY <2>1, <2>3 DEF Recovery!Record
      <3>2. backoff' \in [delay : Int, left : Int] /\ backoff'.left <= RecoveryMax + RecoveryMax \div 2 + RecoveryJitter
        BY <1>1, <3>1, ScanRecords
      <3> QED
        BY <1>1, <2>1, <2>3, <3>2 DEF RecoveryInv, Recovery!SleepIsBounded
    <2> QED
      BY <2>2, <2>3
  <1>f. CASE Recovery!ScanFails
    <2>1. UNCHANGED <<wall, active, seen>> /\ backoff' = Recovery!Record(backoff, FALSE, wall) /\ failed' = TRUE /\ pc' = "slept"
      BY <1>f DEF Recovery!ScanFails
    <2>2. backoff' \in [delay : Int, left : Int] /\ backoff'.left <= RecoveryMax + RecoveryMax \div 2 + RecoveryJitter
      BY <1>1, <2>1, ScanRecords
    <2> QED
      BY <1>1, <1>2, <2>1, <2>2 DEF RecoveryInv, Recovery!SleepIsBounded
  <1>g. CASE Recovery!TimePasses
    <2>1. /\ pc = "slept" /\ pc' = "due" /\ wall' = (wall + RecoveryBase) % RecoveryMax /\ UNCHANGED <<active, seen, unseen, failed>>
          /\ backoff' = [backoff EXCEPT !.left = Recovery!Larger(@ - RecoveryBase, 0)]
      BY <1>g DEF Recovery!TimePasses, Recovery!TimeLeft
    <2>2. wall' \in Nat
      BY <1>0, <1>1, <2>1
    <2>3. backoff' \in [delay : Int, left : Int] /\ backoff'.left = Recovery!Larger(backoff.left - RecoveryBase, 0)
      BY <1>0, <1>1, <2>1 DEF Recovery!Larger
    <2>4. backoff'.left <= RecoveryMax + RecoveryMax \div 2 + RecoveryJitter /\ (backoff.left <= RecoveryBase => backoff'.left <= RecoveryBase)
      BY <1>0, <1>1, <2>3 DEF Recovery!Larger
    <2>5. (pc \in {"slept", "due"} /\ Watched => backoff.left <= RecoveryBase)'
      BY <1>2, <2>1, <2>4
    <2> QED
      BY <1>2, <2>1, <2>2, <2>3, <2>4, <2>5 DEF RecoveryInv, Recovery!SleepIsBounded
  <1>h. CASE UNCHANGED Recovery!vars
    BY <1>h DEF Recovery!vars, RecoveryInv, Recovery!SleepIsBounded
  <1> QED
    BY <1>a, <1>b, <1>c, <1>d, <1>e, <1>f, <1>g, <1>h DEF Recovery!Next

LEMMA RecoveryInit == ASSUME Recovery!BackoffAssumption, Recovery!Init PROVE RecoveryInv
  <1>1. backoff = [delay |-> RecoveryBase, left |-> 0] /\ wall \in Nat /\ pc = "due" /\ seen = FALSE
    BY RecoveryConstants DEF Recovery!Init, Recovery!Awake
  <1> QED
    BY <1>1, RecoveryConstants DEF RecoveryInv, Recovery!SleepIsBounded

LEMMA RecoveryIsKept == Spec => [](service = "recovery" => RecoveryInv)
  <1>1. Init => (service = "recovery" => RecoveryInv)
    BY ServicesAssumption, RecoveryInit DEF Init
  <1>2. (service = "recovery" => RecoveryInv) /\ [Next]_vars => (service = "recovery" => RecoveryInv)'
    <2> SUFFICES ASSUME service = "recovery" => RecoveryInv, [Next]_vars, service' = "recovery" PROVE RecoveryInv'
      OBVIOUS
    <2>1. service = "recovery" /\ [Recovery!Next]_(Recovery!vars)
      BY DEF Next, vars, ClientsOnly, PollersOnly, RecoveryOnly, Recovery!vars
    <2> QED
      BY <2>1, ServicesAssumption, RecoveryStep
  <1> QED
    BY <1>1, <1>2, PTL DEF Spec

(* As long as it knows of a run in flight, and its scans do not fail, the  *)
(* scanner scans at every tick (ExecutionRecoveryScanner.recoverOnSchedule *)
(* and ActivitySignal).                                                    *)
THEOREM KnownRunsAreWatched == Spec => []ActiveRunKeepsTheBase
  <1>1. (service = "recovery" => RecoveryInv) => ActiveRunKeepsTheBase
    BY DEF RecoveryInv, ActiveRunKeepsTheBase, Recovery!ActiveRunKeepsTheBase
  <1> QED
    BY <1>1, RecoveryIsKept, PTL

(* A run that it does not know of is looked for after at most one and a    *)
(* half times the maximum: IdleBackoff's aligned wake never skips a slot.  *)
THEOREM SleepHasAnEnd == Spec => []SleepIsBounded
  <1>1. (service = "recovery" => RecoveryInv) => SleepIsBounded
    BY DEF RecoveryInv, SleepIsBounded
  <1> QED
    BY <1>1, RecoveryIsKept, PTL

-----------------------------------------------------------------------------
(* The delivery worker. A delivery it knows of that was stored during a    *)
(* tick was announced during it too, so the tick ends with a short wait.   *)
DeliveryTypes ==
    /\ delay \in Int /\ timer \in Int /\ wall \in Nat
    /\ pc \in {"armed", "tick", "empty", "lookup"}
    /\ row \in Nat \union {NoRow}
    /\ fresh => row = 0

DeliveryInv ==
    /\ DeliveryTypes
    /\ pc \in {"empty", "lookup"} /\ fresh /\ known => woken
    /\ Delivery!WokenWorkerIsOnTime

LEMMA DeliveryConstants ==
    ASSUME Delivery!PollingAssumption
    PROVE  /\ DeliveryBase \in Nat \ {0} /\ DeliveryMax \in Nat \ {0} /\ DeliveryRampCeiling \in Nat \ {0}
           /\ DeliveryJitter \in Nat /\ DeliveryDelays \subseteq Nat \ {0} /\ NoRow \notin Nat
  BY DEF Delivery!PollingAssumption

LEMMA IdleDelayType ==
    ASSUME Delivery!PollingAssumption, delay \in Int, wall \in Nat PROVE Delivery!IdleDelay \in Int
  <1>1. Delivery!Cap \in Nat \ {0}
    BY DeliveryConstants DEF Delivery!Cap, Delivery!Larger
  <1> DEFINE earliest == wall + Delivery!Cap \div 2
             q == (earliest + Delivery!Cap - 1) \div Delivery!Cap
             idle == q * Delivery!Cap + DeliveryJitter - wall
  <1>2. earliest \in Int
    BY <1>1
  <1> HIDE DEF earliest
  <1>3. q \in Int
    BY <1>1, <1>2
  <1> HIDE DEF q
  <1>4. idle \in Int
    BY <1>1, <1>3, DeliveryConstants
  <1>5. Delivery!IdleDelay = IF 2 * delay < Delivery!Smaller(Delivery!Cap, DeliveryRampCeiling) THEN 2 * delay
                             ELSE Delivery!Larger(DeliveryBase, idle)
    BY DEF Delivery!IdleDelay, idle, q, earliest
  <1> HIDE DEF idle
  <1> QED
    BY <1>4, <1>5, DeliveryConstants DEF Delivery!Larger

LEMMA DeliveryStep ==
    ASSUME Delivery!PollingAssumption, DeliveryInv, [Delivery!Next]_(Delivery!vars)
    PROVE  DeliveryInv'
  <1>0. /\ DeliveryBase \in Nat \ {0} /\ DeliveryMax \in Nat \ {0}
        /\ DeliveryJitter \in Nat /\ DeliveryDelays \subseteq Nat \ {0} /\ NoRow \notin Nat
    BY DeliveryConstants
  <1>1. delay \in Int /\ timer \in Int /\ wall \in Nat /\ row \in Nat \union {NoRow}
    BY DEF DeliveryInv, DeliveryTypes
  <1>2. (fresh => row = 0) /\ (pc \in {"empty", "lookup"} /\ fresh /\ known => woken)
    BY DEF DeliveryInv, DeliveryTypes
  <1>3. pc = "armed" /\ row # NoRow /\ known => timer <= Delivery!Larger(row, DeliveryBase)
    BY DEF DeliveryInv, Delivery!WokenWorkerIsOnTime
  <1>4. Delivery!IdleDelay \in Int
    BY <1>1, IdleDelayType
  <1>5. \A r \in Nat : DeliveryBase <= Delivery!Larger(r, DeliveryBase)
    BY <1>0 DEF Delivery!Larger
  <1> USE DEF Delivery!WokenWorkerIsOnTime
  <1>a. CASE Delivery!StoreHere \/ Delivery!StoreElsewhere
    <2>1. UNCHANGED <<delay, timer, wall, pc>> /\ row' = 0 /\ known' = FALSE
      BY <1>a DEF Delivery!StoreHere, Delivery!StoreElsewhere
    <2> QED
      BY <2>1 DEF DeliveryInv, DeliveryTypes
  <1>b. CASE Delivery!Wake
    <2>1. UNCHANGED <<wall, pc, row, fresh>> /\ delay' = DeliveryBase
          /\ (IF pc = "armed" THEN timer' = DeliveryBase /\ UNCHANGED woken ELSE woken' = TRUE /\ UNCHANGED timer)
      BY <1>b DEF Delivery!Wake
    <2>2. delay' \in Int /\ timer' \in Int
      BY <1>0, <1>1, <2>1
    <2>3. (pc = "armed" /\ row # NoRow /\ known => timer <= Delivery!Larger(row, DeliveryBase))'
      BY <1>1, <1>5, <2>1
    <2> QED
      BY <2>1, <2>2, <2>3 DEF DeliveryInv, DeliveryTypes
  <1>c. CASE Delivery!Fire
    <2>1. UNCHANGED <<delay, timer, wall, row, fresh, known, woken>> /\ pc' = "tick"
      BY <1>c DEF Delivery!Fire
    <2> QED
      BY <2>1 DEF DeliveryInv, DeliveryTypes
  <1>d. CASE Delivery!Handles
    <2>1. wall' = wall /\ row' \in {NoRow} \union DeliveryDelays /\ fresh' = FALSE /\ known' = FALSE /\ Delivery!Rearm(DeliveryBase)
      BY <1>d DEF Delivery!Handles
    <2>2. delay' \in Int /\ timer' \in Int /\ pc' = "armed"
      BY <1>0, <2>1 DEF Delivery!Rearm
    <2> QED
      BY <1>0, <1>1, <2>1, <2>2 DEF DeliveryInv, DeliveryTypes
  <1>e. CASE Delivery!FindsNothing
    <2>1. UNCHANGED <<delay, timer, wall, row, fresh, known, woken>> /\ pc' = "empty" /\ row # 0
      BY <1>e DEF Delivery!FindsNothing
    <2> QED
      BY <1>2, <2>1 DEF DeliveryInv, DeliveryTypes
  <1>f. CASE Delivery!Lengthen
    <2>1. UNCHANGED <<timer, wall, row, fresh, known, woken>> /\ pc = "empty" /\ pc' = "lookup" /\ delay' = Delivery!IdleDelay
      BY <1>f DEF Delivery!Lengthen
    <2> QED
      BY <1>2, <1>4, <2>1 DEF DeliveryInv, DeliveryTypes
  <1>g. CASE Delivery!Throws
    <2>1. /\ wall' = wall /\ known' = (woken /\ row # NoRow) /\ Delivery!Rearm(Delivery!IdleDelay)
          /\ (IF row = 0 THEN row' \in {0} \union DeliveryDelays /\ fresh' = (fresh /\ row' = 0) ELSE UNCHANGED <<row, fresh>>)
      BY <1>g DEF Delivery!Throws
    <2>2. row' \in Nat \union {NoRow} /\ (fresh' => row' = 0)
      BY <1>0, <1>1, <1>2, <2>1
    <2>3. delay' \in Int /\ timer' \in Int /\ pc' = "armed" /\ (woken => timer' = DeliveryBase)
      BY <1>0, <1>4, <2>1 DEF Delivery!Rearm
    <2>4. (pc = "armed" /\ row # NoRow /\ known => timer <= Delivery!Larger(row, DeliveryBase))'
      BY <1>5, <2>1, <2>2, <2>3
    <2> QED
      BY <1>1, <2>1, <2>2, <2>3, <2>4 DEF DeliveryInv, DeliveryTypes
  <1>h. CASE Delivery!LooksUp
    <2>1. UNCHANGED <<wall, row, fresh>> /\ pc = "lookup"
      BY <1>h DEF Delivery!LooksUp
    <2>2. CASE row = NoRow \/ fresh
      <3>1. Delivery!Rearm(delay) /\ known' = known
        BY <1>h, <2>2 DEF Delivery!LooksUp
      <3>2. delay' \in Int /\ timer' \in Int /\ pc' = "armed" /\ (woken => timer' = DeliveryBase)
        BY <1>0, <1>1, <3>1 DEF Delivery!Rearm
      <3>3. (pc = "armed" /\ row # NoRow /\ known => timer <= Delivery!Larger(row, DeliveryBase))'
        BY <1>1, <1>2, <1>5, <2>1, <2>2, <3>1, <3>2
      <3> QED
        BY <1>1, <1>2, <2>1, <3>2, <3>3 DEF DeliveryInv, DeliveryTypes
    <2>3. CASE ~(row = NoRow \/ fresh)
      <3>1. Delivery!Rearm(Delivery!Larger(DeliveryBase, Delivery!Smaller(delay, row)))
        BY <1>h, <2>3 DEF Delivery!LooksUp
      <3>2. row \in Nat
        BY <1>1, <2>3
      <3>3. Delivery!Larger(DeliveryBase, Delivery!Smaller(delay, row)) \in Int
            /\ Delivery!Larger(DeliveryBase, Delivery!Smaller(delay, row)) <= Delivery!Larger(row, DeliveryBase)
        BY <1>0, <1>1, <3>2 DEF Delivery!Larger, Delivery!Smaller
      <3>4. delay' \in Int /\ timer' \in Int /\ pc' = "armed" /\ timer' <= Delivery!Larger(row, DeliveryBase)
        BY <1>0, <1>5, <3>1, <3>2, <3>3 DEF Delivery!Rearm
      <3> QED
        BY <1>1, <1>2, <2>1, <3>4 DEF DeliveryInv, DeliveryTypes
    <2> QED
      BY <2>2, <2>3
  <1>i. CASE Delivery!LookUpThrows
    <2>1. UNCHANGED <<wall, row, fresh>> /\ known' = (woken /\ row # NoRow) /\ Delivery!Rearm(delay)
      BY <1>i DEF Delivery!LookUpThrows
    <2>2. delay' \in Int /\ timer' \in Int /\ pc' = "armed" /\ (woken => timer' = DeliveryBase)
      BY <1>0, <1>1, <2>1 DEF Delivery!Rearm
    <2>3. (pc = "armed" /\ row # NoRow /\ known => timer <= Delivery!Larger(row, DeliveryBase))'
      BY <1>1, <1>5, <2>1, <2>2
    <2> QED
      BY <1>1, <1>2, <2>1, <2>2, <2>3 DEF DeliveryInv, DeliveryTypes
  <1>j. CASE Delivery!TimePasses
    <2>1. /\ UNCHANGED <<delay, pc, fresh, known, woken>> /\ pc = "armed"
          /\ timer' = Delivery!Larger(timer - DeliveryBase, 0) /\ wall' = (wall + DeliveryBase) % DeliveryMax
          /\ row' = IF row = NoRow THEN NoRow ELSE Delivery!Larger(row - DeliveryBase, 0)
      BY <1>j DEF Delivery!TimePasses
    <2>2. wall' \in Nat
      BY <1>0, <1>1, <2>1
    <2>3. timer' \in Int /\ row' \in Nat \union {NoRow} /\ (row' = NoRow <=> row = NoRow) /\ (row = 0 => row' = 0)
      BY <1>0, <1>1, <2>1 DEF Delivery!Larger
    <2>4. row # NoRow /\ timer <= Delivery!Larger(row, DeliveryBase) => timer' <= Delivery!Larger(row', DeliveryBase)
      BY <1>0, <1>1, <2>1 DEF Delivery!Larger
    <2>5. (pc = "armed" /\ row # NoRow /\ known => timer <= Delivery!Larger(row, DeliveryBase))'
      BY <1>3, <2>1, <2>3, <2>4
    <2> QED
      BY <1>1, <1>2, <2>1, <2>2, <2>3, <2>5 DEF DeliveryInv, DeliveryTypes
  <1>k. CASE UNCHANGED Delivery!vars
    BY <1>k DEF Delivery!vars, DeliveryInv, DeliveryTypes
  <1> QED
    BY <1>a, <1>b, <1>c, <1>d, <1>e, <1>f, <1>g, <1>h, <1>i, <1>j, <1>k DEF Delivery!Next

LEMMA DeliveryInit == ASSUME Delivery!PollingAssumption, Delivery!Init PROVE DeliveryInv
  <1>1. delay \in Int /\ timer \in Int /\ wall \in Nat /\ pc = "armed" /\ row = NoRow /\ fresh = FALSE
    BY DeliveryConstants DEF Delivery!Init
  <1> QED
    BY <1>1 DEF DeliveryInv, DeliveryTypes, Delivery!WokenWorkerIsOnTime

LEMMA DeliveryIsKept == Spec => [](service = "delivery" => DeliveryInv)
  <1>1. Init => (service = "delivery" => DeliveryInv)
    BY ServicesAssumption, DeliveryInit DEF Init
  <1>2. (service = "delivery" => DeliveryInv) /\ [Next]_vars => (service = "delivery" => DeliveryInv)'
    <2> SUFFICES ASSUME service = "delivery" => DeliveryInv, [Next]_vars, service' = "delivery" PROVE DeliveryInv'
      OBVIOUS
    <2>1. service = "delivery" /\ [Delivery!Next]_(Delivery!vars)
      BY DEF Next, vars, ClientsOnly, PollersOnly, DeliveryOnly, Delivery!vars
    <2> QED
      BY <2>1, ServicesAssumption, DeliveryStep
  <1> QED
    BY <1>1, <1>2, PTL DEF Spec

(* The timer is set for every delivery the worker was woken for or has     *)
(* looked up, in whatever order events are stored, the wake for them comes *)
(* and a tick runs (DeliveryWorker.schedule and wake).                     *)
THEOREM KnownDeliveriesAreOnTime == Spec => []WokenWorkerIsOnTime
  <1>1. (service = "delivery" => DeliveryInv) => WokenWorkerIsOnTime
    BY DEF DeliveryInv, WokenWorkerIsOnTime
  <1> QED
    BY <1>1, DeliveryIsKept, PTL

-----------------------------------------------------------------------------
(* The browser's session. Without a cause the cookie is the session's      *)
(* current token or the previous one within its grace, or the answer that  *)
(* carries such a token is about to be received; and a request whose tab   *)
(* is gone finds the cookie current, so its rotation leaves it one behind. *)
Tokens == [current : Nat, previous : Nat, grace : BOOLEAN, alive : BOOLEAN]

Renewals ==
    [pc : {"idle", "waiting", "asking", "chosen", "sent", "answered", "renewed", "refused"},
     stale : Nat, sends : Nat, gets : Nat]

Busy == {"asking", "chosen", "sent", "answered", "renewed", "refused"}

SessionTypes ==
    /\ token \in Nat /\ cookie \in Nat /\ stray \in Nat /\ faults \in Nat
    /\ mark \in BOOLEAN /\ cause \in BOOLEAN
    /\ session \in Tokens
    /\ tab \in [Tabs -> Renewals]
    /\ leaving \in [pc : {"no", "sent", "answered"}, sends : Nat]

Good(c) == c = session.current \/ (c = session.previous /\ session.grace)

Answering == \E t \in Tabs : tab[t].pc = "answered"

OneRenews == \A t \in Tabs : tab[t].pc \in Busy => lock = t

TabIsHealthy(t) ==
    /\ tab[t].pc # "refused"
    /\ tab[t].pc = "sent" => tab[t].sends = cookie
    /\ tab[t].pc \in {"answered", "renewed"} => tab[t].gets # 0
    /\ tab[t].pc = "answered" => Good(tab[t].gets) /\ cookie < tab[t].gets

BrowserIsHealthy ==
    /\ session.alive /\ token # 0 /\ mark /\ leaving.pc = "no"
    /\ cookie # 0 /\ cookie <= session.current /\ session.previous < session.current
    /\ ~Answering => Good(cookie)

StrayIsHarmless ==
    /\ stray # 0 => Session!Lost /\ (stray = session.previous => session.grace)
    /\ stray # 0 \/ ~Session!Lost =>
          /\ ~Answering => cookie = session.current
          /\ \A t \in Tabs : tab[t].pc = "answered" => tab[t].gets = session.current

SessionInv ==
    /\ SessionTypes
    /\ OneRenews
    /\ faults <= MaxLost
    /\ ~cause => BrowserIsHealthy /\ StrayIsHarmless /\ \A t \in Tabs : TabIsHealthy(t)

LEMMA SessionInit == ASSUME Session!SessionAssumption, Session!Init PROVE SessionInv
  <1>1. token = 1 /\ cookie = 1 /\ stray = 0 /\ faults = MaxLost /\ MaxLost \in Nat
    BY DEF Session!Init, Session!SessionAssumption, Session!None
  <1>2. mark = TRUE /\ cause = FALSE
    BY DEF Session!Init
  <1>3. session = [current |-> 1, previous |-> 0, grace |-> FALSE, alive |-> TRUE]
    BY DEF Session!Init, Session!None
  <1>4. tab = [t \in Tabs |-> [pc |-> "idle", stale |-> 0, sends |-> 0, gets |-> 0]]
    BY DEF Session!Init, Session!Idle, Session!None
  <1>5. leaving = [pc |-> "no", sends |-> 0]
    BY DEF Session!Init, Session!Here, Session!None
  <1>6. session \in Tokens
    BY <1>3 DEF Tokens
  <1>7. tab \in [Tabs -> Renewals] /\ \A t \in Tabs : tab[t].pc = "idle"
    BY <1>4 DEF Renewals
  <1>8. SessionTypes
    <2>1. mark \in BOOLEAN /\ cause \in BOOLEAN
      BY <1>2
    <2> QED
      BY <1>1, <1>5, <1>6, <1>7, <2>1 DEF SessionTypes
  <1>9. BrowserIsHealthy
    BY <1>1, <1>2, <1>3, <1>5 DEF BrowserIsHealthy, Good
  <1>10. StrayIsHarmless
    BY <1>1, <1>3, <1>7 DEF StrayIsHarmless
  <1>11. OneRenews /\ \A t \in Tabs : TabIsHealthy(t)
    BY <1>7 DEF OneRenews, Busy, TabIsHealthy
  <1> QED
    BY <1>1, <1>8, <1>9, <1>10, <1>11 DEF SessionInv

(* What a step of one tab does to the others and to the lock.              *)
LEMMA TabMoves ==
    ASSUME Session!SessionAssumption, tab \in [Tabs -> Renewals], OneRenews, NEW t \in Tabs, NEW new \in Renewals,
           tab' = [tab EXCEPT ![t] = new],
           \/ tab[t].pc \in Busy /\ lock' = lock
           \/ new.pc \notin Busy /\ lock' = lock
           \/ tab[t].pc \in Busy /\ new.pc \notin Busy /\ Session!Unlock(t)
           \/ lock = NoTab /\ lock' = t
    PROVE  /\ tab' \in [Tabs -> Renewals] /\ tab'[t] = new /\ \A s \in Tabs : s # t => tab'[s] = tab[s]
           /\ OneRenews'
           /\ tab[t].pc \in Busy => \A s \in Tabs : s # t => tab[s].pc \notin Busy
  <1>1. tab' \in [Tabs -> Renewals] /\ tab'[t] = new /\ \A s \in Tabs : s # t => tab'[s] = tab[s]
    OBVIOUS
  <1>2. tab[t].pc \in Busy => \A s \in Tabs : s # t => tab[s].pc \notin Busy
    BY DEF OneRenews
  <1>3. lock = NoTab => \A s \in Tabs : tab[s].pc \notin Busy
    BY DEF OneRenews, Session!SessionAssumption
  <1>4. OneRenews'
    BY <1>1, <1>2, <1>3 DEF OneRenews, Session!Unlock
  <1> QED
    BY <1>1, <1>2, <1>4

(* A tab that neither asks nor is answered changes nothing of it all.      *)
LEMMA QuietTab ==
    ASSUME Session!SessionAssumption, SessionInv, NEW t \in Tabs, NEW new \in Renewals,
           tab' = [tab EXCEPT ![t] = new],
           \/ tab[t].pc \in Busy /\ lock' = lock
           \/ new.pc \notin Busy /\ lock' = lock
           \/ tab[t].pc \in Busy /\ new.pc \notin Busy /\ Session!Unlock(t)
           \/ lock = NoTab /\ lock' = t,
           tab[t].pc # "answered", new.pc \notin {"answered", "renewed"},
           ~cause => new.pc # "refused" /\ (new.pc = "sent" => new.sends = cookie),
           UNCHANGED <<token, mark, cookie, session, leaving, stray, faults, cause>>
    PROVE  SessionInv'
  <1>1. /\ tab' \in [Tabs -> Renewals] /\ tab'[t] = new /\ \A s \in Tabs : s # t => tab'[s] = tab[s]
        /\ OneRenews'
    BY TabMoves DEF SessionInv, SessionTypes
  <1>2. SessionTypes' /\ (faults <= MaxLost)'
    BY <1>1 DEF SessionInv, SessionTypes
  <1>3. Answering' <=> Answering
    BY <1>1 DEF Answering
  <1>4. ASSUME ~cause PROVE (BrowserIsHealthy /\ StrayIsHarmless /\ \A s \in Tabs : TabIsHealthy(s))'
    <2>1. BrowserIsHealthy /\ StrayIsHarmless /\ \A s \in Tabs : TabIsHealthy(s)
      BY <1>4 DEF SessionInv
    <2>2. BrowserIsHealthy'
      BY <1>3, <2>1 DEF BrowserIsHealthy, Good
    <2>3. \A s \in Tabs : tab'[s].pc = "answered" => tab'[s] = tab[s]
      BY <1>1
    <2>4. StrayIsHarmless'
      BY <1>3, <2>1, <2>3 DEF StrayIsHarmless, Session!Lost
    <2>5. ASSUME NEW s \in Tabs PROVE TabIsHealthy(s)'
      <3>1. CASE s = t
        BY <1>1, <1>4, <3>1 DEF TabIsHealthy
      <3>2. CASE s # t
        BY <1>1, <2>1, <3>2 DEF TabIsHealthy, Good
      <3> QED
        BY <3>1, <3>2
    <2> QED
      BY <2>2, <2>4, <2>5
  <1> QED
    BY <1>1, <1>2, <1>4 DEF SessionInv

LEMMA QuietTabs ==
    ASSUME Session!SessionAssumption, SessionInv, NEW t \in Tabs,
           \/ Session!Start(t) \/ Session!Enter(t) \/ Session!UseOther(t) \/ Session!FallThrough(t)
           \/ Session!Send(t) \/ Session!Fail(t)
    PROVE  SessionInv'
  <1>0. tab \in [Tabs -> Renewals] /\ tab[t] \in Renewals /\ token \in Nat /\ cookie \in Nat
    BY DEF SessionInv, SessionTypes
  <1>1. Session!Idle \in Renewals /\ Session!Idle.pc = "idle"
    BY DEF Session!Idle, Session!None, Renewals
  <1>2. UNCHANGED <<token, mark, cookie, session, leaving, stray, faults, cause>>
    BY DEF Session!Start, Session!Enter, Session!UseOther, Session!FallThrough, Session!Send, Session!Fail,
           Session!browser
  <1>a. CASE Session!Start(t)
    <2> DEFINE new == [Session!Idle EXCEPT !.pc = "waiting", !.stale = token]
    <2>1. tab' = [tab EXCEPT ![t] = new] /\ tab[t].pc = "idle" /\ lock' = lock
      BY <1>a DEF Session!Start
    <2>2. new \in Renewals /\ new.pc = "waiting"
      BY <1>0, <1>1 DEF Renewals
    <2> HIDE DEF new
    <2> QED
      BY <1>2, <2>1, <2>2, QuietTab DEF Busy
  <1>b. CASE Session!Enter(t)
    <2> DEFINE goes == IF token \notin {Session!None, tab[t].stale} /\ Session!Fresh(token) THEN "asking" ELSE "chosen"
               new == [tab[t] EXCEPT !.pc = goes]
    <2>1. tab' = [tab EXCEPT ![t] = new] /\ tab[t].pc = "waiting" /\ lock = NoTab /\ lock' = t
      BY <1>b DEF Session!Enter, Session!LockFree
    <2>2. goes \in {"asking", "chosen"}
      OBVIOUS
    <2> HIDE DEF goes
    <2>3. new \in Renewals /\ new.pc \in {"asking", "chosen"}
      BY <1>0, <2>2 DEF Renewals
    <2> HIDE DEF new
    <2> QED
      BY <1>2, <2>1, <2>3, QuietTab
  <1>c. CASE Session!UseOther(t) \/ Session!Fail(t)
    <2>1. tab' = [tab EXCEPT ![t] = Session!Idle] /\ tab[t].pc \in {"asking", "sent"} /\ Session!Unlock(t)
      BY <1>c DEF Session!UseOther, Session!Fail
    <2> QED
      BY <1>1, <1>2, <2>1, QuietTab DEF Busy
  <1>d. CASE Session!FallThrough(t)
    <2> DEFINE new == [tab[t] EXCEPT !.pc = "chosen"]
    <2>1. tab' = [tab EXCEPT ![t] = new] /\ tab[t].pc = "asking" /\ lock' = lock
      BY <1>d DEF Session!FallThrough
    <2>2. new \in Renewals /\ new.pc = "chosen"
      BY <1>0 DEF Renewals
    <2> HIDE DEF new
    <2> QED
      BY <1>2, <2>1, <2>2, QuietTab DEF Busy
  <1>e. CASE Session!Send(t)
    <2> DEFINE goes == IF mark THEN "sent" ELSE "refused"
               new == [tab[t] EXCEPT !.pc = goes, !.sends = cookie]
    <2>1. tab' = [tab EXCEPT ![t] = new] /\ tab[t].pc = "chosen" /\ lock' = lock
      BY <1>e DEF Session!Send
    <2>2. goes \in {"sent", "refused"} /\ (mark => goes = "sent")
      OBVIOUS
    <2> HIDE DEF goes
    <2>3. new \in Renewals /\ new.pc = goes /\ new.sends = cookie
      BY <1>0, <2>2 DEF Renewals
    <2> HIDE DEF new
    <2>4. ~cause => mark
      BY DEF SessionInv, BrowserIsHealthy
    <2> QED
      BY <1>2, <2>1, <2>2, <2>3, <2>4, QuietTab DEF Busy
  <1> QED
    BY <1>a, <1>b, <1>c, <1>d, <1>e

(* What the transaction of a refresh does to the row.                      *)
LEMMA ExecuteTypes ==
    ASSUME session \in Tokens, NEW c, Session!Execute(c)
    PROVE  /\ session' \in Tokens
           /\ Session!Accepted(c) =>
                /\ session'.current = session.current + 1 /\ session'.previous = session.current
                /\ session'.grace = TRUE /\ session'.alive = session.alive
           /\ ~Session!Accepted(c) /\ ~Session!Stolen(c) => session' = session
  <1>1. CASE Session!Accepted(c)
    <2>1. session' = [session EXCEPT !.current = session.current + 1, !.previous = session.current, !.grace = TRUE]
      BY <1>1 DEF Session!Execute, Session!Rotated
    <2>2. session.current \in Nat /\ session.current + 1 \in Nat
      BY DEF Tokens
    <2> QED
      BY <1>1, <2>1, <2>2 DEF Tokens
  <1>2. CASE ~Session!Accepted(c) /\ Session!Stolen(c)
    <2>1. session' = [session EXCEPT !.alive = FALSE]
      BY <1>2 DEF Session!Execute
    <2> QED
      BY <1>2, <2>1 DEF Tokens
  <1>3. CASE ~Session!Accepted(c) /\ ~Session!Stolen(c)
    BY <1>3 DEF Session!Execute
  <1> QED
    BY <1>1, <1>2, <1>3

(* The rotation: what a healthy browser sends is accepted.                 *)
LEMMA RefreshStep ==
    ASSUME Session!SessionAssumption, SessionInv, NEW t \in Tabs, Session!Refresh(t)
    PROVE  SessionInv'
  <1> DEFINE c == tab[t].sends
             gets == IF Session!Accepted(c) THEN session'.current ELSE Session!None
             new == [tab[t] EXCEPT !.pc = "answered", !.gets = gets]
  <1>1. tab \in [Tabs -> Renewals] /\ tab[t] \in Renewals /\ session \in Tokens
    BY DEF SessionInv, SessionTypes
  <1>2. /\ tab[t].pc = "sent" /\ tab' = [tab EXCEPT ![t] = new] /\ Session!Execute(c)
        /\ UNCHANGED <<token, mark, cookie, lock, leaving, stray, faults, cause>>
    BY <1>1 DEF Session!Refresh, Session!browser
  <1>3. session' \in Tokens
    BY <1>1, <1>2, ExecuteTypes
  <1>4. gets \in Nat
    BY <1>3 DEF Tokens, Session!None
  <1>5. Session!Accepted(c) => gets = session'.current
    OBVIOUS
  <1> HIDE DEF gets
  <1>6. new \in Renewals /\ new.pc = "answered" /\ new.gets = gets
    BY <1>1, <1>4 DEF Renewals
  <1> HIDE DEF new
  <1>7. /\ tab' \in [Tabs -> Renewals] /\ tab'[t] = new /\ \A s \in Tabs : s # t => tab'[s] = tab[s]
        /\ OneRenews' /\ \A s \in Tabs : s # t => tab[s].pc \notin Busy
    BY <1>2, <1>6, TabMoves DEF SessionInv, SessionTypes, Busy
  <1>8. SessionTypes' /\ (faults <= MaxLost)'
    BY <1>2, <1>3, <1>7 DEF SessionInv, SessionTypes
  <1>9. ASSUME ~cause PROVE (BrowserIsHealthy /\ StrayIsHarmless /\ \A s \in Tabs : TabIsHealthy(s))'
    <2>1. BrowserIsHealthy /\ StrayIsHarmless /\ c = cookie
      BY <1>2, <1>9 DEF SessionInv, TabIsHealthy
    <2>2. ~Answering /\ Answering'
      BY <1>2, <1>6, <1>7 DEF Answering, Busy
    <2>3. Session!Accepted(c)
      BY <2>1, <2>2 DEF BrowserIsHealthy, Good, Session!Accepted, Session!None
    <2>5. /\ session'.current = session.current + 1 /\ session'.previous = session.current
          /\ session'.grace = TRUE /\ session'.alive = session.alive /\ session.current \in Nat
      BY <1>1, <1>2, <2>3, ExecuteTypes DEF Tokens
    <2>6. new.gets = session'.current
      BY <1>5, <1>6, <2>3
    <2>7. cookie' = cookie /\ cookie \in Nat /\ cookie # 0 /\ cookie <= session.current
      BY <1>2, <2>1 DEF BrowserIsHealthy, SessionInv, SessionTypes
    <2>8. cookie' <= session'.current /\ session'.previous < session'.current /\ cookie' < session'.current
      BY <2>5, <2>7
    <2>9. BrowserIsHealthy'
      BY <1>2, <2>1, <2>2, <2>5, <2>7, <2>8 DEF BrowserIsHealthy
    <2>10. \A s \in Tabs : tab'[s].pc = "answered" => s = t
      BY <1>7 DEF Busy
    <2>11. StrayIsHarmless'
      BY <1>2, <1>7, <2>1, <2>2, <2>5, <2>6, <2>10 DEF StrayIsHarmless, Session!Lost
    <2>12. ASSUME NEW s \in Tabs PROVE TabIsHealthy(s)'
      <3>1. CASE s = t
        <4>1. tab'[s].pc = "answered" /\ tab'[s].gets = session'.current /\ session'.current # 0
          BY <1>6, <1>7, <2>5, <2>6, <3>1
        <4> QED
          BY <2>8, <4>1 DEF TabIsHealthy, Good
      <3>2. CASE s # t
        BY <1>7, <3>2 DEF TabIsHealthy, Busy
      <3> QED
        BY <3>1, <3>2
    <2> QED
      BY <2>9, <2>11, <2>12
  <1> QED
    BY <1>2, <1>7, <1>8, <1>9 DEF SessionInv

(* The browser takes the cookie of the answer, then the tab its token.     *)
LEMMA ReceiveStep ==
    ASSUME Session!SessionAssumption, SessionInv, NEW t \in Tabs, Session!Receive(t)
    PROVE  SessionInv'
  <1> DEFINE goes == IF tab[t].gets = Session!None THEN "refused" ELSE "renewed"
             new == [tab[t] EXCEPT !.pc = goes]
  <1>1. tab \in [Tabs -> Renewals] /\ tab[t] \in Renewals /\ session \in Tokens /\ cookie \in Nat
    BY DEF SessionInv, SessionTypes
  <1>2. /\ tab[t].pc = "answered" /\ tab' = [tab EXCEPT ![t] = new] /\ lock' = lock
        /\ cookie' = IF tab[t].gets = 0 THEN cookie ELSE tab[t].gets
        /\ UNCHANGED <<token, mark, session, leaving, stray, faults, cause>>
    BY DEF Session!Receive, Session!None
  <1>3. goes \in {"refused", "renewed"} /\ (tab[t].gets # 0 => goes = "renewed")
    BY DEF Session!None
  <1> HIDE DEF goes
  <1>4. new \in Renewals /\ new.pc = goes /\ new.gets = tab[t].gets
    BY <1>1, <1>3 DEF Renewals
  <1> HIDE DEF new
  <1>5. /\ tab' \in [Tabs -> Renewals] /\ tab'[t] = new /\ \A s \in Tabs : s # t => tab'[s] = tab[s]
        /\ OneRenews' /\ \A s \in Tabs : s # t => tab[s].pc \notin Busy
    BY <1>2, <1>4, TabMoves DEF SessionInv, SessionTypes, Busy
  <1>6. cookie' \in Nat
    BY <1>1, <1>2 DEF Renewals
  <1>7. SessionTypes' /\ (faults <= MaxLost)'
    BY <1>2, <1>5, <1>6 DEF SessionInv, SessionTypes
  <1>8. ASSUME ~cause PROVE (BrowserIsHealthy /\ StrayIsHarmless /\ \A s \in Tabs : TabIsHealthy(s))'
    <2>1. BrowserIsHealthy /\ StrayIsHarmless /\ TabIsHealthy(t)
      BY <1>8 DEF SessionInv
    <2>2. /\ cookie' = tab[t].gets /\ cookie' # 0 /\ Good(cookie') /\ goes = "renewed"
      BY <1>2, <1>3, <2>1 DEF TabIsHealthy
    <2>3. ~Answering'
      BY <1>3, <1>4, <1>5 DEF Answering, Busy
    <2>4. cookie' <= session.current
      <3>1. session.previous < session.current /\ session.previous \in Nat /\ session.current \in Nat
        BY <1>1, <2>1 DEF BrowserIsHealthy, Tokens
      <3> QED
        BY <1>6, <2>2, <3>1 DEF Good
    <2>5. BrowserIsHealthy'
      BY <1>2, <2>1, <2>2, <2>4 DEF BrowserIsHealthy, Good
    <2>6. StrayIsHarmless'
      BY <1>2, <2>1, <2>2, <2>3 DEF StrayIsHarmless, Session!Lost, Answering
    <2>7. ASSUME NEW s \in Tabs PROVE TabIsHealthy(s)'
      <3>1. CASE s = t
        BY <1>4, <1>5, <2>2, <3>1 DEF TabIsHealthy
      <3>2. CASE s # t
        BY <1>5, <3>2 DEF TabIsHealthy, Busy
      <3> QED
        BY <3>1, <3>2
    <2> QED
      BY <2>5, <2>6, <2>7
  <1> QED
    BY <1>2, <1>5, <1>7, <1>8 DEF SessionInv

LEMMA StoreStep ==
    ASSUME Session!SessionAssumption, SessionInv, NEW t \in Tabs, Session!Store(t)
    PROVE  SessionInv'
  <1>1. Session!Idle \in Renewals /\ Session!Idle.pc = "idle"
    BY DEF Session!Idle, Session!None, Renewals
  <1>2. tab \in [Tabs -> Renewals] /\ tab[t] \in Renewals /\ tab[t].gets \in Nat
    BY DEF SessionInv, SessionTypes, Renewals
  <1>3. /\ tab[t].pc = "renewed" /\ tab' = [tab EXCEPT ![t] = Session!Idle] /\ Session!Unlock(t)
        /\ token' = tab[t].gets /\ mark' = TRUE
        /\ UNCHANGED <<cookie, session, leaving, stray, faults, cause>>
    BY DEF Session!Store
  <1>4. /\ tab' \in [Tabs -> Renewals] /\ tab'[t] = Session!Idle /\ \A s \in Tabs : s # t => tab'[s] = tab[s]
        /\ OneRenews'
    BY <1>1, <1>2, <1>3, TabMoves DEF SessionInv, Busy
  <1>5. SessionTypes' /\ (faults <= MaxLost)'
    BY <1>2, <1>3, <1>4 DEF SessionInv, SessionTypes
  <1>6. \A s \in Tabs : tab'[s].pc = "answered" => tab'[s] = tab[s]
    BY <1>1, <1>4
  <1>7. Answering' <=> Answering
    BY <1>1, <1>3, <1>4 DEF Answering
  <1>8. ASSUME ~cause PROVE (BrowserIsHealthy /\ StrayIsHarmless /\ \A s \in Tabs : TabIsHealthy(s))'
    <2>1. BrowserIsHealthy /\ StrayIsHarmless /\ \A s \in Tabs : TabIsHealthy(s)
      BY <1>8 DEF SessionInv
    <2>2. tab[t].gets # 0
      BY <1>3, <2>1 DEF TabIsHealthy
    <2>3. BrowserIsHealthy'
      BY <1>3, <1>7, <2>1, <2>2 DEF BrowserIsHealthy, Good
    <2>4. StrayIsHarmless'
      BY <1>3, <1>6, <1>7, <2>1 DEF StrayIsHarmless, Session!Lost
    <2>5. ASSUME NEW s \in Tabs PROVE TabIsHealthy(s)'
      <3>1. CASE s = t
        BY <1>1, <1>4, <3>1 DEF TabIsHealthy
      <3>2. CASE s # t
        BY <1>3, <1>4, <2>1, <3>2 DEF TabIsHealthy, Good
      <3> QED
        BY <3>1, <3>2
    <2> QED
      BY <2>3, <2>4, <2>5
  <1> QED
    BY <1>3, <1>4, <1>5, <1>8 DEF SessionInv

(* An answer that is lost, or may yet be: the browser is no further behind *)
(* than the previous token, or the loss is a cause.                        *)
LEMMA AbandonStep ==
    ASSUME Session!SessionAssumption, SessionInv, NEW t \in Tabs, Session!Abandon(t)
    PROVE  SessionInv'
  <1>1. Session!Idle \in Renewals /\ Session!Idle.pc = "idle"
    BY DEF Session!Idle, Session!None, Renewals
  <1>2. tab \in [Tabs -> Renewals] /\ tab[t] \in Renewals /\ tab[t].sends \in Nat /\ session \in Tokens
    BY DEF SessionInv, SessionTypes, Renewals
  <1>3. /\ tab[t].pc \in {"sent", "answered"} /\ tab' = [tab EXCEPT ![t] = Session!Idle] /\ Session!Unlock(t)
        /\ faults > 0 /\ faults' = faults - 1 /\ stray = 0
        /\ stray' = IF tab[t].pc = "sent" THEN tab[t].sends ELSE 0
        /\ UNCHANGED <<token, mark, cookie, session, leaving>>
    BY DEF Session!Abandon, Session!browser, Session!None
  <1>4. cause' = (cause \/ Session!LosesTheCookie(t))
    BY DEF Session!Abandon
  <1>5. cause' \in BOOLEAN
    BY <1>4
  <1>6. /\ tab' \in [Tabs -> Renewals] /\ tab'[t] = Session!Idle /\ \A s \in Tabs : s # t => tab'[s] = tab[s]
        /\ OneRenews' /\ \A s \in Tabs : s # t => tab[s].pc \notin Busy
    BY <1>1, <1>2, <1>3, TabMoves DEF SessionInv, Busy
  <1>7. faults' \in Nat /\ faults' < MaxLost
    BY <1>3 DEF SessionInv, SessionTypes, Session!SessionAssumption
  <1>8. stray' \in Nat
    BY <1>2, <1>3
  <1>9. SessionTypes'
    BY <1>3, <1>5, <1>6, <1>7, <1>8 DEF SessionInv, SessionTypes
  <1>10. (faults <= MaxLost)'
    BY <1>7 DEF Session!SessionAssumption
  <1>11. ASSUME ~cause' PROVE (BrowserIsHealthy /\ StrayIsHarmless /\ \A s \in Tabs : TabIsHealthy(s))'
    <2>1. ~cause /\ ~Session!LosesTheCookie(t)
      BY <1>4, <1>11
    <2>2. BrowserIsHealthy /\ StrayIsHarmless /\ TabIsHealthy(t)
      BY <2>1 DEF SessionInv
    <2>3. \A s \in Tabs : tab'[s].pc \notin Busy
      BY <1>1, <1>6 DEF Busy
    <2>4. ~Answering'
      BY <2>3 DEF Answering, Busy
    <2>5. Session!Lost'
      BY <1>7 DEF Session!Lost
    <2>6. \A s \in Tabs : TabIsHealthy(s)'
      BY <2>3 DEF TabIsHealthy, Busy
    <2>7. CASE tab[t].pc = "sent"
      <3>1. cookie = session.current /\ stray' = cookie
        BY <1>3, <2>1, <2>2, <2>7 DEF Session!LosesTheCookie, TabIsHealthy
      <3>2. session.previous # session.current
        BY <1>2, <2>2 DEF BrowserIsHealthy, Tokens
      <3>3. BrowserIsHealthy'
        BY <1>3, <2>2, <3>1 DEF BrowserIsHealthy, Good
      <3>4. StrayIsHarmless'
        BY <1>3, <2>3, <2>5, <3>1, <3>2 DEF StrayIsHarmless, Busy
      <3> QED
        BY <2>6, <3>3, <3>4
    <2>8. CASE tab[t].pc = "answered"
      <3>1. session.grace /\ cookie = session.previous
        BY <2>1, <2>2, <2>8 DEF Session!LosesTheCookie, TabIsHealthy, Session!None
      <3>2. stray' = 0
        BY <1>3, <2>8
      <3>3. BrowserIsHealthy'
        BY <1>3, <2>2, <3>1 DEF BrowserIsHealthy, Good
      <3>4. StrayIsHarmless'
        BY <2>5, <3>2 DEF StrayIsHarmless
      <3> QED
        BY <2>6, <3>3, <3>4
    <2> QED
      BY <1>3, <2>7, <2>8
  <1> QED
    BY <1>6, <1>9, <1>10, <1>11 DEF SessionInv

(* A request of a tab that is gone is no theft while it is the current     *)
(* token, or the previous one within its grace; it leaves the cookie one   *)
(* behind at most.                                                         *)
LEMMA StrayStep ==
    ASSUME SessionInv, Session!StrayArrives
    PROVE  SessionInv'
  <1>1. /\ stray # 0 /\ stray' = 0 /\ Session!Execute(stray)
        /\ UNCHANGED <<token, mark, cookie, lock, tab, leaving, faults, cause>>
    BY DEF Session!StrayArrives, Session!browser, Session!None
  <1>2. session \in Tokens /\ cookie \in Nat
    BY DEF SessionInv, SessionTypes
  <1>3. session' \in Tokens
    BY <1>1, <1>2, ExecuteTypes
  <1>4. SessionTypes' /\ OneRenews' /\ (faults <= MaxLost)'
    BY <1>1, <1>3 DEF SessionInv, SessionTypes, OneRenews
  <1>5. Answering' <=> Answering
    BY <1>1 DEF Answering
  <1>6. ASSUME ~cause PROVE (BrowserIsHealthy /\ StrayIsHarmless /\ \A s \in Tabs : TabIsHealthy(s))'
    <2>1. BrowserIsHealthy /\ StrayIsHarmless /\ \A s \in Tabs : TabIsHealthy(s)
      BY <1>6 DEF SessionInv
    <2>2. /\ Session!Lost /\ (stray = session.previous => session.grace)
          /\ ~Answering => cookie = session.current
          /\ \A s \in Tabs : tab[s].pc = "answered" => tab[s].gets = session.current
      BY <1>1, <2>1 DEF StrayIsHarmless
    <2>3. StrayIsHarmless'
      BY <1>1, <2>2 DEF StrayIsHarmless, Session!Lost
    <2>4. CASE Session!Accepted(stray)
      <3>1. /\ session'.current = session.current + 1 /\ session'.previous = session.current
            /\ session'.grace = TRUE /\ session'.alive = session.alive /\ session.current \in Nat
        BY <1>1, <1>2, <2>4, ExecuteTypes DEF Tokens
      <3>2. cookie <= session'.current /\ session'.previous < session'.current
        BY <1>2, <2>1, <3>1 DEF BrowserIsHealthy
      <3>3. BrowserIsHealthy'
        BY <1>1, <1>5, <2>1, <2>2, <3>1, <3>2 DEF BrowserIsHealthy, Good
      <3>4. \A s \in Tabs : TabIsHealthy(s)'
        BY <1>1, <2>1, <2>2, <3>1 DEF TabIsHealthy, Good
      <3> QED
        BY <2>3, <3>3, <3>4
    <2>5. CASE ~Session!Accepted(stray)
      <3>1. ~Session!Stolen(stray)
        BY <2>2 DEF Session!Stolen
      <3>2. session' = session
        BY <1>1, <1>2, <2>5, <3>1, ExecuteTypes
      <3>3. BrowserIsHealthy'
        BY <1>1, <1>5, <2>1, <3>2 DEF BrowserIsHealthy, Good
      <3>4. \A s \in Tabs : TabIsHealthy(s)'
        BY <1>1, <2>1, <3>2 DEF TabIsHealthy, Good
      <3> QED
        BY <2>3, <3>3, <3>4
    <2> QED
      BY <2>4, <2>5
  <1> QED
    BY <1>1, <1>4, <1>6 DEF SessionInv

(* The grace ends: the browser has the current token or is about to.       *)
LEMMA GraceStep ==
    ASSUME SessionInv, Session!GraceEnds
    PROVE  SessionInv'
  <1>1. /\ session' = [session EXCEPT !.grace = FALSE]
        /\ cause' = (cause \/ (Session!Lost /\ (cookie # session.current \/ stray # 0)))
        /\ UNCHANGED <<token, mark, cookie, lock, tab, leaving, stray, faults>>
    BY DEF Session!GraceEnds, Session!browser, Session!None
  <1>2. session \in Tokens /\ cookie \in Nat /\ tab \in [Tabs -> Renewals]
    BY DEF SessionInv, SessionTypes
  <1>3. /\ session'.current = session.current /\ session'.previous = session.previous
        /\ session'.grace = FALSE /\ session'.alive = session.alive /\ session' \in Tokens
    BY <1>1, <1>2 DEF Tokens
  <1>4. cause' \in BOOLEAN
    BY <1>1
  <1>5. SessionTypes'
    BY <1>1, <1>3, <1>4 DEF SessionInv, SessionTypes
  <1>6. OneRenews' /\ (faults <= MaxLost)'
    BY <1>1 DEF SessionInv, OneRenews
  <1>7. Answering' <=> Answering
    BY <1>1 DEF Answering
  <1>8. ASSUME ~cause' PROVE (BrowserIsHealthy /\ StrayIsHarmless /\ \A s \in Tabs : TabIsHealthy(s))'
    <2>1. BrowserIsHealthy /\ StrayIsHarmless /\ \A s \in Tabs : TabIsHealthy(s)
      BY <1>1, <1>8 DEF SessionInv
    <2>2. /\ stray = 0
          /\ ~Answering => cookie = session.current
          /\ \A s \in Tabs : tab[s].pc = "answered" => tab[s].gets = session.current
      <3>1. CASE Session!Lost
        <4>1. cookie = session.current /\ stray = 0
          BY <1>1, <1>8, <3>1
        <4>2. ASSUME NEW s \in Tabs, tab[s].pc = "answered" PROVE FALSE
          <5>1. tab[s].gets \in Nat /\ Good(tab[s].gets) /\ cookie < tab[s].gets
            BY <1>2, <2>1, <4>2 DEF Renewals, TabIsHealthy
          <5>2. session.previous < session.current /\ session.previous \in Nat /\ session.current \in Nat
            BY <1>2, <2>1 DEF BrowserIsHealthy, Tokens
          <5>3. tab[s].gets <= session.current
            BY <5>1, <5>2 DEF Good
          <5> QED
            BY <4>1, <5>1, <5>2, <5>3
        <4> QED
          BY <4>1, <4>2
      <3>2. CASE ~Session!Lost
        BY <2>1, <3>2 DEF StrayIsHarmless
      <3> QED
        BY <3>1, <3>2
    <2>3. BrowserIsHealthy'
      BY <1>1, <1>3, <1>7, <2>1, <2>2 DEF BrowserIsHealthy, Good
    <2>4. StrayIsHarmless'
      BY <1>1, <1>3, <1>7, <2>2 DEF StrayIsHarmless
    <2>5. \A s \in Tabs : TabIsHealthy(s)'
      BY <1>1, <1>3, <2>1, <2>2 DEF TabIsHealthy, Good
    <2> QED
      BY <2>3, <2>4, <2>5
  <1> QED
    BY <1>5, <1>6, <1>8 DEF SessionInv

(* Whatever ends the session has a cause.                                  *)
LEMMA EndStep ==
    ASSUME Session!SessionAssumption, SessionInv,
           \/ \E t \in Tabs : Session!Refused(t)
           \/ Session!Logout \/ Session!LogoutArrives \/ Session!LogoutEnds \/ Session!Revoke
    PROVE  SessionInv'
  <1>1. leaving \in [pc : {"no", "sent", "answered"}, sends : Nat] /\ cookie \in Nat /\ session \in Tokens
    BY DEF SessionInv, SessionTypes
  <1>2. Session!SendLogout => token' \in Nat /\ leaving' \in [pc : {"no", "sent", "answered"}, sends : Nat]
    BY <1>1 DEF Session!SendLogout, Session!None
  <1>a. CASE \E t \in Tabs : Session!Refused(t)
    <2>1. PICK t \in Tabs : Session!Refused(t)
      BY <1>a
    <2>2. Session!Idle \in Renewals /\ Session!Idle.pc = "idle"
      BY DEF Session!Idle, Session!None, Renewals
    <2>3. /\ tab[t].pc = "refused" /\ tab' = [tab EXCEPT ![t] = Session!Idle] /\ Session!Unlock(t)
          /\ UNCHANGED <<mark, cookie, session, stray, faults, cause>> /\ Session!SendLogout
      BY <2>1 DEF Session!Refused
    <2>4. tab' \in [Tabs -> Renewals] /\ OneRenews'
      BY <2>2, <2>3, TabMoves DEF SessionInv, SessionTypes, Busy
    <2>5. cause
      BY <2>3 DEF SessionInv, TabIsHealthy
    <2>6. SessionTypes'
      BY <1>2, <2>3, <2>4 DEF SessionInv, SessionTypes
    <2> QED
      BY <2>3, <2>4, <2>5, <2>6 DEF SessionInv
  <1>b. CASE Session!Logout
    <2>1. cause' = TRUE /\ UNCHANGED <<mark, cookie, session, lock, tab, stray, faults>> /\ Session!SendLogout
      BY <1>b DEF Session!Logout
    <2>2. cause' \in BOOLEAN /\ cause'
      BY <2>1
    <2> QED
      BY <1>2, <2>1, <2>2 DEF SessionInv, SessionTypes, OneRenews
  <1>c. CASE Session!LogoutArrives
    <2>1. /\ leaving.pc = "sent" /\ leaving' = [leaving EXCEPT !.pc = "answered"]
          /\ session' = [session EXCEPT !.alive = session.alive /\ leaving.sends # session.current]
          /\ UNCHANGED <<token, mark, cookie, lock, tab, stray, faults, cause>>
      BY <1>c DEF Session!LogoutArrives, Session!browser
    <2>2. leaving' \in [pc : {"no", "sent", "answered"}, sends : Nat]
      BY <1>1, <2>1
    <2>3. session' \in Tokens
      <3>1. (session.alive /\ leaving.sends # session.current) \in BOOLEAN
        OBVIOUS
      <3> QED
        BY <1>1, <2>1, <3>1 DEF Tokens
    <2>4. cause
      BY <2>1 DEF SessionInv, BrowserIsHealthy
    <2> QED
      BY <2>1, <2>2, <2>3, <2>4 DEF SessionInv, SessionTypes, OneRenews
  <1>d. CASE Session!LogoutEnds
    <2>1. /\ leaving.pc # "no" /\ leaving' = Session!Here /\ mark' = FALSE
          /\ cookie' = IF leaving.pc = "answered" THEN 0 ELSE cookie
          /\ UNCHANGED <<token, session, lock, tab, stray, faults, cause>>
      BY <1>d DEF Session!LogoutEnds, Session!None
    <2>2. leaving' \in [pc : {"no", "sent", "answered"}, sends : Nat] /\ cookie' \in Nat /\ mark' \in BOOLEAN
      BY <1>1, <2>1 DEF Session!Here, Session!None
    <2>3. cause
      BY <2>1 DEF SessionInv, BrowserIsHealthy
    <2> QED
      BY <2>1, <2>2, <2>3 DEF SessionInv, SessionTypes, OneRenews
  <1>e. CASE Session!Revoke
    <2>1. /\ session' = [session EXCEPT !.alive = FALSE] /\ cause' = TRUE
          /\ UNCHANGED <<token, mark, cookie, lock, tab, leaving, stray, faults>>
      BY <1>e DEF Session!Revoke, Session!browser
    <2>2. session' \in Tokens /\ cause' \in BOOLEAN /\ cause'
      BY <1>1, <2>1 DEF Tokens
    <2> QED
      BY <2>1, <2>2 DEF SessionInv, SessionTypes, OneRenews
  <1> QED
    BY <1>a, <1>b, <1>c, <1>d, <1>e

LEMMA SessionStep ==
    ASSUME Session!SessionAssumption, SessionInv, [Session!Next]_(Session!vars)
    PROVE  SessionInv'
  <1>1. CASE Session!TokenAges \/ UNCHANGED Session!vars
    <2>1. UNCHANGED <<token, mark, cookie, session, lock, tab, leaving, stray, faults, cause>>
      BY <1>1 DEF Session!TokenAges, Session!vars, Session!browser
    <2>2. Answering' <=> Answering
      BY <2>1 DEF Answering
    <2> QED
      BY <2>1, <2>2 DEF SessionInv, SessionTypes, OneRenews, BrowserIsHealthy, StrayIsHarmless, TabIsHealthy,
                        Good, Session!Lost
  <1>2. CASE Session!Next /\ ~Session!TokenAges
    BY <1>2, QuietTabs, RefreshStep, ReceiveStep, StoreStep, AbandonStep, StrayStep, GraceStep, EndStep
       DEF Session!Next
  <1> QED
    BY <1>1, <1>2

LEMMA SessionIsKept == Spec => [](service = "session" => SessionInv)
  <1>1. Init => (service = "session" => SessionInv)
    BY ServicesAssumption, SessionInit DEF Init
  <1>2. (service = "session" => SessionInv) /\ [Next]_vars => (service = "session" => SessionInv)'
    <2> SUFFICES ASSUME service = "session" => SessionInv, [Next]_vars, service' = "session" PROVE SessionInv'
      OBVIOUS
    <2>1. service = "session" /\ [Session!Next]_(Session!vars)
      BY DEF Next, vars, ClientsOnly, SessionOnly, Session!vars
    <2> QED
      BY <2>1, ServicesAssumption, SessionStep
  <1> QED
    BY <1>1, <1>2, PTL DEF Spec

(* NobodyIsLoggedOut: as long as nobody ends the session, and no two       *)
(* answers are lost in a row, nobody is logged out, however many tabs      *)
(* renew at once.                                                          *)
THEOREM TabsKeepTheSession == Spec => []NobodyIsLoggedOut
  <1>1. (service = "session" => SessionInv) => NobodyIsLoggedOut
    BY DEF SessionInv, BrowserIsHealthy, NobodyIsLoggedOut, Session!NobodyIsLoggedOut, Session!None
  <1> QED
    BY <1>1, SessionIsKept, PTL

-----------------------------------------------------------------------------
(* The intake of notifications. An ingestion holds the lock of its event   *)
(* and nothing of the event appears or vanishes under it, but by           *)
(* retention; what a read transaction has chosen stays its choice, but for *)
(* the events that are stored meanwhile.                                   *)
Marks     == {"none", "unread", "read"}
Kinds     == {m.type : m \in Messages} \union {"none"}
Rows      == [read : BOOLEAN, linked : BOOLEAN, exists : BOOLEAN]
Targets   == Events \X Destinations
Seconds   ==
    [of : {"item"}, row : Targets] \union [of : {"items", "rows"}] \union [of : {"links", "push"}, event : Events]
Works     ==
    [pc : {"free"}] \union [pc : {"taken", "stored"}, msg : Messages, live : BOOLEAN]
    \union [pc : {"open"}, msg : Messages, live : BOOLEAN, rows : [Destinations -> Rows], items : [Recipients -> Marks]]
Reads     ==
    [pc : {"closed"}]
    \union [pc : {"open"}, user : Recipients, second : Seconds, rows : SUBSET Targets, items : SUBSET Events]

IntakeTypes ==
    /\ queue \in [Messages -> [at : {"unsent", "ready", "taken", "acked", "dead"}, returns : Nat]]
    /\ handler \in [Handlers -> Works]
    /\ inbox \in [Events -> [Recipients -> Marks]]
    /\ deliveries \in [Events -> [Destinations -> Rows]]
    /\ stored \in [Events -> Kinds]
    /\ request \in [Requests -> Reads]

Spoilt == raced \union purged

(* The rows of an event are those of a version 1 copy.                     *)
HasVersion1(e) == \E m \in Messages : m.event = e /\ m.version = 1

EventInv(e) ==
    /\ \A d \in Destinations : ~deliveries[e][d].exists => ~deliveries[e][d].read /\ ~deliveries[e][d].linked
    /\ Intake!HasDeliveries(e) => HasVersion1(e) /\ stored[e] = Intake!Version1(e).type
    /\ e \notin purged /\ HasVersion1(e) /\ stored[e] = Intake!Version1(e).type /\ Intake!HasItems(e) =>
          inbox[e][Intake!Owner(e)] # "none"
    /\ e \notin purged /\ Intake!HasDeliveries(e) =>
          /\ \A d \in Destinations : deliveries[e][d].exists
          /\ IF Intake!HasItems(e) THEN \A d \in Destinations : deliveries[e][d].linked
             ELSE \A d \in Destinations : ~deliveries[e][d].linked

Agree(e) ==
    Intake!HasDeliveries(e) /\ Intake!HasItems(e) =>
        (inbox[e][Intake!Owner(e)] = "read") = (\A d \in Destinations : deliveries[e][d].read)

(* A row for a device stands beside an item, which retention keeps for it, *)
(* and beside no delivery, which its ingestion would have linked instead.  *)
PushInv ==
    /\ pushes \subseteq Events \X Recipients
    /\ \A e \in Events, u \in Recipients : <<e, u>> \in pushes => inbox[e][u] # "none" /\ ~Intake!HasDeliveries(e)

(* What an ingestion has read is still so: nothing appears under its lock, *)
(* and nothing vanishes but by retention.                                  *)
ViewInv(h) ==
    LET m == handler[h].msg
        e == m.event
    IN  /\ ~m.own
        /\ \A u \in Recipients : handler[h].items[u] = "none" => inbox[e][u] = "none"
        /\ \A d \in Destinations : ~handler[h].rows[d].exists => ~deliveries[e][d].exists
        /\ e \notin purged => \A u \in Recipients : handler[h].items[u] # "none" => inbox[e][u] # "none"
        /\ Intake!HasRows(handler[h].rows) => HasVersion1(e) /\ m.type = Intake!Version1(e).type
        /\ m.version = 1 /\ (\E u \in Recipients : handler[h].items[u] # "none") =>
              e \in purged \/ handler[h].items[Intake!Owner(e)] # "none"
        /\ e \notin Spoilt => handler[h].rows = deliveries[e] /\ handler[h].items = inbox[e]

OneIngest ==
    \A g, h \in Handlers :
        handler[g].pc = "open" /\ handler[h].pc = "open" /\ handler[g].msg.event = handler[h].msg.event => g = h

IsStored(m) == ~m.own /\ m.event \notin purged => \A u \in m.to : inbox[m.event][u] # "none"

StoredInv ==
    /\ \A m \in Messages : queue[m].at = "acked" => IsStored(m)
    /\ \A h \in Handlers : handler[h].pc = "stored" => IsStored(handler[h].msg)

(* What the first statement of a read transaction has chosen.              *)
ChoiceInv(q) ==
    LET second == request[q].second
    IN  /\ second.of = "item" =>
              LET e == second.row[1]
              IN  /\ request[q].user = Intake!Owner(e) /\ request[q].rows \subseteq {e} \X Destinations
                  /\ e \notin Spoilt /\ deliveries[e][second.row[2]].linked => {e} \X Destinations \subseteq request[q].rows
        /\ second.of = "items" =>
              \A e \in Events \ Spoilt, d \in Destinations :
                  <<e, d>> \in request[q].rows <=> deliveries[e][d].exists /\ Intake!Owner(e) = request[q].user
        /\ second.of = "push" => request[q].rows = {}
        /\ second.of = "links" => request[q].items = {second.event}
        /\ second.of = "rows" =>
              \A e \in Events \ Spoilt : e \in request[q].items <=> inbox[e][request[q].user] # "none"

IntakeInv ==
    /\ IntakeTypes
    /\ \A e \in Events : EventInv(e)
    /\ PushInv
    /\ \A h \in Handlers : handler[h].pc = "open" => ViewInv(h)
    /\ OneIngest
    /\ StoredInv
    /\ \A q \in Requests : request[q].pc = "open" => ChoiceInv(q)
    /\ \A e \in Events : e \notin Spoilt => Agree(e)

(* The user of an event that has a version 1 copy.                         *)
LEMMA OwnerIsTheRecipient ==
    ASSUME Intake!IntakeAssumption, NEW e \in Events, HasVersion1(e)
    PROVE  /\ Intake!Owner(e) \in Recipients
           /\ \A m \in Messages : m.event = e /\ m.version = 1 => m.type = Intake!Version1(e).type
           /\ \A m \in Messages : m.event = e /\ m.type = Intake!Version1(e).type => m.to = {Intake!Owner(e)}
  <1> DEFINE v == Intake!Version1(e)
  <1>1. v \in Messages /\ v.event = e /\ v.version = 1
    BY DEF HasVersion1, Intake!Version1
  <1>2. PICK u \in Recipients : v.to = {u}
    BY <1>1 DEF Intake!IntakeAssumption
  <1>3. Intake!Owner(e) = u
    BY <1>2 DEF Intake!Owner
  <1>4. \A m \in Messages : m.event = e /\ m.version = 1 => m.type = v.type
    BY <1>1 DEF Intake!IntakeAssumption
  <1>5. \A m \in Messages : m.event = e /\ m.type = v.type => m.to = v.to
    BY <1>1 DEF Intake!IntakeAssumption
  <1> QED
    BY <1>2, <1>3, <1>4, <1>5

LEMMA IntakeInit == ASSUME Intake!IntakeAssumption, Intake!Init PROVE IntakeInv
  <1>1. /\ handler = [h \in Handlers |-> Intake!Free]
        /\ inbox = [e \in Events |-> [u \in Recipients |-> "none"]]
        /\ request = [q \in Requests |-> Intake!Closed]
    BY DEF Intake!Init
  <1>2. PICK batch \in Batches :
          queue = [m \in Messages |-> [at |-> IF m \in batch THEN "ready" ELSE "unsent", returns |-> 0]]
    BY DEF Intake!Init
  <1>3. PICK old \in SUBSET Legacy, read \in [Destinations -> BOOLEAN] :
          /\ deliveries = [e \in Events |-> [d \in Destinations |->
                             IF e \in old THEN Intake!Row(read[d], FALSE) ELSE Intake!Missing]]
          /\ stored = [e \in Events |-> IF e \in old THEN Intake!Version1(e).type ELSE "none"]
    BY DEF Intake!Init
  <1>4. \A e \in Events : e \in old => HasVersion1(e)
    BY <1>3 DEF Intake!IntakeAssumption, HasVersion1
  <1>5. \A e \in Events : e \in old => Intake!Version1(e) \in Messages
    BY <1>4 DEF HasVersion1, Intake!Version1
  <1>6. queue \in [Messages -> [at : {"unsent", "ready", "taken", "acked", "dead"}, returns : Nat]]
    BY <1>2
  <1>7. handler \in [Handlers -> Works] /\ \A h \in Handlers : handler[h].pc = "free"
    BY <1>1 DEF Works, Intake!Free
  <1>8. inbox \in [Events -> [Recipients -> Marks]]
    BY <1>1 DEF Marks
  <1>9. deliveries \in [Events -> [Destinations -> Rows]]
    BY <1>3 DEF Rows, Intake!Row, Intake!Missing
  <1>10. stored \in [Events -> Kinds]
    BY <1>3, <1>5 DEF Kinds
  <1>11. request \in [Requests -> Reads] /\ \A q \in Requests : request[q].pc = "closed"
    BY <1>1 DEF Reads, Intake!Closed
  <1>12. IntakeTypes
    BY <1>6, <1>7, <1>8, <1>9, <1>10, <1>11 DEF IntakeTypes
  <1>13. ASSUME NEW e \in Events PROVE EventInv(e) /\ Agree(e)
    <2>1. ~Intake!HasItems(e)
      BY <1>1 DEF Intake!HasItems
    <2>2. CASE e \in old
      <3>1. /\ \A d \in Destinations : deliveries[e][d].exists /\ ~deliveries[e][d].linked
            /\ stored[e] = Intake!Version1(e).type
        BY <1>3, <2>2 DEF Intake!Row
      <3> QED
        BY <1>4, <2>1, <2>2, <3>1 DEF EventInv, Agree
    <2>3. CASE e \notin old
      <3>1. \A d \in Destinations : ~deliveries[e][d].exists /\ ~deliveries[e][d].linked /\ ~deliveries[e][d].read
        BY <1>3, <2>3 DEF Intake!Missing
      <3> QED
        BY <2>1, <3>1 DEF EventInv, Agree, Intake!HasDeliveries
    <2> QED
      BY <2>2, <2>3
  <1>14. StoredInv
    BY <1>2, <1>7 DEF StoredInv
  <1>15. OneIngest
    BY <1>7 DEF OneIngest
  <1>16. PushInv
    BY DEF Intake!Init, PushInv
  <1> QED
    BY <1>7, <1>11, <1>12, <1>13, <1>14, <1>15, <1>16 DEF IntakeInv

(* What a step leaves alone of an event.                                   *)
LEMMA OtherEvents ==
    ASSUME NEW e \in Events, inbox'[e] = inbox[e], deliveries'[e] = deliveries[e], stored'[e] = stored[e],
           purged \subseteq purged', raced \subseteq raced'
    PROVE  /\ EventInv(e) => EventInv(e)'
           /\ (e \notin Spoilt => Agree(e)) => (e \notin Spoilt' => Agree(e)')
           /\ \A m \in Messages : m.event = e /\ IsStored(m) => IsStored(m)'
           /\ \A h \in Handlers : handler'[h] = handler[h] /\ handler[h].msg.event = e /\ ViewInv(h) => ViewInv(h)'
  <1>1. Intake!HasItems(e)' = Intake!HasItems(e) /\ Intake!HasDeliveries(e)' = Intake!HasDeliveries(e)
    BY DEF Intake!HasItems, Intake!HasDeliveries
  <1>2. Intake!Owner(e)' = Intake!Owner(e) /\ Intake!Version1(e)' = Intake!Version1(e) /\ HasVersion1(e)' = HasVersion1(e)
    BY DEF Intake!Owner, Intake!Version1, HasVersion1
  <1>3. EventInv(e) => EventInv(e)'
    BY <1>1, <1>2 DEF EventInv
  <1>4. (e \notin Spoilt => Agree(e)) => (e \notin Spoilt' => Agree(e)')
    BY <1>1, <1>2 DEF Agree, Spoilt
  <1>5. \A m \in Messages : m.event = e /\ IsStored(m) => IsStored(m)'
    BY DEF IsStored
  <1>6. ASSUME NEW h \in Handlers, handler'[h] = handler[h], handler[h].msg.event = e, ViewInv(h) PROVE ViewInv(h)'
    BY <1>2, <1>6 DEF ViewInv, Intake!HasRows, Spoilt
  <1> QED
    BY <1>3, <1>4, <1>5, <1>6

(* A choice stands as long as the links and the presence of what is not    *)
(* spoilt do.                                                              *)
LEMMA ChoicesStay ==
    ASSUME NEW q \in Requests, request'[q] = request[q], request[q] \in Reads, request[q].pc = "open",
           Spoilt \subseteq Spoilt',
           \A e \in Events \ Spoilt' :
               /\ \A d \in Destinations :
                     /\ deliveries'[e][d].exists = deliveries[e][d].exists
                     /\ deliveries'[e][d].linked = deliveries[e][d].linked
               /\ \A u \in Recipients : inbox'[e][u] = "none" <=> inbox[e][u] = "none"
    PROVE  ChoiceInv(q) => ChoiceInv(q)'
  <1> DEFINE second == request[q].second
  <1>1. \A e : Intake!Owner(e)' = Intake!Owner(e)
    BY DEF Intake!Owner, Intake!Version1
  <1>2. request[q].user \in Recipients /\ second \in Seconds
    BY DEF Reads
  <1>3. second.of = "item" => second.row[1] \in Events /\ second.row[2] \in Destinations
    BY <1>2 DEF Seconds, Targets
  <1>4. SUFFICES ASSUME ChoiceInv(q) PROVE ChoiceInv(q)'
    OBVIOUS
  <1>5. ASSUME second.of = "item"
        PROVE  LET e == second.row[1]
               IN  /\ request[q].user = Intake!Owner(e) /\ request[q].rows \subseteq {e} \X Destinations
                   /\ e \notin Spoilt' /\ deliveries'[e][second.row[2]].linked => {e} \X Destinations \subseteq request[q].rows
    BY <1>3, <1>4, <1>5, SMTT(30) DEF ChoiceInv
  <1>6. ASSUME second.of = "items", NEW e \in Events \ Spoilt', NEW d \in Destinations
        PROVE  <<e, d>> \in request[q].rows <=> deliveries'[e][d].exists /\ Intake!Owner(e) = request[q].user
    BY <1>4, <1>6 DEF ChoiceInv
  <1>7. /\ second.of = "links" => request[q].items = {second.event}
        /\ second.of = "push" => request[q].rows = {}
    BY <1>4 DEF ChoiceInv
  <1>8. ASSUME second.of = "rows", NEW e \in Events \ Spoilt'
        PROVE  e \in request[q].items <=> inbox'[e][request[q].user] # "none"
    BY <1>2, <1>4, <1>8 DEF ChoiceInv
  <1> QED
    BY <1>1, <1>5, <1>6, <1>7, <1>8, SMTT(30) DEF ChoiceInv

(* Steps that leave the tables alone, start no ingestion and open no       *)
(* request, and acknowledge what is stored.                                *)
LEMMA TablesAreLeftAlone ==
    ASSUME IntakeInv, UNCHANGED <<inbox, deliveries, pushes, stored, purged, raced>>,
           handler' \in [Handlers -> Works],
           queue' \in [Messages -> [at : {"unsent", "ready", "taken", "acked", "dead"}, returns : Nat]],
           request' \in [Requests -> Reads],
           \A q \in Requests : request'[q].pc = "open" => request'[q] = request[q],
           \A h \in Handlers : handler'[h].pc = "open" =>
               /\ handler[h].pc = "open" /\ handler'[h].msg = handler[h].msg
               /\ handler'[h].rows = handler[h].rows /\ handler'[h].items = handler[h].items,
           \A h \in Handlers : handler'[h].pc = "stored" =>
               handler'[h].msg.own \/ (handler[h].pc = "stored" /\ handler'[h].msg = handler[h].msg),
           \A m \in Messages : queue'[m].at = "acked" =>
               queue[m].at = "acked" \/ \E h \in Handlers : handler[h].pc = "stored" /\ handler[h].msg = m
    PROVE  IntakeInv'
  <1>1. IntakeTypes'
    BY DEF IntakeInv, IntakeTypes
  <1>2. Spoilt' = Spoilt
    BY DEF Spoilt
  <1>3. \A e \in Events : EventInv(e)' /\ (e \notin Spoilt' => Agree(e)')
    BY OtherEvents DEF IntakeInv
  <1>4. ASSUME NEW h \in Handlers, handler'[h].pc = "open" PROVE ViewInv(h)'
    <2>1. ViewInv(h)
      BY <1>4 DEF IntakeInv
    <2>2. handler'[h].msg = handler[h].msg /\ handler'[h].rows = handler[h].rows /\ handler'[h].items = handler[h].items
      BY <1>4
    <2> QED
      BY <1>2, <2>1, <2>2, SMTT(30) DEF ViewInv, HasVersion1, Intake!HasRows, Intake!Version1, Intake!Owner
  <1>5. OneIngest'
    BY DEF IntakeInv, OneIngest
  <1>6. \A m \in Messages : IsStored(m)' = IsStored(m)
    BY DEF IsStored
  <1>7. \A h \in Handlers : (handler[h].pc = "stored" => IsStored(handler[h].msg))'
    BY DEF IntakeInv, StoredInv, IsStored
  <1>8. \A m \in Messages : queue'[m].at = "acked" => IsStored(m)'
    BY <1>6 DEF IntakeInv, StoredInv
  <1>9. ASSUME NEW q \in Requests, request'[q].pc = "open" PROVE ChoiceInv(q)'
    <2>1. request'[q] = request[q] /\ ChoiceInv(q) /\ request[q] \in Reads /\ request[q].pc = "open"
      BY <1>9 DEF IntakeInv, IntakeTypes
    <2> QED
      BY <1>2, <2>1, ChoicesStay
  <1>10. PushInv'
    BY DEF IntakeInv, PushInv, Intake!HasDeliveries
  <1> QED
    BY <1>1, <1>3, <1>4, <1>5, <1>7, <1>8, <1>9, <1>10 DEF IntakeInv, StoredInv

(* The messages and their handlers.                                        *)
LEMMA MessagesMove ==
    ASSUME IntakeInv,
           \/ \E h \in Handlers : \/ \E m \in Messages : Intake!Take(h, m)
                                  \/ Intake!DropOwnAction(h) \/ Intake!Ack(h) \/ Intake!Refuse(h) \/ Intake!Requeue(h)
           \/ Intake!LoseConnection \/ Intake!Crash
           \/ \E q \in Requests : Intake!AbortRead(q)
    PROVE  IntakeInv'
  <1> DEFINE Places == [at : {"unsent", "ready", "taken", "acked", "dead"}, returns : Nat]
  <1>1. queue \in [Messages -> Places] /\ handler \in [Handlers -> Works] /\ request \in [Requests -> Reads]
    BY DEF IntakeInv, IntakeTypes
  <1>2. UNCHANGED <<inbox, deliveries, pushes, stored, purged, raced>>
    BY DEF Intake!Take, Intake!DropOwnAction, Intake!Ack, Intake!Refuse, Intake!Requeue, Intake!Answer,
           Intake!LoseConnection, Intake!Crash, Intake!AbortRead, Intake!db
  <1>3. \A m \in Messages : Intake!Returned(m) \in Places /\ Intake!Returned(m).at \in {"ready", "dead"}
    BY <1>1 DEF Intake!Returned, Intake!DeadLetter
  <1>4. Intake!Acked \in Places /\ Intake!DeadLetter \in Places /\ Intake!DeadLetter.at = "dead"
    BY DEF Intake!Acked, Intake!DeadLetter
  <1>5. Intake!Free \in Works /\ Intake!Free.pc = "free"
    BY DEF Intake!Free, Works
  <1>6. Intake!Closed \in Reads /\ Intake!Closed.pc = "closed"
    BY DEF Intake!Closed, Reads
  <1>a. ASSUME NEW h \in Handlers, NEW m \in Messages, Intake!Take(h, m) PROVE IntakeInv'
    <2> DEFINE new == [pc |-> "taken", msg |-> m, live |-> TRUE]
    <2>1. new \in Works /\ new.pc = "taken"
      BY DEF Works
    <2> HIDE DEF new
    <2>2. handler' = [handler EXCEPT ![h] = new] /\ queue' = [queue EXCEPT ![m].at = "taken"] /\ request' = request
      BY <1>a DEF Intake!Take, new
    <2>3. handler' \in [Handlers -> Works] /\ \A g \in Handlers : handler'[g].pc # "taken" => handler'[g] = handler[g]
      BY <1>1, <2>1, <2>2
    <2>4. queue' \in [Messages -> Places] /\ \A n \in Messages : queue'[n].at = "acked" => queue[n].at = "acked"
      BY <1>1, <2>2
    <2> QED
      BY <1>1, <1>2, <2>2, <2>3, <2>4, TablesAreLeftAlone
  <1>b. ASSUME NEW h \in Handlers, Intake!DropOwnAction(h) PROVE IntakeInv'
    <2> DEFINE new == [handler[h] EXCEPT !.pc = "stored"]
    <2>1. new \in Works /\ new.pc = "stored" /\ new.msg.own
      BY <1>1, <1>b DEF Works, Intake!DropOwnAction
    <2> HIDE DEF new
    <2>2. handler' = [handler EXCEPT ![h] = new] /\ queue' = queue /\ request' = request
      BY <1>b DEF Intake!DropOwnAction, new
    <2>3. handler' \in [Handlers -> Works] /\ handler'[h] = new /\ \A g \in Handlers : g # h => handler'[g] = handler[g]
      BY <1>1, <2>1, <2>2
    <2>4. \A g \in Handlers : handler'[g].pc = "open" => handler'[g] = handler[g]
      BY <2>1, <2>3
    <2>5. \A g \in Handlers : handler'[g].pc = "stored" => handler'[g].msg.own \/ handler'[g] = handler[g]
      BY <2>1, <2>3
    <2> QED
      BY <1>1, <1>2, <2>2, <2>3, <2>4, <2>5, TablesAreLeftAlone
  <1>c. ASSUME NEW h \in Handlers, handler[h].pc # "free",
               NEW to \in Places, Intake!Answer(h, handler[h].msg, to), to.at = "acked" => handler[h].pc = "stored"
        PROVE  IntakeInv'
    <2>1. handler' = [handler EXCEPT ![h] = Intake!Free] /\ request' = request
      BY <1>c DEF Intake!Answer
    <2>2. queue' = queue \/ queue' = [queue EXCEPT ![handler[h].msg] = to]
      BY <1>c DEF Intake!Answer
    <2>3. handler' \in [Handlers -> Works] /\ \A g \in Handlers : handler'[g].pc # "free" => handler'[g] = handler[g]
      BY <1>1, <1>5, <2>1
    <2>4. queue' \in [Messages -> Places]
      BY <1>1, <1>c, <2>2
    <2>5. \A n \in Messages : queue'[n].at = "acked" => queue[n].at = "acked" \/ (handler[h].pc = "stored" /\ handler[h].msg = n)
      BY <1>1, <1>c, <2>2
    <2> QED
      BY <1>1, <1>2, <2>1, <2>3, <2>4, <2>5, TablesAreLeftAlone
  <1>d. ASSUME NEW h \in Handlers, Intake!Ack(h) \/ Intake!Refuse(h) \/ Intake!Requeue(h) PROVE IntakeInv'
    <2>1. CASE Intake!Ack(h)
      BY <1>c, <1>4, <2>1 DEF Intake!Ack
    <2>2. CASE Intake!Refuse(h)
      BY <1>c, <1>4, <2>2 DEF Intake!Refuse
    <2>3. CASE Intake!Requeue(h)
      <3>1. handler[h].pc = "open" /\ Intake!Answer(h, handler[h].msg, Intake!Returned(handler[h].msg))
        BY <2>3 DEF Intake!Requeue
      <3>2. handler[h].msg \in Messages
        BY <1>1, <3>1 DEF Works
      <3> QED
        BY <1>c, <1>3, <3>1, <3>2
    <2> QED
      BY <1>d, <2>1, <2>2, <2>3
  <1>e. ASSUME queue' = [m \in Messages |-> IF queue[m].at = "taken" THEN Intake!Returned(m) ELSE queue[m]]
        PROVE  /\ queue' \in [Messages -> Places]
               /\ \A m \in Messages : queue'[m].at = "acked" => queue[m].at = "acked"
    BY <1>1, <1>3, <1>e
  <1>f. ASSUME Intake!LoseConnection PROVE IntakeInv'
    <2>1. /\ handler' = [h \in Handlers |-> IF handler[h].pc = "free" THEN Intake!Free ELSE [handler[h] EXCEPT !.live = FALSE]]
          /\ queue' = [m \in Messages |-> IF queue[m].at = "taken" THEN Intake!Returned(m) ELSE queue[m]]
          /\ request' = request
      BY <1>f DEF Intake!LoseConnection
    <2>2. ASSUME NEW h \in Handlers, handler[h].pc # "free"
          PROVE  /\ handler'[h] \in Works /\ handler'[h].pc = handler[h].pc /\ handler'[h].msg = handler[h].msg
                 /\ handler[h].pc = "open" => handler'[h].rows = handler[h].rows /\ handler'[h].items = handler[h].items
      <3>1. handler'[h] = [handler[h] EXCEPT !.live = FALSE]
        BY <2>1, <2>2
      <3>2. handler[h] \in Works
        BY <1>1
      <3>3. CASE handler[h].pc = "open"
        <4>1. handler[h] \in [pc : {"open"}, msg : Messages, live : BOOLEAN, rows : [Destinations -> Rows],
                              items : [Recipients -> Marks]]
          BY <3>2, <3>3 DEF Works
        <4>2. handler'[h] \in [pc : {"open"}, msg : Messages, live : BOOLEAN, rows : [Destinations -> Rows],
                               items : [Recipients -> Marks]]
          BY <3>1, <4>1
        <4> QED
          BY <3>1, <4>1, <4>2 DEF Works
      <3>4. CASE handler[h].pc # "open"
        <4>1. handler[h] \in [pc : {"taken", "stored"}, msg : Messages, live : BOOLEAN]
          BY <2>2, <3>2, <3>4 DEF Works
        <4>2. handler'[h] \in [pc : {"taken", "stored"}, msg : Messages, live : BOOLEAN]
          BY <3>1, <4>1
        <4> QED
          BY <3>1, <3>4, <4>1, <4>2 DEF Works
      <3> QED
        BY <3>3, <3>4
    <2>3. \A h \in Handlers : handler[h].pc = "free" => handler'[h] = Intake!Free
      BY <2>1
    <2>4. handler' \in [Handlers -> Works]
      BY <1>5, <2>1, <2>2, <2>3
    <2>5. \A h \in Handlers : handler'[h].pc = handler[h].pc
      BY <1>5, <2>2, <2>3
    <2> QED
      BY <1>1, <1>2, <1>e, <2>1, <2>2, <2>4, <2>5, TablesAreLeftAlone
  <1>g. ASSUME Intake!Crash PROVE IntakeInv'
    <2>1. /\ handler' = [h \in Handlers |-> Intake!Free]
          /\ queue' = [m \in Messages |-> IF queue[m].at = "taken" THEN Intake!Returned(m) ELSE queue[m]]
          /\ request' = [q \in Requests |-> Intake!Closed]
      BY <1>g DEF Intake!Crash
    <2>2. handler' \in [Handlers -> Works] /\ \A h \in Handlers : handler'[h].pc = "free"
      BY <1>5, <2>1
    <2>3. request' \in [Requests -> Reads] /\ \A q \in Requests : request'[q].pc = "closed"
      BY <1>6, <2>1
    <2> QED
      BY <1>2, <1>e, <2>1, <2>2, <2>3, TablesAreLeftAlone
  <1>h. ASSUME NEW q \in Requests, Intake!AbortRead(q) PROVE IntakeInv'
    <2>1. request' = [request EXCEPT ![q] = Intake!Closed] /\ handler' = handler /\ queue' = queue
      BY <1>h DEF Intake!AbortRead
    <2>2. request' \in [Requests -> Reads] /\ \A p \in Requests : request'[p].pc = "open" => request'[p] = request[p]
      BY <1>1, <1>6, <2>1
    <2> QED
      BY <1>1, <1>2, <2>1, <2>2, TablesAreLeftAlone
  <1> QED
    BY <1>a, <1>b, <1>d, <1>f, <1>g, <1>h

(* An ingestion begins: what is stored of its event is of its type, and    *)
(* what is there of a version 1 type has an item of its user.              *)
LEMMA BeginStep ==
    ASSUME Intake!IntakeAssumption, IntakeInv, NEW h \in Handlers, Intake!BeginIngest(h)
    PROVE  IntakeInv'
  <1> DEFINE m == handler[h].msg
             e == m.event
             new == [pc |-> "open", msg |-> m, live |-> handler[h].live, rows |-> deliveries[e], items |-> inbox[e]]
  <1>1. /\ handler[h].pc = "taken" /\ ~m.own /\ ~Intake!Locked(e) /\ ~Intake!Conflicting(m)
        /\ handler' = [handler EXCEPT ![h] = new]
        /\ UNCHANGED <<queue, inbox, deliveries, pushes, stored, request, purged, raced>>
    BY DEF Intake!BeginIngest, Intake!db
  <1>2. handler \in [Handlers -> Works] /\ IntakeTypes
    BY DEF IntakeInv, IntakeTypes
  <1>3. m \in Messages /\ handler[h].live \in BOOLEAN
    BY <1>1, <1>2 DEF Works
  <1>4. e \in Events
    BY <1>3 DEF Intake!IntakeAssumption
  <1>5. deliveries[e] \in [Destinations -> Rows] /\ inbox[e] \in [Recipients -> Marks]
    BY <1>2, <1>4 DEF IntakeTypes
  <1> HIDE DEF m
  <1>6. new \in Works /\ new.pc = "open" /\ new.msg = m /\ new.rows = deliveries[e] /\ new.items = inbox[e]
    BY <1>3, <1>5 DEF Works
  <1> HIDE DEF new
  <1>7. handler' \in [Handlers -> Works] /\ handler'[h] = new /\ \A g \in Handlers : g # h => handler'[g] = handler[g]
    BY <1>1, <1>2, <1>6
  <1>8. IntakeTypes'
    BY <1>1, <1>2, <1>7 DEF IntakeTypes
  <1>9. Spoilt' = Spoilt /\ \A f \in Events : EventInv(f) /\ (f \notin Spoilt => Agree(f))
    BY <1>1 DEF IntakeInv, Spoilt
  <1>10. \A f \in Events : EventInv(f)' /\ (f \notin Spoilt' => Agree(f)')
    BY <1>1, <1>9, OtherEvents
  <1>11. OneIngest'
    BY <1>1, <1>6, <1>7 DEF IntakeInv, OneIngest, Intake!Locked
  <1>12. StoredInv'
    BY <1>1, <1>6, <1>7 DEF IntakeInv, StoredInv, IsStored
  <1>13. \A q \in Requests : request'[q].pc = "open" => ChoiceInv(q)'
    BY <1>1, <1>9, ChoicesStay DEF IntakeInv, IntakeTypes
  <1>14. ViewInv(h)'
    <2>1. EventInv(e)
      BY <1>4, <1>9
    <2>2. Intake!HasRows(deliveries[e]) => HasVersion1(e) /\ m.type = Intake!Version1(e).type
      BY <1>1, <2>1 DEF EventInv, Intake!HasRows, Intake!HasDeliveries, Intake!Conflicting
    <2>3. ASSUME m.version = 1, \E u \in Recipients : inbox[e][u] # "none", e \notin purged PROVE inbox[e][Intake!Owner(e)] # "none"
      <3>1. HasVersion1(e)
        BY <1>3, <2>3 DEF HasVersion1
      <3>2. m.type = Intake!Version1(e).type
        BY <1>3, <1>4, <2>3, <3>1, OwnerIsTheRecipient
      <3>3. Intake!HasItems(e) /\ stored[e] = m.type
        BY <1>1, <2>3 DEF Intake!HasItems, Intake!Conflicting
      <3> QED
        BY <2>1, <2>3, <3>1, <3>2, <3>3 DEF EventInv
    <2> QED
      BY <1>1, <1>6, <1>7, <2>2, <2>3 DEF ViewInv, HasVersion1, Intake!HasRows, Intake!Version1, Intake!Owner
  <1>15. ASSUME NEW g \in Handlers, g # h, handler'[g].pc = "open" PROVE ViewInv(g)'
    <2>1. handler'[g] = handler[g] /\ ViewInv(g)
      BY <1>7, <1>15 DEF IntakeInv
    <2>2. handler[g].msg \in Messages
      BY <1>2, <1>15, <2>1 DEF Works
    <2>3. handler[g].msg.event \in Events
      BY <2>2 DEF Intake!IntakeAssumption
    <2> QED
      BY <1>1, <2>1, <2>3, OtherEvents
  <1>16. PushInv'
    BY <1>1 DEF IntakeInv, PushInv, Intake!HasDeliveries
  <1> QED
    BY <1>8, <1>10, <1>11, <1>12, <1>13, <1>14, <1>15, <1>16 DEF IntakeInv

(* What an ingestion stores, per event. Of an event that is neither        *)
(* purged nor raced its view is the tables themselves.                     *)
LEMMA IngestStores ==
    ASSUME Intake!IntakeAssumption, IntakeInv, NEW h \in Handlers, Intake!CommitIngest(h),
           NEW m \in Messages, m = handler[h].msg
    PROVE  LET e == m.event
           IN  /\ inbox' \in [Events -> [Recipients -> Marks]] /\ deliveries' \in [Events -> [Destinations -> Rows]]
               /\ stored' \in [Events -> Kinds]
               /\ \A f \in Events : f # e => inbox'[f] = inbox[f] /\ deliveries'[f] = deliveries[f] /\ stored'[f] = stored[f]
               /\ \A u \in Recipients : inbox[e][u] # "none" => inbox'[e][u] = inbox[e][u]
               /\ \A d \in Destinations : deliveries[e][d].read => deliveries'[e][d].read
               /\ EventInv(e)' /\ PushInv' /\ IsStored(m)' /\ (e \notin Spoilt' => Agree(e)')
  <1> DEFINE e == m.event
             view == handler[h]
             o == Intake!Owner(e)
  <1>1. /\ view.pc = "open" /\ UNCHANGED <<purged>> /\ raced \subseteq raced'
        /\ IF Intake!HasRows(view.rows) THEN Intake!LinkGroup(e, view)
           ELSE IF m.version = 1 THEN Intake!StoreVersion1(m, view) ELSE Intake!StoreVersion2(m)
        /\ stored' = [stored EXCEPT ![e] = m.type]
    BY DEF Intake!CommitIngest
  <1>2. IntakeTypes /\ ViewInv(h)
    BY <1>1 DEF IntakeInv
  <1>3. view.rows \in [Destinations -> Rows] /\ view.items \in [Recipients -> Marks]
    BY <1>1, <1>2 DEF IntakeTypes, Works
  <1>4. e \in Events /\ m.to \subseteq Recipients /\ m.type \in Kinds
    BY DEF Intake!IntakeAssumption, Kinds
  <1>5. EventInv(e) /\ (e \notin Spoilt => Agree(e))
    BY <1>4 DEF IntakeInv
  <1>6. HasVersion1(e) => o \in Recipients
    BY <1>4, OwnerIsTheRecipient
  <1>7. HasVersion1(e) /\ m.type = Intake!Version1(e).type => m.to = {o}
    BY <1>4, OwnerIsTheRecipient
  <1>8. m.version = 1 => HasVersion1(e) /\ m.type = Intake!Version1(e).type
    BY <1>4, OwnerIsTheRecipient DEF HasVersion1
  <1>9. /\ inbox \in [Events -> [Recipients -> Marks]] /\ deliveries \in [Events -> [Destinations -> Rows]]
        /\ stored \in [Events -> Kinds]
    BY <1>2 DEF IntakeTypes
  <1>10. /\ \A f \in Events : Intake!Owner(f)' = Intake!Owner(f) /\ Intake!Version1(f)' = Intake!Version1(f)
         /\ \A f \in Events : HasVersion1(f)' = HasVersion1(f)
    BY DEF Intake!Owner, Intake!Version1, HasVersion1
  <1>11. /\ \A u \in Recipients : view.items[u] = "none" => inbox[e][u] = "none"
         /\ \A d \in Destinations : ~view.rows[d].exists => ~deliveries[e][d].exists
         /\ e \notin purged => \A u \in Recipients : view.items[u] # "none" => inbox[e][u] # "none"
         /\ Intake!HasRows(view.rows) => HasVersion1(e) /\ m.type = Intake!Version1(e).type
         /\ m.version = 1 /\ (\E u \in Recipients : view.items[u] # "none") => e \in purged \/ view.items[o] # "none"
         /\ e \notin Spoilt => view.rows = deliveries[e] /\ view.items = inbox[e]
    BY <1>2 DEF ViewInv
  <1>12. stored' \in [Events -> Kinds] /\ stored'[e] = m.type /\ \A f \in Events : f # e => stored'[f] = stored[f]
    BY <1>1, <1>4, <1>9
  <1>13. e \in Spoilt => e \in Spoilt'
    BY <1>1 DEF Spoilt
  <1>14. PushInv
    BY DEF IntakeInv
  <1>15. ASSUME \A f \in Events : f # e => inbox'[f] = inbox[f] /\ deliveries'[f] = deliveries[f],
                pushes' \subseteq Events \X Recipients,
                \A f \in Events, u \in Recipients : f # e /\ <<f, u>> \in pushes' => <<f, u>> \in pushes,
                \A u \in Recipients : <<e, u>> \in pushes' => inbox'[e][u] # "none" /\ ~Intake!HasDeliveries(e)'
         PROVE  PushInv'
    <2>1. ASSUME NEW f \in Events, NEW u \in Recipients, <<f, u>> \in pushes', f # e
          PROVE  inbox'[f][u] # "none" /\ ~Intake!HasDeliveries(f)'
      BY <1>14, <1>15, <2>1 DEF PushInv, Intake!HasDeliveries
    <2> QED
      BY <1>15, <2>1 DEF PushInv
  <1> HIDE DEF view, o
  <1>a. CASE Intake!HasRows(view.rows)
    <2> DEFINE item == IF view.items[o] = "none" THEN Intake!GroupItem(view.rows) ELSE inbox[e][o]
    <2>1. /\ inbox' = [inbox EXCEPT ![e][o] = item] /\ pushes' = pushes
          /\ deliveries' = [deliveries EXCEPT ![e] = Intake!Linked(deliveries[e])]
      BY <1>1, <1>a DEF Intake!LinkGroup, o
    <2>2. HasVersion1(e) /\ m.type = Intake!Version1(e).type /\ m.to = {o} /\ o \in Recipients
      BY <1>6, <1>7, <1>11, <1>a
    <2>3. item \in Marks /\ (view.items[o] = "none" => item # "none") /\ (inbox[e][o] # "none" => item # "none")
      <3>1. inbox[e][o] \in Marks /\ Intake!GroupItem(view.rows) \in {"read", "unread"}
        BY <1>4, <1>9, <2>2 DEF Intake!GroupItem
      <3> QED
        BY <3>1 DEF Marks
    <2>4. item = IF view.items[o] = "none" THEN Intake!GroupItem(view.rows) ELSE inbox[e][o]
      OBVIOUS
    <2> HIDE DEF item
    <2>5. /\ inbox' \in [Events -> [Recipients -> Marks]] /\ inbox'[e][o] = item
          /\ \A f \in Events : f # e => inbox'[f] = inbox[f]
          /\ \A u \in Recipients : u # o => inbox'[e][u] = inbox[e][u]
      BY <1>4, <1>9, <2>1, <2>2, <2>3
    <2>6. Intake!Linked(deliveries[e]) \in [Destinations -> Rows]
      <3>1. Intake!Missing \in Rows /\ \A r \in Rows : [r EXCEPT !.linked = TRUE] \in Rows
        BY DEF Intake!Missing, Rows
      <3>2. deliveries[e] \in [Destinations -> Rows]
        BY <1>4, <1>9
      <3> QED
        BY <3>1, <3>2 DEF Intake!Linked
    <2>7. /\ deliveries' \in [Events -> [Destinations -> Rows]]
          /\ \A f \in Events : f # e => deliveries'[f] = deliveries[f]
          /\ deliveries'[e] = Intake!Linked(deliveries[e])
      BY <1>4, <1>9, <2>1, <2>6
    <2>8. ASSUME NEW d \in Destinations
          PROVE  /\ deliveries'[e][d].exists = deliveries[e][d].exists
                 /\ deliveries'[e][d].exists => deliveries'[e][d].linked
                 /\ deliveries'[e][d].exists => deliveries'[e][d].read = deliveries[e][d].read
                 /\ ~deliveries'[e][d].exists => ~deliveries'[e][d].read /\ ~deliveries'[e][d].linked
      <3>1. deliveries[e][d] \in Rows
        BY <1>4, <1>9
      <3>2. CASE deliveries[e][d].exists
        <4>1. deliveries'[e][d] = [deliveries[e][d] EXCEPT !.linked = TRUE]
          BY <2>7, <3>2 DEF Intake!Linked
        <4> QED
          BY <3>1, <3>2, <4>1 DEF Rows
      <3>3. CASE ~deliveries[e][d].exists
        <4>1. deliveries'[e][d] = Intake!Missing
          BY <2>7, <3>3 DEF Intake!Linked
        <4>2. ~deliveries'[e][d].exists /\ ~deliveries'[e][d].read /\ ~deliveries'[e][d].linked
          BY <4>1 DEF Intake!Missing
        <4>3. deliveries'[e][d].exists = FALSE /\ deliveries[e][d].exists = FALSE
          BY <3>1, <3>3, <4>1 DEF Intake!Missing, Rows
        <4> QED
          BY <4>2, <4>3
      <3> QED
        BY <3>2, <3>3
    <2>9. e \notin purged => inbox'[e][o] # "none"
      BY <1>11, <2>2, <2>3, <2>5
    <2>10. IsStored(m)'
      BY <1>1, <2>2, <2>9 DEF IsStored
    <2>11. /\ \A u \in Recipients : inbox[e][u] # "none" => inbox'[e][u] = inbox[e][u]
           /\ \A d \in Destinations : deliveries[e][d].read => deliveries'[e][d].read
      <3>1. \A u \in Recipients : inbox[e][u] # "none" => inbox'[e][u] = inbox[e][u]
        BY <1>11, <2>2, <2>4, <2>5
      <3>2. \A d \in Destinations : deliveries[e][d].read => deliveries[e][d].exists
        BY <1>5 DEF EventInv
      <3> QED
        BY <2>8, <3>1, <3>2
    <2>12. Intake!HasDeliveries(e)' <=> Intake!HasDeliveries(e)
      BY <2>8 DEF Intake!HasDeliveries
    <2>13. e \notin purged => Intake!HasItems(e)'
      BY <2>2, <2>9 DEF Intake!HasItems
    <2>14. e \notin purged /\ Intake!HasDeliveries(e) => \A d \in Destinations : deliveries[e][d].exists
      BY <1>5 DEF EventInv
    <2>15. EventInv(e)'
      BY <1>1, <1>4, <1>10, <1>12, <2>2, <2>8, <2>9, <2>12, <2>13, <2>14, ZenonT(30) DEF EventInv, o
    <2>16. ASSUME e \notin Spoilt', Intake!HasDeliveries(e)'
           PROVE  (inbox'[e][o] = "read") = (\A d \in Destinations : deliveries'[e][d].read)
      <3>1. e \notin purged /\ e \notin Spoilt
        BY <1>13, <2>16 DEF Spoilt
      <3>2. Intake!HasDeliveries(e) /\ \A d \in Destinations : deliveries[e][d].exists
        BY <2>12, <2>14, <2>16, <3>1
      <3>3. view.rows = deliveries[e] /\ view.items = inbox[e]
        BY <1>11, <3>1
      <3>4. \A d \in Destinations : deliveries'[e][d].read = deliveries[e][d].read
        BY <2>8, <3>2
      <3>5. CASE inbox[e][o] = "none"
        <4>1. item = Intake!GroupItem(deliveries[e])
          BY <2>4, <3>3, <3>5
        <4>2. (item = "read") = (\A d \in Destinations : deliveries[e][d].read)
          BY <3>2, <4>1 DEF Intake!GroupItem
        <4> QED
          BY <2>5, <3>4, <4>2
      <3>6. CASE inbox[e][o] # "none"
        <4>1. item = inbox[e][o]
          BY <2>4, <3>3, <3>6
        <4>2. Intake!HasItems(e)
          BY <2>2, <3>6 DEF Intake!HasItems
        <4>3. (inbox[e][o] = "read") = (\A d \in Destinations : deliveries[e][d].read)
          BY <1>5, <3>1, <3>2, <4>2 DEF Agree, o
        <4> QED
          BY <2>5, <3>4, <4>1, <4>3
      <3> QED
        BY <3>5, <3>6
    <2>17. e \notin Spoilt' => Agree(e)'
      BY <1>4, <1>10, <2>16 DEF Agree, o
    <2>18. PushInv'
      <3>1. pushes' \subseteq Events \X Recipients
        BY <1>14, <2>1 DEF PushInv
      <3>2. ASSUME NEW u \in Recipients, <<e, u>> \in pushes' PROVE inbox'[e][u] # "none" /\ ~Intake!HasDeliveries(e)'
        <4>1. inbox[e][u] # "none" /\ ~Intake!HasDeliveries(e)
          BY <1>4, <1>14, <2>1, <3>2 DEF PushInv
        <4> QED
          BY <2>3, <2>5, <2>12, <4>1
      <3> QED
        BY <1>15, <2>1, <2>5, <2>7, <3>1, <3>2
    <2> QED
      BY <1>12, <2>5, <2>7, <2>10, <2>11, <2>15, <2>17, <2>18
  <1>b. CASE ~Intake!HasRows(view.rows)
    <2>1. \A d \in Destinations : ~deliveries[e][d].exists /\ ~deliveries[e][d].read /\ ~deliveries[e][d].linked
      BY <1>5, <1>11, <1>b DEF EventInv, Intake!HasRows
    <2>2. ~Intake!HasDeliveries(e)
      BY <2>1 DEF Intake!HasDeliveries
    <2>3. ASSUME inbox' \in [Events -> [Recipients -> Marks]], deliveries' = deliveries,
                 \A f \in Events : f # e => inbox'[f] = inbox[f],
                 \A u \in Recipients : inbox[e][u] # "none" => inbox'[e][u] = inbox[e][u],
                 m.own \/ e \in purged \/ \A u \in m.to : inbox'[e][u] # "none",
                 pushes' \subseteq pushes \union ({e} \X m.to), \A u \in m.to : pushes' # pushes => inbox'[e][u] # "none"
          PROVE  /\ \A f \in Events : f # e => inbox'[f] = inbox[f] /\ deliveries'[f] = deliveries[f] /\ stored'[f] = stored[f]
                 /\ EventInv(e)' /\ PushInv' /\ IsStored(m)' /\ (e \notin Spoilt' => Agree(e)')
      <3>1. \A f \in Events : f # e => inbox'[f] = inbox[f] /\ deliveries'[f] = deliveries[f] /\ stored'[f] = stored[f]
        BY <1>12, <2>3
      <3>2. IsStored(m)'
        BY <1>1, <2>3 DEF IsStored
      <3>3. ~Intake!HasDeliveries(e)'
        BY <2>2, <2>3 DEF Intake!HasDeliveries
      <3>4. \A d \in Destinations : ~deliveries'[e][d].exists /\ ~deliveries'[e][d].read /\ ~deliveries'[e][d].linked
        BY <2>1, <2>3
      <3>5. ASSUME e \notin purged', HasVersion1(e), m.type = Intake!Version1(e).type PROVE inbox'[e][o] # "none"
        <4>1. m.to = {o} /\ ~m.own
          BY <1>2, <1>7, <3>5 DEF ViewInv
        <4> QED
          BY <1>1, <2>3, <3>5, <4>1
      <3>6. EventInv(e)'
        BY <1>4, <1>10, <1>12, <3>3, <3>4, <3>5 DEF EventInv, o
      <3>7. Agree(e)'
        BY <3>3 DEF Agree
      <3>8. PushInv'
        <4>1. /\ pushes' \subseteq Events \X Recipients
              /\ \A f \in Events, u \in Recipients : f # e /\ <<f, u>> \in pushes' => <<f, u>> \in pushes
          BY <1>4, <1>14, <2>3 DEF PushInv
        <4>2. ASSUME NEW u \in Recipients, <<e, u>> \in pushes' PROVE inbox'[e][u] # "none"
          <5>1. CASE <<e, u>> \in pushes
            BY <1>4, <1>14, <2>3, <5>1 DEF PushInv
          <5>2. CASE <<e, u>> \notin pushes
            BY <2>3, <4>2, <5>2
          <5> QED
            BY <5>1, <5>2
        <4> QED
          BY <1>15, <2>3, <3>3, <4>1, <4>2
      <3> QED
        BY <3>1, <3>2, <3>6, <3>7, <3>8
    <2>4. CASE m.version = 1 /\ \E u \in Recipients : view.items[u] # "none"
      <3>1. inbox' = inbox /\ deliveries' = deliveries /\ pushes' = pushes
        BY <1>1, <1>b, <2>4 DEF Intake!StoreVersion1
      <3>2. m.to = {o} /\ o \in Recipients
        BY <1>6, <1>7, <1>8, <2>4
      <3>3. e \notin purged => inbox[e][o] # "none"
        BY <1>11, <2>4, <3>2
      <3> QED
        BY <1>9, <1>12, <2>3, <3>1, <3>2, <3>3
    <2>5. CASE m.version = 1 /\ ~\E u \in Recipients : view.items[u] # "none"
      <3>1. /\ inbox' = [inbox EXCEPT ![e][o] = "unread"]
            /\ deliveries' = [deliveries EXCEPT ![e] = [d \in Destinations |-> Intake!Row(FALSE, TRUE)]]
            /\ pushes' = pushes
        BY <1>1, <1>b, <2>5 DEF Intake!StoreVersion1, o
      <3>2. m.to = {o} /\ o \in Recipients /\ HasVersion1(e) /\ m.type = Intake!Version1(e).type
        BY <1>6, <1>7, <1>8, <2>5
      <3>3. /\ inbox' \in [Events -> [Recipients -> Marks]] /\ inbox'[e][o] = "unread"
            /\ \A f \in Events : f # e => inbox'[f] = inbox[f]
            /\ \A u \in Recipients : u # o => inbox'[e][u] = inbox[e][u]
        BY <1>4, <1>9, <3>1, <3>2 DEF Marks
      <3>4. [d \in Destinations |-> Intake!Row(FALSE, TRUE)] \in [Destinations -> Rows]
        BY DEF Rows, Intake!Row
      <3>5. /\ deliveries' \in [Events -> [Destinations -> Rows]]
            /\ \A f \in Events : f # e => deliveries'[f] = deliveries[f]
            /\ deliveries'[e] = [d \in Destinations |-> Intake!Row(FALSE, TRUE)]
        BY <1>4, <1>9, <3>1, <3>4
      <3>6. \A d \in Destinations : deliveries'[e][d].exists /\ deliveries'[e][d].linked /\ ~deliveries'[e][d].read
        BY <3>5 DEF Intake!Row
      <3>7. \A u \in Recipients : inbox[e][u] # "none" => inbox'[e][u] = inbox[e][u]
        BY <1>11, <2>5
      <3>8. IsStored(m)'
        BY <3>2, <3>3 DEF IsStored
      <3>9. Intake!HasItems(e)'
        BY <3>2, <3>3 DEF Intake!HasItems
      <3>10. EventInv(e)'
        BY <1>4, <1>10, <1>12, <3>2, <3>3, <3>6, <3>9 DEF EventInv, o
      <3>11. Agree(e)'
        BY <1>4, <1>10, <3>3, <3>6 DEF Agree, Intake!HasDeliveries, o
      <3>12. \A u \in Recipients : <<e, u>> \notin pushes'
        BY <1>4, <1>11, <1>14, <2>5, <3>1 DEF PushInv
      <3>13. PushInv'
        BY <1>14, <1>15, <3>1, <3>3, <3>5, <3>12 DEF PushInv
      <3> QED
        BY <1>12, <2>1, <3>3, <3>5, <3>7, <3>8, <3>10, <3>11, <3>13
    <2>6. CASE m.version # 1
      <3>1. /\ inbox' = [inbox EXCEPT ![e] = [u \in Recipients |-> IF u \in m.to /\ inbox[e][u] = "none" THEN "unread" ELSE inbox[e][u]]]
            /\ deliveries' = deliveries
            /\ \E reached \in SUBSET m.to : pushes' = pushes \union ({e} \X reached)
        BY <1>1, <1>b, <2>6 DEF Intake!StoreVersion2
      <3>2. [u \in Recipients |-> IF u \in m.to /\ inbox[e][u] = "none" THEN "unread" ELSE inbox[e][u]] \in [Recipients -> Marks]
        BY <1>4, <1>9 DEF Marks
      <3>3. /\ inbox' \in [Events -> [Recipients -> Marks]]
            /\ \A f \in Events : f # e => inbox'[f] = inbox[f]
            /\ \A u \in Recipients : inbox'[e][u] = IF u \in m.to /\ inbox[e][u] = "none" THEN "unread" ELSE inbox[e][u]
        BY <1>4, <1>9, <3>1, <3>2
      <3>4. \A u \in Recipients : inbox[e][u] # "none" => inbox'[e][u] = inbox[e][u]
        BY <3>3
      <3>5. \A u \in m.to : inbox'[e][u] # "none"
        BY <1>4, <3>3
      <3>6. pushes' \subseteq pushes \union ({e} \X m.to)
        BY <3>1
      <3> QED
        BY <1>9, <1>12, <2>3, <3>1, <3>3, <3>4, <3>5, <3>6
    <2> QED
      BY <2>4, <2>5, <2>6
  <1> QED
    BY <1>a, <1>b

LEMMA CommitStep ==
    ASSUME Intake!IntakeAssumption, IntakeInv, NEW h \in Handlers, Intake!CommitIngest(h)
    PROVE  IntakeInv'
  <1> DEFINE new == [pc |-> "stored", msg |-> handler[h].msg, live |-> handler[h].live]
  <1>1. /\ handler[h].pc = "open" /\ handler' = [handler EXCEPT ![h] = new]
        /\ UNCHANGED <<queue, request, purged>>
        /\ raced' = IF \E q \in Requests : Intake!OpenRequest(q) THEN raced \union {handler[h].msg.event} ELSE raced
    BY DEF Intake!CommitIngest
  <1>2. IntakeTypes
    BY DEF IntakeInv
  <1>3. handler[h].msg \in Messages /\ handler[h].live \in BOOLEAN /\ handler \in [Handlers -> Works]
    BY <1>1, <1>2 DEF IntakeTypes, Works
  <1>4. new \in Works /\ new.pc = "stored" /\ new.msg = handler[h].msg
    BY <1>3 DEF Works
  <1> HIDE DEF new
  <1>5. handler' \in [Handlers -> Works] /\ handler'[h] = new /\ \A g \in Handlers : g # h => handler'[g] = handler[g]
    BY <1>1, <1>3, <1>4
  <1>6. PICK m \in Messages : m = handler[h].msg
    BY <1>3
  <1> DEFINE e == m.event
  <1>7. e \in Events
    BY DEF Intake!IntakeAssumption
  <1>8. /\ inbox' \in [Events -> [Recipients -> Marks]] /\ deliveries' \in [Events -> [Destinations -> Rows]]
        /\ stored' \in [Events -> Kinds]
        /\ \A f \in Events : f # e => inbox'[f] = inbox[f] /\ deliveries'[f] = deliveries[f] /\ stored'[f] = stored[f]
        /\ \A u \in Recipients : inbox[e][u] # "none" => inbox'[e][u] = inbox[e][u]
        /\ EventInv(e)' /\ PushInv' /\ IsStored(m)' /\ (e \notin Spoilt' => Agree(e)')
    BY <1>6, IngestStores
  <1>9. IntakeTypes'
    BY <1>1, <1>2, <1>5, <1>8 DEF IntakeTypes
  <1>10. purged \subseteq purged' /\ raced \subseteq raced' /\ purged' = purged
    BY <1>1
  <1>11. Spoilt \subseteq Spoilt'
    BY <1>10 DEF Spoilt
  <1>12. \A f \in Events : EventInv(f)' /\ (f \notin Spoilt' => Agree(f)')
    BY <1>8, <1>10, OtherEvents DEF IntakeInv
  <1>13. OneIngest'
    BY <1>4, <1>5 DEF IntakeInv, OneIngest
  <1>14. ASSUME NEW g \in Handlers, handler'[g].pc = "open" PROVE ViewInv(g)'
    <2>1. g # h /\ handler'[g] = handler[g] /\ ViewInv(g)
      BY <1>4, <1>5, <1>14 DEF IntakeInv
    <2>2. handler[g].msg \in Messages
      BY <1>3, <1>14, <2>1 DEF Works
    <2>3. handler[g].msg.event \in Events
      BY <2>2 DEF Intake!IntakeAssumption
    <2>4. handler[g].msg.event # e
      BY <1>1, <1>6, <1>14, <2>1 DEF IntakeInv, OneIngest
    <2> QED
      BY <1>8, <1>10, <2>1, <2>3, <2>4, OtherEvents
  <1>15. ASSUME NEW n \in Messages, IsStored(n) PROVE IsStored(n)'
    <2>1. n.event \in Events /\ n.to \subseteq Recipients
      BY DEF Intake!IntakeAssumption
    <2> QED
      BY <1>8, <1>10, <1>15, <2>1 DEF IsStored
  <1>16. \A n \in Messages : queue'[n].at = "acked" => IsStored(n)'
    BY <1>1, <1>15 DEF IntakeInv, StoredInv
  <1>17. ASSUME NEW g \in Handlers, handler'[g].pc = "stored" PROVE IsStored(handler[g].msg)'
    <2>1. CASE g = h
      <3>1. handler'[g].msg = m
        BY <1>4, <1>5, <1>6, <2>1
      <3> QED
        BY <1>8, <3>1 DEF IsStored
    <2>2. CASE g # h
      <3>1. handler'[g] = handler[g] /\ IsStored(handler[g].msg)
        BY <1>5, <1>17, <2>2 DEF IntakeInv, StoredInv
      <3>2. handler[g].msg \in Messages
        BY <1>3, <1>17, <3>1 DEF Works
      <3>3. PICK n \in Messages : n = handler[g].msg
        BY <3>2
      <3>4. IsStored(n)'
        BY <1>15, <3>1, <3>3
      <3> QED
        BY <3>1, <3>3, <3>4 DEF IsStored
    <2> QED
      BY <2>1, <2>2
  <1>18. StoredInv'
    BY <1>16, <1>17 DEF StoredInv
  <1>19. ASSUME NEW q \in Requests, request'[q].pc = "open" PROVE ChoiceInv(q)'
    <2>1. request'[q] = request[q] /\ ChoiceInv(q) /\ request[q] \in Reads /\ request[q].pc = "open"
      BY <1>1, <1>2, <1>19 DEF IntakeInv, IntakeTypes
    <2>2. e \in Spoilt'
      BY <1>1, <1>6, <2>1 DEF Intake!OpenRequest, Spoilt
    <2> QED
      BY <1>8, <1>11, <2>1, <2>2, ChoicesStay
  <1> QED
    BY <1>8, <1>9, <1>12, <1>13, <1>14, <1>18, <1>19 DEF IntakeInv

(* A read transaction opens: what it has chosen is what there is.          *)
LEMMA OpenStep ==
    ASSUME Intake!IntakeAssumption, IntakeInv, NEW q \in Requests, NEW u \in Recipients, NEW second \in Seconds,
           NEW rows \in SUBSET Targets, NEW items \in SUBSET Events,
           Intake!Open(q, u, second, rows, items),
           second.of = "item" =>
               LET e == second.row[1]
               IN  /\ u = Intake!Owner(e) /\ rows \subseteq {e} \X Destinations
                   /\ e \notin Spoilt /\ deliveries[e][second.row[2]].linked => {e} \X Destinations \subseteq rows,
           second.of = "items" =>
               \A e \in Events \ Spoilt, d \in Destinations :
                   <<e, d>> \in rows <=> deliveries[e][d].exists /\ Intake!Owner(e) = u,
           second.of = "push" => rows = {},
           second.of = "links" => items = {second.event},
           second.of = "rows" => \A e \in Events \ Spoilt : e \in items <=> inbox[e][u] # "none"
    PROVE  IntakeInv'
  <1> DEFINE new == [pc |-> "open", user |-> u, second |-> second, rows |-> rows, items |-> items]
  <1>1. /\ request' = [request EXCEPT ![q] = new]
        /\ UNCHANGED <<queue, handler, inbox, deliveries, pushes, stored, purged, raced>>
    BY DEF Intake!Open, Intake!db
  <1>2. new \in Reads /\ new.user = u /\ new.second = second /\ new.rows = rows /\ new.items = items
    BY DEF Reads
  <1> HIDE DEF new
  <1>3. IntakeTypes /\ request \in [Requests -> Reads]
    BY DEF IntakeInv, IntakeTypes
  <1>4. request' \in [Requests -> Reads] /\ request'[q] = new /\ \A p \in Requests : p # q => request'[p] = request[p]
    BY <1>1, <1>2, <1>3
  <1>5. IntakeTypes'
    BY <1>1, <1>3, <1>4 DEF IntakeTypes
  <1>6. Spoilt' = Spoilt
    BY <1>1 DEF Spoilt
  <1>7. \A e \in Events : EventInv(e)' /\ (e \notin Spoilt' => Agree(e)')
    BY <1>1, OtherEvents DEF IntakeInv
  <1>8. OneIngest' /\ StoredInv'
    BY <1>1 DEF IntakeInv, OneIngest, StoredInv, IsStored
  <1>9. ASSUME NEW h \in Handlers, handler'[h].pc = "open" PROVE ViewInv(h)'
    <2>1. handler'[h] = handler[h] /\ ViewInv(h) /\ handler[h] \in Works
      BY <1>1, <1>9 DEF IntakeInv, IntakeTypes
    <2>2. handler[h].msg \in Messages
      BY <1>9, <2>1 DEF Works
    <2>3. handler[h].msg.event \in Events
      BY <2>2 DEF Intake!IntakeAssumption
    <2> QED
      BY <1>1, <2>1, <2>3, OtherEvents
  <1>10. ASSUME NEW p \in Requests, request'[p].pc = "open" PROVE ChoiceInv(p)'
    <2>1. CASE p = q
      <3>1. \A e : Intake!Owner(e)' = Intake!Owner(e)
        BY DEF Intake!Owner, Intake!Version1
      <3>2. request'[p].user = u /\ request'[p].second = second /\ request'[p].rows = rows /\ request'[p].items = items
        BY <1>2, <1>4, <2>1
      <3>3. second.of = "item" =>
                LET e == second.row[1]
                IN  /\ u = Intake!Owner(e)' /\ rows \subseteq {e} \X Destinations
                    /\ e \notin Spoilt' /\ deliveries'[e][second.row[2]].linked => {e} \X Destinations \subseteq rows
        BY <1>1, <1>6, <3>1
      <3>4. second.of = "items" =>
                \A e \in Events \ Spoilt', d \in Destinations :
                    <<e, d>> \in rows <=> deliveries'[e][d].exists /\ Intake!Owner(e)' = u
        BY <1>1, <1>6, <3>1
      <3>5. second.of = "rows" => \A e \in Events \ Spoilt' : e \in items <=> inbox'[e][u] # "none"
        BY <1>1, <1>6
      <3>6. (second.of = "links" => items = {second.event}) /\ (second.of = "push" => rows = {})
        OBVIOUS
      <3> QED
        BY <3>2, <3>3, <3>4, <3>5, <3>6 DEF ChoiceInv
    <2>2. CASE p # q
      <3>1. request'[p] = request[p] /\ ChoiceInv(p) /\ request[p] \in Reads /\ request[p].pc = "open"
        BY <1>3, <1>4, <1>10, <2>2 DEF IntakeInv
      <3> QED
        BY <1>1, <1>6, <3>1, ChoicesStay
    <2> QED
      BY <2>1, <2>2
  <1>11. PushInv'
    BY <1>1 DEF IntakeInv, PushInv, Intake!HasDeliveries
  <1> QED
    BY <1>5, <1>7, <1>8, <1>9, <1>10, <1>11 DEF IntakeInv

LEMMA ReadsOpen ==
    ASSUME Intake!IntakeAssumption, IntakeInv, NEW q \in Requests,
           \/ \E e \in Events, d \in Destinations : Intake!MarkDeliveryRead(q, <<e, d>>)
           \/ \E u \in Recipients : Intake!MarkAllDeliveriesRead(q, u) \/ Intake!MarkAllItemsRead(q, u)
           \/ \E u \in Recipients, e \in Events : Intake!MarkItemRead(q, u, e) \/ Intake!MarkPushRead(q, u, e)
    PROVE  IntakeInv'
  <1>1. \A e \in Events : EventInv(e)
    BY DEF IntakeInv
  <1>a. ASSUME NEW e \in Events, NEW d \in Destinations, Intake!MarkDeliveryRead(q, <<e, d>>) PROVE IntakeInv'
    <2> DEFINE second == [of |-> "item", row |-> <<e, d>>]
               rows == Intake!Siblings(<<e, d>>)
    <2>1. deliveries[e][d].exists /\ Intake!Open(q, Intake!Owner(e), second, rows, {})
      BY <1>a DEF Intake!MarkDeliveryRead
    <2>2. Intake!Owner(e) \in Recipients
      BY <1>1, <2>1, OwnerIsTheRecipient DEF EventInv, Intake!HasDeliveries
    <2>3. rows = {<<e, d>>} \union {s \in {e} \X Destinations : deliveries[e][d].linked /\ deliveries[s[1]][s[2]].linked}
      BY DEF Intake!Siblings
    <2>4. rows \subseteq {e} \X Destinations
      BY <2>3
    <2>5. rows \in SUBSET Targets
      BY <2>4 DEF Targets
    <2>6. ASSUME e \notin Spoilt, deliveries[e][d].linked PROVE {e} \X Destinations \subseteq rows
      <3>1. Intake!HasDeliveries(e) /\ e \notin purged
        BY <2>1, <2>6 DEF Intake!HasDeliveries, Spoilt
      <3>2. \A c \in Destinations : deliveries[e][c].linked
        BY <1>1, <2>6, <3>1 DEF EventInv
      <3> QED
        BY <2>3, <2>6, <3>2
    <2>7. second \in Seconds /\ second.of = "item" /\ second.row[1] = e /\ second.row[2] = d
      BY DEF Seconds, Targets
    <2> HIDE DEF second, rows
    <2> QED
      BY <2>1, <2>2, <2>4, <2>5, <2>6, <2>7, OpenStep
  <1>b. ASSUME NEW u \in Recipients, Intake!MarkAllDeliveriesRead(q, u) PROVE IntakeInv'
    <2> DEFINE second == [of |-> "items"]
               rows == Intake!AllDeliveries(u)
    <2>1. Intake!Open(q, u, second, rows, {})
      BY <1>b DEF Intake!MarkAllDeliveriesRead
    <2>2. rows \in SUBSET Targets
          /\ \A e \in Events, d \in Destinations : <<e, d>> \in rows <=> deliveries[e][d].exists /\ Intake!Owner(e) = u
      BY DEF Intake!AllDeliveries, Targets
    <2>3. second \in Seconds /\ second.of = "items"
      BY DEF Seconds
    <2> HIDE DEF second, rows
    <2> QED
      BY <2>1, <2>2, <2>3, OpenStep
  <1>c. ASSUME NEW u \in Recipients, Intake!MarkAllItemsRead(q, u) PROVE IntakeInv'
    <2> DEFINE second == [of |-> "rows"]
               items == Intake!AllItems(u)
    <2>1. Intake!Open(q, u, second, {}, items)
      BY <1>c DEF Intake!MarkAllItemsRead
    <2>2. items \in SUBSET Events /\ \A e \in Events : e \in items <=> inbox[e][u] # "none"
      BY DEF Intake!AllItems
    <2>3. second \in Seconds /\ second.of = "rows"
      BY DEF Seconds
    <2> HIDE DEF second, items
    <2> QED
      BY <2>1, <2>2, <2>3, OpenStep
  <1>d. ASSUME NEW u \in Recipients, NEW e \in Events, Intake!MarkItemRead(q, u, e) PROVE IntakeInv'
    <2> DEFINE second == [of |-> "links", event |-> e]
    <2>1. Intake!Open(q, u, second, {}, {e})
      BY <1>d DEF Intake!MarkItemRead
    <2>2. second \in Seconds /\ second.of = "links" /\ second.event = e
      BY DEF Seconds
    <2> HIDE DEF second
    <2> QED
      BY <2>1, <2>2, OpenStep
  <1>e. ASSUME NEW u \in Recipients, NEW e \in Events, Intake!MarkPushRead(q, u, e) PROVE IntakeInv'
    <2> DEFINE second == [of |-> "push", event |-> e]
               rows == Intake!LinkedTo(e) \intersect Intake!AllDeliveries(u)
    <2>1. <<e, u>> \in pushes /\ Intake!Open(q, u, second, rows, {})
      BY <1>e DEF Intake!MarkPushRead
    <2>2. ~Intake!HasDeliveries(e)
      BY <2>1 DEF IntakeInv, PushInv
    <2>3. rows = {}
      BY <2>2 DEF Intake!LinkedTo, Intake!AllDeliveries, Intake!HasDeliveries
    <2>4. second \in Seconds /\ second.of = "push"
      BY DEF Seconds
    <2> HIDE DEF second, rows
    <2> QED
      BY <2>1, <2>3, <2>4, OpenStep
  <1> QED
    BY <1>a, <1>b, <1>c, <1>d, <1>e

(* The second statement of a read transaction takes the item and the rows  *)
(* of an event that was not spoilt, or neither.                            *)
LEMMA ReadTakesBothOrNeither ==
    ASSUME Intake!IntakeAssumption, IntakeInv, NEW q \in Requests, request[q].pc = "open",
           NEW e \in Events \ Spoilt, Intake!HasDeliveries(e), Intake!HasItems(e)
    PROVE  LET o == Intake!Owner(e)
           IN  /\ o \in Recipients /\ inbox[e][o] # "none" /\ \A d \in Destinations : deliveries[e][d].exists
               /\ \/ /\ request[q].user = o /\ e \in Intake!SecondItems(q)
                     /\ \A d \in Destinations : <<e, d>> \in Intake!SecondRows(q)
                  \/ /\ ~(request[q].user = o /\ e \in Intake!SecondItems(q))
                     /\ \A d \in Destinations : <<e, d>> \notin Intake!SecondRows(q)
  <1> DEFINE o == Intake!Owner(e)
             second == request[q].second
             user == request[q].user
             items == Intake!SecondItems(q)
             rows == Intake!SecondRows(q)
  <1>1. EventInv(e) /\ ChoiceInv(q) /\ e \notin purged /\ request[q] \in Reads
    BY DEF IntakeInv, IntakeTypes, Spoilt
  <1>2. HasVersion1(e) /\ \A d \in Destinations : deliveries[e][d].exists /\ deliveries[e][d].linked
    BY <1>1 DEF EventInv
  <1>3. o \in Recipients /\ inbox[e][o] # "none"
    BY <1>1, <1>2, OwnerIsTheRecipient DEF EventInv
  <1>4. second \in Seconds /\ user \in Recipients
    BY <1>1 DEF Reads
  <1>5. \A u \in Recipients : e \in Intake!AllItems(u) <=> inbox[e][u] # "none"
    BY DEF Intake!AllItems
  <1>6. \A u \in Recipients, d \in Destinations : <<e, d>> \in Intake!AllDeliveries(u) <=> o = u
    BY <1>2 DEF Intake!AllDeliveries
  <1>7. \A f \in Events, d \in Destinations : <<e, d>> \in Intake!LinkedTo(f) <=> f = e
    BY <1>2 DEF Intake!LinkedTo
  <1>8. SUFFICES \/ user = o /\ e \in items /\ \A d \in Destinations : <<e, d>> \in rows
                 \/ ~(user = o /\ e \in items) /\ \A d \in Destinations : <<e, d>> \notin rows
    BY <1>2, <1>3
  <1>a. CASE second.of = "item"
    <2> DEFINE f == second.row[1]
               d == second.row[2]
    <2>1. items = Intake!ItemOf(second.row) /\ rows = request[q].rows
      BY <1>a DEF Intake!SecondItems, Intake!SecondRows
    <2>2. /\ user = Intake!Owner(f) /\ rows \subseteq {f} \X Destinations
          /\ f \notin Spoilt /\ deliveries[f][d].linked => {f} \X Destinations \subseteq rows
      BY <1>1, <1>a, <2>1, SMTT(30) DEF ChoiceInv
    <2>3. f \in Events /\ d \in Destinations
      BY <1>4, <1>a DEF Seconds, Targets
    <2>4. items = IF deliveries[f][d].linked THEN {f} ELSE {}
      BY <2>1 DEF Intake!ItemOf
    <2> HIDE DEF f, d, items, rows
    <2>5. CASE f = e
      BY <1>2, <2>2, <2>3, <2>4, <2>5
    <2>6. CASE f # e
      <3>1. e \notin items /\ \A c \in Destinations : <<e, c>> \notin rows
        BY <2>2, <2>4, <2>6
      <3> QED
        BY <3>1
    <2> QED
      BY <2>5, <2>6
  <1>b. CASE second.of = "items"
    <2>1. items = Intake!AllItems(user) /\ rows = request[q].rows
      BY <1>b DEF Intake!SecondItems, Intake!SecondRows
    <2>2. \A d \in Destinations : <<e, d>> \in rows <=> o = user
      BY <1>1, <1>2, <1>b, <2>1 DEF ChoiceInv
    <2> QED
      BY <1>3, <1>4, <1>5, <2>1, <2>2
  <1>c. CASE second.of = "links"
    <2>1. items = request[q].items /\ rows = Intake!LinkedTo(second.event) \intersect Intake!AllDeliveries(user)
      BY <1>c DEF Intake!SecondItems, Intake!SecondRows
    <2>2. items = {second.event} /\ second.event \in Events
      BY <1>1, <1>4, <1>c, <2>1 DEF ChoiceInv, Seconds
    <2>3. \A d \in Destinations : <<e, d>> \in rows <=> second.event = e /\ o = user
      BY <1>4, <1>6, <1>7, <2>1, <2>2
    <2> QED
      BY <2>2, <2>3
  <1>d. CASE second.of = "rows"
    <2>1. items = request[q].items /\ rows = Intake!AllDeliveries(user)
      BY <1>d DEF Intake!SecondItems, Intake!SecondRows
    <2>2. e \in items <=> inbox[e][user] # "none"
      BY <1>1, <1>d, <2>1 DEF ChoiceInv
    <2> QED
      BY <1>3, <1>4, <1>6, <2>1, <2>2
  <1>e. CASE second.of = "push"
    <2>1. items = {f \in {second.event} : <<f, user>> \in pushes} /\ rows = request[q].rows
      BY <1>e DEF Intake!SecondItems, Intake!SecondRows
    <2>2. rows = {}
      BY <1>1, <1>e, <2>1 DEF ChoiceInv
    <2>3. <<e, user>> \notin pushes
      BY <1>4 DEF IntakeInv, PushInv
    <2> QED
      BY <2>1, <2>2, <2>3
  <1> QED
    BY <1>4, <1>a, <1>b, <1>c, <1>d, <1>e DEF Seconds

(* A read transaction commits: it marks, and leaves everything else.       *)
LEMMA ReadMarks ==
    ASSUME IntakeInv, NEW q \in Requests, Intake!CommitRead(q)
    PROVE  /\ inbox' \in [Events -> [Recipients -> Marks]] /\ deliveries' \in [Events -> [Destinations -> Rows]]
           /\ \A e \in Events, u \in Recipients :
                 inbox'[e][u] = IF u = request[q].user /\ e \in Intake!SecondItems(q) /\ inbox[e][u] # "none"
                                THEN "read" ELSE inbox[e][u]
           /\ \A e \in Events, d \in Destinations :
                 /\ deliveries'[e][d].exists = deliveries[e][d].exists
                 /\ deliveries'[e][d].linked = deliveries[e][d].linked
                 /\ IF <<e, d>> \in Intake!SecondRows(q) /\ deliveries[e][d].exists
                    THEN deliveries'[e][d].read ELSE deliveries'[e][d].read = deliveries[e][d].read
  <1> DEFINE user == request[q].user
             items == Intake!SecondItems(q)
             rows == Intake!SecondRows(q)
  <1>1. /\ inbox' = [e \in Events |-> [u \in Recipients |->
                       IF u = user /\ e \in items /\ inbox[e][u] # "none" THEN "read" ELSE inbox[e][u]]]
        /\ deliveries' = [e \in Events |-> [d \in Destinations |->
                            IF <<e, d>> \in rows /\ deliveries[e][d].exists
                            THEN [deliveries[e][d] EXCEPT !.read = TRUE] ELSE deliveries[e][d]]]
    BY DEF Intake!CommitRead
  <1>2. inbox \in [Events -> [Recipients -> Marks]] /\ deliveries \in [Events -> [Destinations -> Rows]]
    BY DEF IntakeInv, IntakeTypes
  <1> HIDE DEF user, items, rows
  <1>3. inbox' \in [Events -> [Recipients -> Marks]]
    BY <1>1, <1>2 DEF Marks
  <1>4. ASSUME NEW e \in Events, NEW d \in Destinations
        PROVE  /\ deliveries'[e][d] \in Rows
               /\ deliveries'[e][d].exists = deliveries[e][d].exists
               /\ deliveries'[e][d].linked = deliveries[e][d].linked
               /\ IF <<e, d>> \in rows /\ deliveries[e][d].exists
                  THEN deliveries'[e][d].read ELSE deliveries'[e][d].read = deliveries[e][d].read
    <2>1. deliveries[e][d] \in Rows
      BY <1>2
    <2>2. CASE <<e, d>> \in rows /\ deliveries[e][d].exists
      <3>1. deliveries'[e][d] = [deliveries[e][d] EXCEPT !.read = TRUE]
        BY <1>1, <2>2
      <3> QED
        BY <2>1, <2>2, <3>1 DEF Rows
    <2>3. CASE ~(<<e, d>> \in rows /\ deliveries[e][d].exists)
      <3>1. deliveries'[e][d] = deliveries[e][d]
        BY <1>1, <2>3
      <3> QED
        BY <2>1, <2>3, <3>1
    <2> QED
      BY <2>2, <2>3
  <1>5. deliveries' \in [Events -> [Destinations -> Rows]]
    <2>1. \A e \in Events : deliveries'[e] \in [Destinations -> Rows]
      BY <1>1, <1>4
    <2> QED
      BY <1>1, <2>1
  <1> QED
    BY <1>1, <1>3, <1>4, <1>5 DEF user, items, rows

LEMMA ReadStep ==
    ASSUME Intake!IntakeAssumption, IntakeInv, NEW q \in Requests, Intake!CommitRead(q)
    PROVE  IntakeInv'
  <1>1. /\ request[q].pc = "open" /\ request' = [request EXCEPT ![q] = Intake!Closed]
        /\ raced' = raced \union {e \in Events : Intake!Locked(e)}
        /\ UNCHANGED <<queue, handler, pushes, stored, purged>>
    BY DEF Intake!CommitRead, Intake!OpenRequest
  <1>2. IntakeTypes /\ request \in [Requests -> Reads]
    BY DEF IntakeInv, IntakeTypes
  <1>3. Intake!Closed \in Reads /\ Intake!Closed.pc = "closed"
    BY DEF Intake!Closed, Reads
  <1>4. request' \in [Requests -> Reads] /\ \A p \in Requests : request'[p].pc = "open" => request'[p] = request[p]
    BY <1>1, <1>2, <1>3
  <1>5. /\ inbox' \in [Events -> [Recipients -> Marks]] /\ deliveries' \in [Events -> [Destinations -> Rows]]
        /\ \A e \in Events, u \in Recipients :
              inbox'[e][u] = IF u = request[q].user /\ e \in Intake!SecondItems(q) /\ inbox[e][u] # "none"
                             THEN "read" ELSE inbox[e][u]
        /\ \A e \in Events, d \in Destinations :
              /\ deliveries'[e][d].exists = deliveries[e][d].exists
              /\ deliveries'[e][d].linked = deliveries[e][d].linked
              /\ IF <<e, d>> \in Intake!SecondRows(q) /\ deliveries[e][d].exists
                 THEN deliveries'[e][d].read ELSE deliveries'[e][d].read = deliveries[e][d].read
    BY ReadMarks
  <1>6. \A e \in Events, u \in Recipients : inbox'[e][u] = "none" <=> inbox[e][u] = "none"
    BY <1>5
  <1>7. IntakeTypes'
    BY <1>1, <1>2, <1>4, <1>5 DEF IntakeTypes
  <1>8. Spoilt \subseteq Spoilt' /\ \A e \in Events : e \notin Spoilt' => ~Intake!Locked(e)
    BY <1>1 DEF Spoilt
  <1>9. /\ \A e \in Events : Intake!HasItems(e)' <=> Intake!HasItems(e)
        /\ \A e \in Events : Intake!HasDeliveries(e)' <=> Intake!HasDeliveries(e)
    <2>1. \A e \in Events, d \in Destinations : deliveries'[e][d].exists = deliveries[e][d].exists
      BY <1>5
    <2> QED
      BY <1>6, <2>1 DEF Intake!HasItems, Intake!HasDeliveries
  <1>10. /\ \A e \in Events : Intake!Owner(e)' = Intake!Owner(e) /\ Intake!Version1(e)' = Intake!Version1(e)
         /\ \A e \in Events : HasVersion1(e)' = HasVersion1(e)
    BY DEF Intake!Owner, Intake!Version1, HasVersion1
  <1>11. ASSUME NEW e \in Events PROVE EventInv(e)'
    <2>1. EventInv(e)
      BY DEF IntakeInv
    <2>2. \A d \in Destinations : ~deliveries'[e][d].exists => ~deliveries'[e][d].read /\ ~deliveries'[e][d].linked
      BY <1>5, <2>1 DEF EventInv
    <2>3. HasVersion1(e) => Intake!Owner(e) \in Recipients
      BY OwnerIsTheRecipient
    <2>4. Intake!HasDeliveries(e)' => HasVersion1(e)' /\ stored'[e] = Intake!Version1(e)'.type
      BY <1>1, <1>9, <1>10, <2>1 DEF EventInv
    <2>5. e \notin purged' /\ HasVersion1(e)' /\ stored'[e] = Intake!Version1(e)'.type /\ Intake!HasItems(e)' =>
             inbox'[e][Intake!Owner(e)'] # "none"
      BY <1>1, <1>6, <1>9, <1>10, <2>1, <2>3 DEF EventInv
    <2>6. e \notin purged' /\ Intake!HasDeliveries(e)' =>
             /\ \A d \in Destinations : deliveries'[e][d].exists
             /\ IF Intake!HasItems(e)' THEN \A d \in Destinations : deliveries'[e][d].linked
                ELSE \A d \in Destinations : ~deliveries'[e][d].linked
      BY <1>1, <1>5, <1>9, <2>1 DEF EventInv
    <2> QED
      BY <2>2, <2>4, <2>5, <2>6 DEF EventInv
  <1>12. ASSUME NEW e \in Events, e \notin Spoilt' PROVE Agree(e)'
    <2> DEFINE o == Intake!Owner(e)
    <2>1. e \in Events \ Spoilt /\ Agree(e)
      BY <1>8, <1>12 DEF IntakeInv
    <2>2. SUFFICES ASSUME Intake!HasDeliveries(e), Intake!HasItems(e)
                   PROVE  (inbox'[e][o] = "read") = (\A d \in Destinations : deliveries'[e][d].read)
      BY <1>9, <1>10 DEF Agree
    <2>3. /\ o \in Recipients /\ inbox[e][o] # "none" /\ \A d \in Destinations : deliveries[e][d].exists
          /\ \/ /\ request[q].user = o /\ e \in Intake!SecondItems(q)
                /\ \A d \in Destinations : <<e, d>> \in Intake!SecondRows(q)
             \/ /\ ~(request[q].user = o /\ e \in Intake!SecondItems(q))
                /\ \A d \in Destinations : <<e, d>> \notin Intake!SecondRows(q)
      BY <1>1, <2>1, <2>2, ReadTakesBothOrNeither
    <2>4. (inbox[e][o] = "read") = (\A d \in Destinations : deliveries[e][d].read)
      BY <2>1, <2>2 DEF Agree
    <2>5. CASE /\ request[q].user = o /\ e \in Intake!SecondItems(q)
               /\ \A d \in Destinations : <<e, d>> \in Intake!SecondRows(q)
      <3>1. inbox'[e][o] = "read"
        BY <1>5, <2>1, <2>3, <2>5
      <3>2. ASSUME NEW d \in Destinations PROVE deliveries'[e][d].read
        <4>1. <<e, d>> \in Intake!SecondRows(q) /\ deliveries[e][d].exists
          BY <2>3, <2>5
        <4>2. IF <<e, d>> \in Intake!SecondRows(q) /\ deliveries[e][d].exists
              THEN deliveries'[e][d].read ELSE deliveries'[e][d].read = deliveries[e][d].read
          BY <1>5, <2>1
        <4> QED
          BY <4>1, <4>2
      <3> QED
        BY <3>1, <3>2
    <2>6. CASE /\ ~(request[q].user = o /\ e \in Intake!SecondItems(q))
               /\ \A d \in Destinations : <<e, d>> \notin Intake!SecondRows(q)
      <3>1. inbox'[e][o] = inbox[e][o]
        BY <1>5, <2>1, <2>3, <2>6
      <3>2. \A d \in Destinations : deliveries'[e][d].read = deliveries[e][d].read
        BY <1>5, <2>1, <2>6
      <3> QED
        BY <2>4, <3>1, <3>2
    <2> QED
      BY <2>3, <2>5, <2>6
  <1>13. OneIngest'
    BY <1>1 DEF IntakeInv, OneIngest
  <1>14. ASSUME NEW n \in Messages, IsStored(n) PROVE IsStored(n)'
    <2>1. n.event \in Events /\ n.to \subseteq Recipients
      BY DEF Intake!IntakeAssumption
    <2> QED
      BY <1>1, <1>6, <1>14, <2>1 DEF IsStored
  <1>15. StoredInv'
    <2>1. ASSUME NEW n \in Messages, queue'[n].at = "acked" PROVE IsStored(n)'
      BY <1>1, <1>14, <2>1 DEF IntakeInv, StoredInv
    <2>2. ASSUME NEW h \in Handlers, handler[h].pc = "stored" PROVE IsStored(handler[h].msg)'
      <3>1. PICK n \in Messages : n = handler[h].msg
        BY <1>2, <2>2 DEF IntakeTypes, Works
      <3>2. IsStored(n)'
        BY <1>14, <2>2, <3>1 DEF IntakeInv, StoredInv
      <3>3. handler'[h].msg = n
        BY <1>1, <3>1
      <3> QED
        BY <3>2, <3>3 DEF IsStored
    <2> QED
      BY <1>1, <2>1, <2>2 DEF StoredInv
  <1>16. ASSUME NEW h \in Handlers, handler'[h].pc = "open" PROVE ViewInv(h)'
    <2> DEFINE view == handler[h]
    <2>1. handler[h].pc = "open" /\ handler'[h] = handler[h] /\ ViewInv(h)
      BY <1>1, <1>16 DEF IntakeInv
    <2>2. PICK m \in Messages : m = handler[h].msg
      BY <1>2, <2>1 DEF IntakeTypes, Works
    <2> DEFINE e == m.event
    <2>3. e \in Events /\ e \in Spoilt'
      BY <1>1, <2>1, <2>2 DEF Intake!Locked, Spoilt, Intake!IntakeAssumption
    <2>4. /\ ~m.own
          /\ \A u \in Recipients : view.items[u] = "none" => inbox'[e][u] = "none"
          /\ \A d \in Destinations : ~view.rows[d].exists => ~deliveries'[e][d].exists
          /\ e \notin purged' => \A u \in Recipients : view.items[u] # "none" => inbox'[e][u] # "none"
          /\ Intake!HasRows(view.rows) => HasVersion1(e) /\ m.type = Intake!Version1(e).type
          /\ m.version = 1 /\ (\E u \in Recipients : view.items[u] # "none") => e \in purged' \/ view.items[Intake!Owner(e)] # "none"
      BY <1>1, <1>5, <1>6, <2>1, <2>2, <2>3 DEF ViewInv
    <2>5. Intake!HasRows(view.rows)' <=> Intake!HasRows(view.rows)
      BY <2>1 DEF Intake!HasRows
    <2> QED
      BY <1>10, <2>1, <2>2, <2>3, <2>4, <2>5 DEF ViewInv
  <1>17. ASSUME NEW p \in Requests, request'[p].pc = "open" PROVE ChoiceInv(p)'
    <2>1. request'[p] = request[p] /\ ChoiceInv(p) /\ request[p] \in Reads /\ request[p].pc = "open"
      BY <1>2, <1>4, <1>17 DEF IntakeInv
    <2> QED
      BY <1>5, <1>6, <1>8, <2>1, ChoicesStay
  <1>18. PushInv'
    BY <1>1, <1>6, <1>9 DEF IntakeInv, PushInv
  <1> QED
    BY <1>7, <1>11, <1>12, <1>13, <1>15, <1>16, <1>17, <1>18 DEF IntakeInv

(* Retention deletes a delivery, a row for a device, or an item that       *)
(* nothing refers to.                                                      *)
LEMMA PurgeStep ==
    ASSUME Intake!IntakeAssumption, IntakeInv, NEW e \in Events,
           \/ \E d \in Destinations : Intake!PurgeDelivery(e, d)
           \/ \E u \in Recipients : Intake!PurgeItem(e, u) \/ Intake!PurgePush(e, u)
    PROVE  IntakeInv'
  <1>1. /\ UNCHANGED <<queue, handler, stored, request, raced>> /\ purged' = purged \union {e}
    BY DEF Intake!PurgeDelivery, Intake!PurgeItem, Intake!PurgePush
  <1>2. IntakeTypes
    BY DEF IntakeInv
  <1>3. inbox \in [Events -> [Recipients -> Marks]] /\ deliveries \in [Events -> [Destinations -> Rows]]
    BY <1>2 DEF IntakeTypes
  <1>4. /\ inbox' \in [Events -> [Recipients -> Marks]] /\ deliveries' \in [Events -> [Destinations -> Rows]]
        /\ \A f \in Events : f # e => inbox'[f] = inbox[f] /\ deliveries'[f] = deliveries[f]
        /\ \A u \in Recipients : inbox'[e][u] \in {inbox[e][u], "none"}
        /\ \A d \in Destinations : deliveries'[e][d] \in {deliveries[e][d], Intake!Missing}
    <2>1. CASE \E d \in Destinations : Intake!PurgeDelivery(e, d)
      <3>1. PICK d \in Destinations : deliveries' = [deliveries EXCEPT ![e][d] = Intake!Missing] /\ inbox' = inbox
        BY <2>1 DEF Intake!PurgeDelivery
      <3>2. Intake!Missing \in Rows
        BY DEF Intake!Missing, Rows
      <3> QED
        BY <1>3, <3>1, <3>2
    <2>2. CASE \E u \in Recipients : Intake!PurgeItem(e, u)
      <3>1. PICK u \in Recipients : inbox' = [inbox EXCEPT ![e][u] = "none"] /\ deliveries' = deliveries
        BY <2>2 DEF Intake!PurgeItem
      <3>2. "none" \in Marks
        BY DEF Marks
      <3> QED
        BY <1>3, <3>1, <3>2
    <2>3. CASE \E u \in Recipients : Intake!PurgePush(e, u)
      BY <1>3, <2>3 DEF Intake!PurgePush
    <2> QED
      BY <2>1, <2>2, <2>3
  <1>5. IntakeTypes'
    BY <1>1, <1>2, <1>4 DEF IntakeTypes
  <1>6. purged \subseteq purged' /\ raced \subseteq raced' /\ e \in purged' /\ e \in Spoilt' /\ Spoilt \subseteq Spoilt'
    BY <1>1 DEF Spoilt
  <1>7. ~Intake!Missing.exists /\ ~Intake!Missing.read /\ ~Intake!Missing.linked
    BY DEF Intake!Missing
  <1>8. Intake!HasDeliveries(e)' => Intake!HasDeliveries(e)
    BY <1>4, <1>7 DEF Intake!HasDeliveries
  <1>9. /\ Intake!Owner(e)' = Intake!Owner(e) /\ Intake!Version1(e)' = Intake!Version1(e)
        /\ HasVersion1(e)' = HasVersion1(e)
    BY DEF Intake!Owner, Intake!Version1, HasVersion1
  <1>10. EventInv(e)'
    <2>1. EventInv(e)
      BY DEF IntakeInv
    <2>2. \A d \in Destinations : ~deliveries'[e][d].exists => ~deliveries'[e][d].read /\ ~deliveries'[e][d].linked
      BY <1>4, <1>7, <2>1 DEF EventInv
    <2>3. Intake!HasDeliveries(e)' => HasVersion1(e)' /\ stored'[e] = Intake!Version1(e)'.type
      BY <1>1, <1>8, <1>9, <2>1 DEF EventInv
    <2> QED
      BY <1>6, <2>2, <2>3 DEF EventInv
  <1>11. \A f \in Events : EventInv(f)' /\ (f \notin Spoilt' => Agree(f)')
    BY <1>1, <1>4, <1>6, <1>10, OtherEvents DEF IntakeInv
  <1>12. OneIngest'
    BY <1>1 DEF IntakeInv, OneIngest
  <1>13. ASSUME NEW n \in Messages, IsStored(n) PROVE IsStored(n)'
    <2>1. n.event \in Events
      BY DEF Intake!IntakeAssumption
    <2>2. CASE n.event = e
      BY <1>6, <2>2 DEF IsStored
    <2>3. CASE n.event # e
      BY <1>1, <1>4, <1>6, <1>13, <2>1, <2>3, OtherEvents
    <2> QED
      BY <2>2, <2>3
  <1>14. StoredInv'
    <2>1. ASSUME NEW n \in Messages, queue'[n].at = "acked" PROVE IsStored(n)'
      BY <1>1, <1>13, <2>1 DEF IntakeInv, StoredInv
    <2>2. ASSUME NEW h \in Handlers, handler[h].pc = "stored" PROVE IsStored(handler[h].msg)'
      <3>1. PICK n \in Messages : n = handler[h].msg
        BY <1>2, <2>2 DEF IntakeTypes, Works
      <3>2. IsStored(n)'
        BY <1>13, <2>2, <3>1 DEF IntakeInv, StoredInv
      <3>3. handler'[h].msg = n
        BY <1>1, <3>1
      <3> QED
        BY <3>2, <3>3 DEF IsStored
    <2> QED
      BY <1>1, <2>1, <2>2 DEF StoredInv
  <1>15. ASSUME NEW h \in Handlers, handler'[h].pc = "open" PROVE ViewInv(h)'
    <2> DEFINE view == handler[h]
    <2>1. handler[h].pc = "open" /\ handler'[h] = handler[h] /\ ViewInv(h)
      BY <1>1, <1>15 DEF IntakeInv
    <2>2. PICK m \in Messages : m = handler[h].msg
      BY <1>2, <2>1 DEF IntakeTypes, Works
    <2>3. m.event \in Events
      BY DEF Intake!IntakeAssumption
    <2>4. CASE m.event = e
      <3>1. /\ ~m.own
            /\ \A u \in Recipients : view.items[u] = "none" => inbox'[e][u] = "none"
            /\ \A d \in Destinations : ~view.rows[d].exists => ~deliveries'[e][d].exists
            /\ Intake!HasRows(view.rows) => HasVersion1(e) /\ m.type = Intake!Version1(e).type
        BY <1>4, <1>7, <2>1, <2>2, <2>4, ZenonT(30) DEF ViewInv
      <3>2. Intake!HasRows(view.rows)' <=> Intake!HasRows(view.rows)
        BY <2>1 DEF Intake!HasRows
      <3> QED
        BY <1>6, <1>9, <2>1, <2>2, <2>4, <3>1, <3>2 DEF ViewInv
    <2>5. CASE m.event # e
      BY <1>1, <1>4, <1>6, <2>1, <2>2, <2>3, <2>5, OtherEvents
    <2> QED
      BY <2>4, <2>5
  <1>16. ASSUME NEW q \in Requests, request'[q].pc = "open" PROVE ChoiceInv(q)'
    <2>1. request'[q] = request[q] /\ ChoiceInv(q) /\ request[q] \in Reads /\ request[q].pc = "open"
      BY <1>1, <1>2, <1>16 DEF IntakeInv, IntakeTypes
    <2> QED
      BY <1>4, <1>6, <2>1, ChoicesStay
  <1>17. PushInv'
    <2>1. pushes' \subseteq pushes /\ \A u \in Recipients : <<e, u>> \in pushes' => inbox'[e][u] = inbox[e][u]
      <3>1. CASE \E d \in Destinations : Intake!PurgeDelivery(e, d)
        BY <3>1 DEF Intake!PurgeDelivery
      <3>2. CASE \E u \in Recipients : Intake!PurgePush(e, u)
        BY <3>2 DEF Intake!PurgePush
      <3>3. CASE \E u \in Recipients : Intake!PurgeItem(e, u)
        <4>1. PICK v \in Recipients : <<e, v>> \notin pushes /\ inbox' = [inbox EXCEPT ![e][v] = "none"] /\ pushes' = pushes
          BY <3>3 DEF Intake!PurgeItem
        <4> QED
          BY <1>3, <4>1
      <3> QED
        BY <3>1, <3>2, <3>3
    <2>2. PushInv
      BY DEF IntakeInv
    <2>3. \A f \in Events : Intake!HasDeliveries(f)' => Intake!HasDeliveries(f)
      BY <1>4, <1>8 DEF Intake!HasDeliveries
    <2>4. \A f \in Events, u \in Recipients : <<f, u>> \in pushes' => <<f, u>> \in pushes /\ inbox'[f][u] = inbox[f][u]
      BY <1>4, <2>1
    <2> QED
      BY <2>1, <2>2, <2>3, <2>4 DEF PushInv
  <1> QED
    BY <1>5, <1>11, <1>12, <1>14, <1>15, <1>16, <1>17 DEF IntakeInv

LEMMA IntakeStep ==
    ASSUME Intake!IntakeAssumption, IntakeInv, [Intake!Next]_(Intake!vars)
    PROVE  IntakeInv'
  <1>1. CASE UNCHANGED Intake!vars
    <2>1. UNCHANGED <<queue, handler, inbox, deliveries, pushes, stored, request, purged, raced>>
      BY <1>1 DEF Intake!vars, Intake!db
    <2>2. /\ handler \in [Handlers -> Works] /\ request \in [Requests -> Reads]
          /\ queue \in [Messages -> [at : {"unsent", "ready", "taken", "acked", "dead"}, returns : Nat]]
      BY DEF IntakeInv, IntakeTypes
    <2> QED
      BY <2>1, <2>2, TablesAreLeftAlone
  <1>2. CASE \E h \in Handlers : Intake!Handle(h) \/ \E m \in Messages : Intake!Take(h, m)
    BY <1>2, MessagesMove, BeginStep, CommitStep DEF Intake!Handle
  <1>3. CASE Intake!LoseConnection \/ Intake!Crash
    BY <1>3, MessagesMove
  <1>4. CASE \E q \in Requests : Intake!Read(q)
    BY <1>4, MessagesMove, ReadsOpen, ReadStep DEF Intake!Read
  <1>5. CASE \E e \in Events : \/ \E d \in Destinations : Intake!PurgeDelivery(e, d)
                               \/ \E u \in Recipients : Intake!PurgeItem(e, u) \/ Intake!PurgePush(e, u)
    BY <1>5, PurgeStep
  <1> QED
    BY <1>1, <1>2, <1>3, <1>4, <1>5 DEF Intake!Next

LEMMA IntakeIsKept == Spec => [](service = "intake" => IntakeInv)
  <1>1. Init => (service = "intake" => IntakeInv)
    BY ServicesAssumption, IntakeInit DEF Init
  <1>2. (service = "intake" => IntakeInv) /\ [Next]_vars => (service = "intake" => IntakeInv)'
    <2> SUFFICES ASSUME service = "intake" => IntakeInv, [Next]_vars, service' = "intake" PROVE IntakeInv'
      OBVIOUS
    <2>1. service = "intake" /\ [Intake!Next]_(Intake!vars)
      BY DEF Next, vars, ClientsOnly, IntakeOnly, Intake!vars, Intake!db
    <2> QED
      BY <2>1, ServicesAssumption, IntakeStep
  <1> QED
    BY <1>1, <1>2, PTL DEF Spec

(* AckedIsStored: an event is acknowledged only when every recipient has   *)
(* an item of it, for any messages, handlers, crashes and lost             *)
(* connections.                                                            *)
THEOREM AcksAreBacked == Spec => []AckedIsStored
  <1>1. (service = "intake" => IntakeInv) => AckedIsStored
    BY DEF IntakeInv, StoredInv, IsStored, AckedIsStored, Intake!AckedIsStored
  <1> QED
    BY <1>1, IntakeIsKept, PTL

(* OneChannel: an event reaches a user through destinations or through     *)
(* devices and mail, never through both, for any messages and handlers.    *)
THEOREM OneChannelOnly == Spec => []OneChannel
  <1>1. (service = "intake" => IntakeInv) => OneChannel
    BY DEF IntakeInv, PushInv, OneChannel, Intake!OneChannel
  <1> QED
    BY <1>1, IntakeIsKept, PTL

(* ApisAgree: the item of an event with deliveries is read exactly when    *)
(* all of them are, but for the events that were stored while a read       *)
(* transaction was open. It says nothing of the rows for devices and mail, *)
(* which are stored as read beside an unread item.                         *)
THEOREM ReadStatesAgree == Spec => []ApisAgree
  <1>1. (service = "intake" => IntakeInv) => ApisAgree
    BY DEF IntakeInv, Agree, Spoilt, ApisAgree, Intake!ApisAgree
  <1> QED
    BY <1>1, IntakeIsKept, PTL

(* A step of the intake marks nothing unread.                              *)
LEMMA ReadIsKept == ASSUME Intake!IntakeAssumption, IntakeInv, Intake!Next PROVE Intake!ReadKept
  <1>1. ASSUME IntakeInv, UNCHANGED <<inbox, deliveries>> PROVE Intake!ReadKept
    BY <1>1 DEF Intake!ReadKept
  <1>2. ASSUME IntakeInv, NEW h \in Handlers, Intake!CommitIngest(h) PROVE Intake!ReadKept
    <2>1. PICK m \in Messages : m = handler[h].msg
      BY <1>2 DEF IntakeInv, IntakeTypes, Works, Intake!CommitIngest
    <2> DEFINE e == m.event
    <2>2. /\ \A f \in Events : f # e => inbox'[f] = inbox[f] /\ deliveries'[f] = deliveries[f]
          /\ \A u \in Recipients : inbox[e][u] # "none" => inbox'[e][u] = inbox[e][u]
          /\ \A d \in Destinations : deliveries[e][d].read => deliveries'[e][d].read
      BY <1>2, <2>1, IngestStores
    <2> QED
      BY <2>2 DEF Intake!ReadKept
  <1>3. ASSUME IntakeInv, NEW q \in Requests, Intake!CommitRead(q) PROVE Intake!ReadKept
    <2>1. /\ \A e \in Events, u \in Recipients : inbox'[e][u] = "read" \/ inbox'[e][u] = inbox[e][u]
          /\ \A e \in Events, d \in Destinations : deliveries[e][d].read => deliveries'[e][d].read
      BY <1>3, ReadMarks, ZenonT(30)
    <2> QED
      BY <2>1 DEF Intake!ReadKept
  <1>4. ASSUME IntakeInv, NEW e \in Events, NEW d \in Destinations, Intake!PurgeDelivery(e, d) PROVE Intake!ReadKept
    <2>1. deliveries \in [Events -> [Destinations -> Rows]] /\ inbox' = inbox
          /\ deliveries' = [deliveries EXCEPT ![e][d] = Intake!Missing]
      BY <1>4 DEF IntakeInv, IntakeTypes, Intake!PurgeDelivery
    <2>2. ~Intake!Missing.exists
      BY DEF Intake!Missing
    <2>3. \A f \in Events, c \in Destinations : deliveries'[f][c] = deliveries[f][c] \/ deliveries'[f][c] = Intake!Missing
      BY <2>1
    <2> QED
      BY <2>1, <2>2, <2>3 DEF Intake!ReadKept
  <1>5. ASSUME IntakeInv, NEW e \in Events, NEW u \in Recipients, Intake!PurgeItem(e, u) PROVE Intake!ReadKept
    <2>1. inbox \in [Events -> [Recipients -> Marks]] /\ deliveries' = deliveries /\ inbox' = [inbox EXCEPT ![e][u] = "none"]
      BY <1>5 DEF IntakeInv, IntakeTypes, Intake!PurgeItem
    <2>2. \A f \in Events, v \in Recipients : inbox'[f][v] \in {inbox[f][v], "none"}
      BY <2>1
    <2> QED
      BY <2>1, <2>2 DEF Intake!ReadKept
  <1>6. ASSUME NEW h \in Handlers, Intake!Handle(h) \/ \E m \in Messages : Intake!Take(h, m), ~Intake!CommitIngest(h)
        PROVE  UNCHANGED <<inbox, deliveries>>
    BY <1>6 DEF Intake!Handle, Intake!Take, Intake!DropOwnAction, Intake!BeginIngest, Intake!Ack, Intake!Refuse,
                Intake!Requeue, Intake!Answer, Intake!db
  <1>7. ASSUME NEW q \in Requests, Intake!Read(q), ~Intake!CommitRead(q) PROVE UNCHANGED <<inbox, deliveries>>
    BY <1>7 DEF Intake!Read, Intake!MarkDeliveryRead, Intake!MarkAllDeliveriesRead, Intake!MarkAllItemsRead,
                Intake!MarkItemRead, Intake!MarkPushRead, Intake!Open, Intake!AbortRead, Intake!db
  <1>8. Intake!LoseConnection \/ Intake!Crash => UNCHANGED <<inbox, deliveries>>
    BY DEF Intake!LoseConnection, Intake!Crash, Intake!db
  <1>9. ASSUME NEW e \in Events, NEW u \in Recipients, Intake!PurgePush(e, u) PROVE UNCHANGED <<inbox, deliveries>>
    BY <1>9 DEF Intake!PurgePush
  <1> QED
    BY <1>1, <1>2, <1>3, <1>4, <1>5, <1>6, <1>7, <1>8, <1>9 DEF Intake!Next

(* ReadStaysRead: what a user has read never turns unread.                 *)
THEOREM ReadIsForGood == Spec => ReadStaysRead
  <1>1. (service = "intake" => IntakeInv) /\ [Next]_vars => [service = "intake" => Intake!ReadKept]_vars
    <2> SUFFICES ASSUME service = "intake", IntakeInv, Next PROVE Intake!ReadKept
      OBVIOUS
    <2>1. Intake!Next
      BY DEF Next
    <2> QED
      BY <2>1, ServicesAssumption, ReadIsKept
  <1> QED
    BY <1>1, IntakeIsKept, PTL DEF Spec, ReadStaysRead
=============================================================================
