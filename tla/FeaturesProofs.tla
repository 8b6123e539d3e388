-------------------------- MODULE FeaturesProofs --------------------------
(***************************************************************************)
(* What TLAPS proves of Features, for any documents, texts, directories    *)
(* and bounds, and for any features that are switched on together.         *)
(*                                                                         *)
(* First what is told about documents and folders; then the answers: what  *)
(* is drawn, listed, highlighted and popped up is of the text, the place   *)
(* and the document that the user sees, however many calls were under way  *)
(* and whatever became of them.                                            *)
(***************************************************************************)
EXTENDS Features, SequenceLemmas, FiniteSetTheorems

USE DocAssumption, RootAssumption DEF tokensVars

\* Documents that are open at the server are open, and the current one is open there
\* while it runs: handlers that do not open a document rely on it.
DocumentsInv ==
    /\ doc \in [Doc -> [open : BOOLEAN, text : Nat, timer : BOOLEAN]]
    /\ current \in {d \in Doc : doc[d].open} \cup {NULL}
    /\ server \in ServerType
    /\ \A d \in server.open_docs : doc[d].open
    /\ server.running /\ current # NULL => current \in server.open_docs

\* Every file is somewhere, and the folder of the project is never in the table, or
\* the last of its documents that is closed would take it back.
FoldersInv ==
    /\ folders \in [of : [Doc -> Root \cup {NULL}], table : SUBSET Root,
                    told : SUBSET (Root \cup {NULL})]
    /\ "folders" \in enabled => \A d \in Doc : doc[d].open => folders.of[d] \in Root
    /\ ProjectBase \notin folders.table
    /\ FoldersTold

\* Operations are counted without the bounds of a server.
ProgressInv ==
    /\ progress \in [ops : [created : Nat, begun : Nat], old : [created : Nat, begun : Nat],
                     num : Nat, bar : BOOLEAN]
    /\ BarStops

\* Nothing is known, drawn or counted when diagnostics are switched off.
DiagnosticsInv ==
    /\ diagnostics \in [table : [Doc -> Nat \cup {NULL}], drawn : [Doc -> Nat \cup {NULL}],
                        label : Nat \cup {NULL}, published : Seq([doc : Doc, text : Nat])]
    /\ "diagnostics" \notin enabled =>
          /\ diagnostics.table = [d \in Doc |-> NULL]
          /\ diagnostics.drawn = [d \in Doc |-> NULL]
          /\ diagnostics.label = NULL
          /\ diagnostics.published = <<>>
    /\ DiagnosticsDrawn

IInv == DocumentsInv /\ FoldersInv /\ ProgressInv /\ DiagnosticsInv

-----------------------------------------------------------------------------
\* A step of another feature.
LEMMA Quiet ==
    ASSUME IInv, UNCHANGED <<enabled, doc, current, server, diagnostics, progress, folders>>
    PROVE  IInv'
BY DEF IInv, DocumentsInv, FoldersInv, ProgressInv, DiagnosticsInv, FoldersTold, BarStops,
       DiagnosticsDrawn

\* The features whose properties these are keep to variables of their own.
LEMMA ProgressKept ==
    ASSUME ProgressInv, UNCHANGED progress
    PROVE  ProgressInv'
BY DEF ProgressInv, BarStops

LEMMA DiagnosticsKept ==
    ASSUME DiagnosticsInv, UNCHANGED <<enabled, current, diagnostics>>,
           server'.running = server.running
    PROVE  DiagnosticsInv'
BY DEF DiagnosticsInv, DiagnosticsDrawn

\* A document of the editor is opened at the server, which is told its folder.
LEMMA FoldersOpenedKept ==
    ASSUME DocumentsInv, FoldersInv, UNCHANGED enabled,
           NEW d \in Doc, NEW f,
           \* the documents but d are where they were
           f = folders \/ (d \notin server.open_docs /\ \E root \in FileRoot :
                              f = [folders EXCEPT !.of[d] = root]),
           "folders" \in enabled => f.of[d] \in Root,
           \A e \in Doc \ {d} : doc'[e].open => doc[e].open,
           server' = Opened(d),
           folders' = FoldersOpened(f, d)
    PROVE  FoldersInv'
<1> DEFINE on == "folders" \in enabled
<1>1. /\ f \in [of : [Doc -> Root \cup {NULL}], table : SUBSET Root,
                told : SUBSET (Root \cup {NULL})]
      /\ f.table = folders.table /\ f.told = folders.told
      /\ \A e \in Doc \ {d} : f.of[e] = folders.of[e]
      /\ d \in server.open_docs => f.of[d] = folders.of[d]
  <2>1. CASE f = folders
    BY <2>1 DEF FoldersInv
  <2>2. CASE d \notin server.open_docs /\ \E root \in FileRoot :
                f = [folders EXCEPT !.of[d] = root]
    BY <2>2 DEF FoldersInv, FileRoot
  <2> QED
    BY <2>1, <2>2
<1>2. /\ server'.running = server.running
      /\ server'.open_docs = IF server.running THEN server.open_docs \cup {d} ELSE server.open_docs
      /\ server.open_docs \in SUBSET Doc
  BY DEF Opened, DocumentsInv, ServerType
<1>3. CASE \/ ~on \/ ~server.running \/ d \in server.open_docs \/ f.of[d] = ProjectBase
  <2>1. folders' = f
    BY <1>3 DEF FoldersOpened
  <2>2. on => \A e \in Doc : doc'[e].open => f.of[e] \in Root
    BY <1>1 DEF FoldersInv
  <2>3. FoldersTold'
    <3> SUFFICES ASSUME on, server.running
                 PROVE  /\ \A e \in server'.open_docs : f.of[e] \in f.told
                        /\ f.told = f.table \cup ({ProjectBase} \ {NULL})
      BY <1>2, <2>1 DEF FoldersTold
    <3>1. f.told = f.table \cup ({ProjectBase} \ {NULL})
      BY <1>1 DEF FoldersInv, FoldersTold
    <3>2. \A e \in server.open_docs : f.of[e] \in f.told
      BY <1>1, <1>2 DEF FoldersInv, FoldersTold
    <3>3. f.of[d] \in f.told
      BY <1>3, <3>1, <3>2
    <3> QED
      BY <1>2, <3>1, <3>2, <3>3
  <2> QED
    BY <1>1, <2>1, <2>2, <2>3 DEF FoldersInv
<1>4. CASE ~ (\/ ~on \/ ~server.running \/ d \in server.open_docs \/ f.of[d] = ProjectBase)
  <2>1. folders' = [f EXCEPT !.table = @ \cup {f.of[d]}, !.told = @ \cup {f.of[d]}]
    BY <1>4 DEF FoldersOpened
  <2>2. /\ folders'.of = f.of
        /\ folders'.table = folders.table \cup {f.of[d]}
        /\ folders'.told = folders.told \cup {f.of[d]}
    BY <1>1, <2>1
  <2>3. folders' \in [of : [Doc -> Root \cup {NULL}], table : SUBSET Root,
                      told : SUBSET (Root \cup {NULL})]
    <3>1. f.of[d] \in Root
      BY <1>4
    <3>2. f.table \cup {f.of[d]} \in SUBSET Root /\ f.told \cup {f.of[d]} \in SUBSET (Root \cup {NULL})
      BY <1>1, <3>1
    <3> QED
      BY <1>1, <2>1, <3>2
  <2>4. on => \A e \in Doc : doc'[e].open => folders'.of[e] \in Root
    BY <1>1, <2>2 DEF FoldersInv
  <2>5. ProjectBase \notin folders'.table
    BY <1>4, <2>2 DEF FoldersInv
  <2>6. FoldersTold'
    <3>1. \A e \in server'.open_docs : folders'.of[e] \in folders'.told
      BY <1>1, <1>2, <1>4, <2>2 DEF FoldersInv, FoldersTold
    <3>2. folders'.told = folders'.table \cup ({ProjectBase} \ {NULL})
      BY <1>4, <2>2 DEF FoldersInv, FoldersTold
    <3> QED
      BY <3>1, <3>2 DEF FoldersTold
  <2> QED
    BY <2>3, <2>4, <2>5, <2>6 DEF FoldersInv
<1> QED
  BY <1>3, <1>4

\* Drawing a document as it becomes the current one.
LEMMA DiagnosticsShownKept ==
    ASSUME DiagnosticsInv, UNCHANGED enabled, NEW g, NEW d \in Doc, NEW running \in BOOLEAN,
           g = diagnostics \/ g = DiagnosticsForgotten,
           current' = d, server'.running = running,
           diagnostics' = DiagnosticsShown(g, d, running)
    PROVE  DiagnosticsInv'
<1>1. g \in [table : [Doc -> Nat \cup {NULL}], drawn : [Doc -> Nat \cup {NULL}],
             label : Nat \cup {NULL}, published : Seq([doc : Doc, text : Nat])]
  BY DEF DiagnosticsInv, DiagnosticsForgotten
<1>2. CASE "diagnostics" \in enabled
  <2>1. diagnostics' = [g EXCEPT !.drawn[d] = IF running THEN g.table[d] ELSE NULL,
                                 !.label = IF running THEN g.table[d] ELSE NULL]
    BY <1>2 DEF DiagnosticsShown, Redraw
  <2>2. diagnostics' \in [table : [Doc -> Nat \cup {NULL}], drawn : [Doc -> Nat \cup {NULL}],
                          label : Nat \cup {NULL}, published : Seq([doc : Doc, text : Nat])]
    <3>1. (IF running THEN g.table[d] ELSE NULL) \in Nat \cup {NULL}
      BY <1>1
    <3>2. \A known \in Nat \cup {NULL} : [g.drawn EXCEPT ![d] = known] \in [Doc -> Nat \cup {NULL}]
      BY <1>1
    <3> QED
      BY <1>1, <2>1, <3>1, <3>2, ZenonT(30)

  <2>3. DiagnosticsDrawn'
    BY <1>1, <2>1 DEF DiagnosticsDrawn
  <2> QED
    BY <1>2, <2>2, <2>3 DEF DiagnosticsInv
<1>3. CASE "diagnostics" \notin enabled
  <2>1. diagnostics' = diagnostics
    BY <1>3 DEF DiagnosticsShown, DiagnosticsInv, DiagnosticsForgotten
  <2> QED
    BY <1>3, <2>1 DEF DiagnosticsInv, DiagnosticsDrawn
<1> QED
  BY <1>2, <1>3

-----------------------------------------------------------------------------
(* The handlers of documents *)

LEMMA OpenDocumentStep == ASSUME IInv, NEW d \in Doc, OpenDocument(d) PROVE IInv'
<1>1. /\ ~doc[d].open
      /\ doc' = [doc EXCEPT ![d].open = TRUE]
      /\ current' = d
      /\ server' = Opened(d)
      /\ diagnostics' = DiagnosticsShown(diagnostics, d, server.running)
      /\ \E root \in FileRoot : folders' = FoldersOpened([folders EXCEPT !.of[d] = root], d)
      /\ UNCHANGED <<enabled, progress>>
  BY DEF OpenDocument
<1>2. DocumentsInv'
  BY <1>1, ZenonT(30) DEF IInv, DocumentsInv, Opened, ServerType
<1>3. FoldersInv'
  <2>1. PICK root \in FileRoot : folders' = FoldersOpened([folders EXCEPT !.of[d] = root], d)
    BY <1>1
  <2> DEFINE f == [folders EXCEPT !.of[d] = root]
  <2>2. d \notin server.open_docs
    BY <1>1 DEF IInv, DocumentsInv
  <2>3. "folders" \in enabled => f.of[d] \in Root
    BY DEF FileRoot, IInv, FoldersInv
  <2>4. \A e \in Doc \ {d} : doc'[e].open => doc[e].open
    BY <1>1 DEF IInv, DocumentsInv
  <2> HIDE DEF f
  <2>5. f = [folders EXCEPT !.of[d] = root] /\ folders' = FoldersOpened(f, d)
    BY <2>1 DEF f
  <2> QED
    BY <1>1, <2>2, <2>3, <2>4, <2>5, FoldersOpenedKept DEF IInv
<1>4. DiagnosticsInv'
  <2>1. server.running \in BOOLEAN /\ server'.running = server.running
    BY <1>1 DEF IInv, DocumentsInv, Opened, ServerType
  <2> QED
    BY <1>1, <2>1, DiagnosticsShownKept DEF IInv
<1> QED
  BY <1>1, <1>2, <1>3, <1>4, ProgressKept DEF IInv

LEMMA ActivateStep == ASSUME IInv, NEW d \in Doc, Activate(d) PROVE IInv'
<1>1. /\ doc[d].open
      /\ current' = d
      /\ server' = Opened(d)
      /\ diagnostics' = DiagnosticsShown(diagnostics, d, server.running)
      /\ folders' = FoldersOpened(folders, d)
      /\ UNCHANGED <<enabled, doc, progress>>
  BY DEF Activate
<1>2. DocumentsInv'
  BY <1>1 DEF IInv, DocumentsInv, Opened, ServerType
<1>3. FoldersInv'
  <2>1. "folders" \in enabled => folders.of[d] \in Root
    BY <1>1 DEF IInv, FoldersInv
  <2> QED
    BY <1>1, <2>1, FoldersOpenedKept DEF IInv
<1>4. DiagnosticsInv'
  <2>1. server.running \in BOOLEAN /\ server'.running = server.running
    BY <1>1 DEF IInv, DocumentsInv, Opened, ServerType
  <2> QED
    BY <1>1, <2>1, DiagnosticsShownKept DEF IInv
<1> QED
  BY <1>1, <1>2, <1>3, <1>4, ProgressKept DEF IInv

\* What editing has in common with the timer that follows it.
LEMMA ReopenedStep ==
    ASSUME IInv, NEW d \in Doc, doc[d].open,
           doc' \in [Doc -> [open : BOOLEAN, text : Nat, timer : BOOLEAN]],
           \A e \in Doc : doc'[e].open = doc[e].open,
           server' = Opened(d),
           folders' = FoldersOpened(folders, d),
           UNCHANGED <<enabled, current, diagnostics, progress>>
    PROVE  IInv'
<1>1. DocumentsInv'
  BY DEF IInv, DocumentsInv, Opened, ServerType
<1>2. FoldersInv'
  <2>1. "folders" \in enabled => folders.of[d] \in Root
    BY DEF IInv, FoldersInv
  <2> QED
    BY <2>1, FoldersOpenedKept DEF IInv
<1>3. DiagnosticsInv'
  <2>1. server'.running = server.running
    BY DEF IInv, DocumentsInv, Opened, ServerType
  <2> QED
    BY <2>1, DiagnosticsKept DEF IInv
<1> QED
  BY <1>1, <1>2, <1>3, ProgressKept DEF IInv

\* A text that changes opens and closes nothing.
LEMMA TextEdited ==
    ASSUME DocumentsInv, NEW d \in Doc, NEW timer \in BOOLEAN,
           doc' = [doc EXCEPT ![d].text = @ + 1, ![d].timer = timer]
    PROVE  /\ doc' \in [Doc -> [open : BOOLEAN, text : Nat, timer : BOOLEAN]]
           /\ \A e \in Doc : doc'[e].open = doc[e].open
<1> DEFINE rec == [open : BOOLEAN, text : Nat, timer : BOOLEAN]
           new == [open |-> doc[d].open, text |-> doc[d].text + 1, timer |-> timer]
<1>1. doc \in [Doc -> rec] /\ doc[d] \in rec
  BY DEF DocumentsInv
<1>2. new \in rec /\ new.open = doc[d].open
  BY <1>1
<1> DEFINE one == [doc EXCEPT ![d] = [open |-> doc[d].open, text |-> doc[d].text + 1,
                                      timer |-> doc[d].timer]]
<1>3. one = [doc EXCEPT ![d].text = @ + 1]
  BY <1>1
<1>4. doc' = [[doc EXCEPT ![d].text = @ + 1] EXCEPT ![d].timer = timer]
  OBVIOUS
<1>5. doc' = [doc EXCEPT ![d] = new]
  BY <1>1, <1>3, <1>4
<1> HIDE DEF rec, new
<1>6. doc' \in [Doc -> rec] /\ \A e \in Doc : doc'[e] = IF e = d THEN new ELSE doc[e]
  BY <1>1, <1>2, <1>5
<1> QED
  BY <1>2, <1>6 DEF rec

LEMMA EditStep == ASSUME IInv, NEW d \in Doc, Edit(d) PROVE IInv'
<1>1. /\ doc[d].open
      /\ doc' = [doc EXCEPT ![d].text = @ + 1, ![d].timer = @ \/ server.running]
      /\ server' = Opened(d)
      /\ folders' = FoldersOpened(folders, d)
      /\ UNCHANGED <<enabled, current, diagnostics, progress>>
  BY DEF Edit
<1>2. server.running \in BOOLEAN
  BY DEF IInv, DocumentsInv, ServerType
<1>3. /\ doc' \in [Doc -> [open : BOOLEAN, text : Nat, timer : BOOLEAN]]
      /\ \A e \in Doc : doc'[e].open = doc[e].open
  <2>1. CASE server.running
    <3>1. doc' = [doc EXCEPT ![d].text = @ + 1, ![d].timer = TRUE]
      BY <1>1, <2>1
    <3> QED
      BY <3>1, TextEdited DEF IInv
  <2>2. CASE ~server.running
    <3>1. doc[d].timer \in BOOLEAN
      BY DEF IInv, DocumentsInv
    <3>2. doc' = [doc EXCEPT ![d].text = @ + 1, ![d].timer = doc[d].timer]
      BY <1>1, <2>2, <3>1 DEF IInv, DocumentsInv
    <3> QED
      BY <3>1, <3>2, TextEdited DEF IInv
  <2> QED
    BY <1>2, <2>1, <2>2
<1> QED
  BY <1>1, <1>3, ReopenedStep

LEMMA UpdateIdleStep == ASSUME IInv, NEW d \in Doc, UpdateIdle(d) PROVE IInv'
<1> DEFINE ask == doc[d].open /\ server.running
<1>1. /\ doc' = [doc EXCEPT ![d].timer = FALSE]
      /\ server' = IF ask THEN Opened(d) ELSE server
      /\ folders' = IF ask THEN FoldersOpened(folders, d) ELSE folders
      /\ UNCHANGED <<enabled, current, diagnostics, progress>>
  BY DEF UpdateIdle
<1>2. /\ doc' \in [Doc -> [open : BOOLEAN, text : Nat, timer : BOOLEAN]]
      /\ \A e \in Doc : doc'[e].open = doc[e].open
  BY <1>1 DEF IInv, DocumentsInv
<1>3. CASE ask
  BY <1>1, <1>2, <1>3, ReopenedStep
<1>4. CASE ~ask
  BY <1>1, <1>2, <1>4, SMTT(30) DEF IInv, DocumentsInv, FoldersInv, ProgressInv, DiagnosticsInv, FoldersTold,
                          BarStops, DiagnosticsDrawn
<1> QED
  BY <1>3, <1>4

\* The roots that are taken back are those of no other open document.
LEMMA FoldersClosedKept ==
    ASSUME IInv, UNCHANGED enabled, NEW d \in Doc,
           \A e \in Doc : doc'[e].open <=> doc[e].open /\ e # d,
           server' = [server EXCEPT !.open_docs = @ \ {d}],
           folders' = FoldersClosed(d)
    PROVE  FoldersInv'
<1>1. /\ folders \in [of : [Doc -> Root \cup {NULL}], table : SUBSET Root,
                      told : SUBSET (Root \cup {NULL})]
      /\ server'.running = server.running
      /\ server'.open_docs = server.open_docs \ {d}
      /\ server.open_docs \in SUBSET Doc
  BY DEF IInv, DocumentsInv, FoldersInv, ServerType
<1>2. CASE d \notin server.open_docs
  <2>1. folders' = folders
    BY <1>2 DEF FoldersClosed
  <2> QED
    BY <1>1, <1>2, <2>1 DEF IInv, FoldersInv, FoldersTold
<1>3. CASE d \in server.open_docs
  <2> DEFINE used   == {folders.of[e] : e \in {e \in Doc \ {d} : doc[e].open}}
             unused == folders.table \ used
  <2>1. /\ folders'.of = folders.of
        /\ folders'.table = folders.table \ unused
        /\ folders'.told = folders.told \ unused
        /\ folders' \in [of : [Doc -> Root \cup {NULL}], table : SUBSET Root,
                         told : SUBSET (Root \cup {NULL})]
    BY <1>1, <1>3 DEF FoldersClosed
  <2>2. ProjectBase \notin folders.table
    BY DEF IInv, FoldersInv
  <2>3. \A e \in server.open_docs \ {d} : folders.of[e] \notin unused
    BY <1>1 DEF IInv, DocumentsInv
  <2> HIDE DEF unused
  <2>4. FoldersTold'
    <3> SUFFICES ASSUME "folders" \in enabled, server.running
                 PROVE  /\ \A e \in server.open_docs \ {d} : folders.of[e] \in folders.told \ unused
                        /\ folders.told \ unused
                              = (folders.table \ unused) \cup ({ProjectBase} \ {NULL})
      BY <1>1, <2>1 DEF FoldersTold
    <3>1. /\ \A e \in server.open_docs : folders.of[e] \in folders.told
          /\ folders.told = folders.table \cup ({ProjectBase} \ {NULL})
      BY DEF IInv, FoldersInv, FoldersTold
    <3>2. ProjectBase \notin unused
      BY <2>2 DEF unused
    <3> QED
      BY <2>3, <3>1, <3>2
  <2> QED
    BY <2>1, <2>2, <2>4 DEF IInv, FoldersInv
<1> QED
  BY <1>2, <1>3

\* The diagnostics of a file that is closed are forgotten: the label, too, which is right
\* for a current document that is another one.
LEMMA DiagnosticsClosedKept ==
    ASSUME IInv, UNCHANGED enabled, NEW d \in Doc,
           current' = IF current = d THEN NULL ELSE current,
           server'.running = server.running,
           diagnostics' = DiagnosticsClosed(d)
    PROVE  DiagnosticsInv'
<1>1. /\ diagnostics.table \in [Doc -> Nat \cup {NULL}]
      /\ diagnostics.drawn \in [Doc -> Nat \cup {NULL}]
      /\ diagnostics \in [table : [Doc -> Nat \cup {NULL}], drawn : [Doc -> Nat \cup {NULL}],
                          label : Nat \cup {NULL}, published : Seq([doc : Doc, text : Nat])]
  BY DEF IInv, DiagnosticsInv
<1>2. CASE server.running
  <2>1. /\ diagnostics'.table = [diagnostics.table EXCEPT ![d] = NULL]
        /\ diagnostics'.drawn = [diagnostics.drawn EXCEPT ![d] = NULL]
        /\ diagnostics'.label = NULL
        /\ diagnostics'.published = diagnostics.published
        /\ diagnostics' \in [table : [Doc -> Nat \cup {NULL}], drawn : [Doc -> Nat \cup {NULL}],
                             label : Nat \cup {NULL}, published : Seq([doc : Doc, text : Nat])]
    BY <1>1, <1>2 DEF DiagnosticsClosed, Redraw
  <2>2. DiagnosticsDrawn'
    BY <1>1, <1>2, <2>1 DEF DiagnosticsDrawn, IInv, DiagnosticsInv
  <2> QED
    BY <1>1, <2>1, <2>2 DEF IInv, DiagnosticsInv
<1>3. CASE ~server.running
  <2>1. /\ diagnostics'.table = diagnostics.table
        /\ diagnostics'.drawn = [diagnostics.drawn EXCEPT ![d] = NULL]
        /\ diagnostics'.label = diagnostics.label
        /\ diagnostics'.published = diagnostics.published
        /\ diagnostics' \in [table : [Doc -> Nat \cup {NULL}], drawn : [Doc -> Nat \cup {NULL}],
                             label : Nat \cup {NULL}, published : Seq([doc : Doc, text : Nat])]
    BY <1>1, <1>3 DEF DiagnosticsClosed
  <2> QED
    BY <1>1, <1>3, <2>1 DEF IInv, DiagnosticsInv, DiagnosticsDrawn
<1> QED
  BY <1>2, <1>3 DEF IInv, DocumentsInv, ServerType

LEMMA CloseDocumentStep == ASSUME IInv, NEW d \in Doc, CloseDocument(d) PROVE IInv'
<1>1. /\ doc' = [doc EXCEPT ![d].open = FALSE, ![d].text = @ + 1]
      /\ current' = IF current = d THEN NULL ELSE current
      /\ server' = [server EXCEPT !.open_docs = @ \ {d}]
      /\ diagnostics' = DiagnosticsClosed(d)
      /\ folders' = FoldersClosed(d)
      /\ UNCHANGED <<enabled, progress>>
  BY DEF CloseDocument
<1>2. /\ \A e \in Doc : doc'[e].open <=> doc[e].open /\ e # d
      /\ server'.running = server.running
  BY <1>1 DEF IInv, DocumentsInv, ServerType
<1>3. DocumentsInv'
  BY <1>1 DEF IInv, DocumentsInv, ServerType
<1> QED
  BY <1>1, <1>2, <1>3, FoldersClosedKept, DiagnosticsClosedKept, ProgressKept DEF IInv

-----------------------------------------------------------------------------
(* The server *)

LEMMA ServerInitializedStep == ASSUME IInv, ServerInitialized PROVE IInv'
<1>1. PICK changed \in SUBSET {d \in Doc : doc[d].open} :
         LET opened == (changed \cup {current}) \ {NULL}
         IN /\ server' = [server EXCEPT !.running = TRUE, !.open_docs = opened]
            /\ folders' = FoldersStarted(opened)
  BY DEF ServerInitialized
<1> DEFINE opened == (changed \cup {current}) \ {NULL}
<1>2. /\ diagnostics' = IF current = NULL THEN DiagnosticsForgotten
                        ELSE DiagnosticsShown(DiagnosticsForgotten, current, TRUE)
      /\ UNCHANGED <<enabled, doc, current, progress>>
  BY DEF ServerInitialized
<1>3. /\ opened \in SUBSET {d \in Doc : doc[d].open}
      /\ current # NULL => current \in opened
  BY DEF IInv, DocumentsInv
<1>4. /\ server'.running = TRUE /\ server'.open_docs = opened
      /\ server' \in ServerType
      /\ folders' = FoldersStarted(opened)
  <2>1. opened \in SUBSET Doc
    BY <1>3
  <2> QED
    BY <1>1, <2>1 DEF IInv, DocumentsInv, ServerType
<1> HIDE DEF opened
<1>5. DocumentsInv'
  BY <1>2, <1>3, <1>4 DEF IInv, DocumentsInv
<1>6. FoldersInv'
  <2>1. CASE "folders" \notin enabled
    BY <1>2, <1>4, <2>1 DEF FoldersStarted, IInv, FoldersInv, FoldersTold
  <2>2. CASE "folders" \in enabled
    <3> DEFINE roots == {folders.of[d] : d \in opened} \ {ProjectBase}
    <3>1. /\ folders \in [of : [Doc -> Root \cup {NULL}], table : SUBSET Root,
                          told : SUBSET (Root \cup {NULL})]
          /\ \A d \in opened : folders.of[d] \in Root
      BY <1>3, <2>2 DEF IInv, FoldersInv
    <3>2. roots \in SUBSET Root
      BY <3>1
    <3>3. folders' = [folders EXCEPT !.table = roots, !.told = roots \cup ({ProjectBase} \ {NULL})]
      BY <1>4, <2>2 DEF FoldersStarted
    <3>4. \A d \in opened : folders.of[d] \in roots \cup ({ProjectBase} \ {NULL})
      BY <3>1
    <3>5. ProjectBase \notin roots
      OBVIOUS
    <3> HIDE DEF roots
    <3>6. /\ folders'.of = folders.of
          /\ folders'.table = roots
          /\ folders'.told = roots \cup ({ProjectBase} \ {NULL})
          /\ folders' \in [of : [Doc -> Root \cup {NULL}], table : SUBSET Root,
                           told : SUBSET (Root \cup {NULL})]
      BY <3>1, <3>2, <3>3
    <3> QED
      BY <1>2, <1>4, <3>4, <3>5, <3>6 DEF IInv, FoldersInv, FoldersTold
  <2> QED
    BY <2>1, <2>2
<1>7. DiagnosticsInv'
  <2>1. CASE current = NULL
    <3>1. diagnostics' = [diagnostics EXCEPT !.table = [d \in Doc |-> NULL]]
      BY <1>2, <2>1 DEF DiagnosticsForgotten
    <3> QED
      BY <1>2, <2>1, <3>1 DEF IInv, DiagnosticsInv, DiagnosticsDrawn
  <2>2. CASE current # NULL
    <3>1. current \in Doc
      BY <2>2 DEF IInv, DocumentsInv
    <3> QED
      BY <1>2, <1>4, <2>2, <3>1, DiagnosticsShownKept DEF IInv
  <2> QED
    BY <2>1, <2>2
<1> QED
  BY <1>2, <1>5, <1>6, <1>7, ProgressKept DEF IInv

LEMMA ServerCrashedStep == ASSUME IInv, ServerCrashed PROVE IInv'
<1>1. /\ server' = [running |-> FALSE, open_docs |-> {}, unfreed |-> server.open_docs]
      /\ progress.old = NoOperations
      /\ diagnostics' = [diagnostics EXCEPT !.published = <<>>]
      /\ progress' = [progress EXCEPT !.old = progress.ops, !.ops = NoOperations]
      /\ UNCHANGED <<enabled, doc, current, folders>>
  BY DEF ServerCrashed, ProgressCrashed
<1>2. DocumentsInv'
  BY <1>1 DEF IInv, DocumentsInv, ServerType
<1>3. FoldersInv'
  BY <1>1 DEF IInv, FoldersInv, FoldersTold
<1>4. ProgressInv'
  <2>1. /\ progress'.ops = NoOperations /\ progress'.old = progress.ops
        /\ progress'.num = progress.num /\ progress'.bar = progress.bar
        /\ progress' \in [ops : [created : Nat, begun : Nat], old : [created : Nat, begun : Nat],
                          num : Nat, bar : BOOLEAN]
    BY <1>1 DEF IInv, ProgressInv, NoOperations
  <2>2. progress.old.begun = 0 /\ NoOperations.begun = 0
    BY <1>1 DEF NoOperations
  <2> QED
    BY <2>1, <2>2 DEF IInv, ProgressInv, BarStops
<1>5. DiagnosticsInv'
  <2>1. <<>> \in Seq([doc : Doc, text : Nat])
    OBVIOUS
  <2>2. /\ diagnostics'.table = diagnostics.table
        /\ diagnostics'.drawn = diagnostics.drawn
        /\ diagnostics'.label = diagnostics.label
        /\ diagnostics'.published = <<>>
        /\ diagnostics' \in [table : [Doc -> Nat \cup {NULL}], drawn : [Doc -> Nat \cup {NULL}],
                             label : Nat \cup {NULL}, published : Seq([doc : Doc, text : Nat])]
    BY <1>1, <2>1 DEF IInv, DiagnosticsInv
  <2> QED
    BY <1>1, <2>2 DEF IInv, DiagnosticsInv, DiagnosticsDrawn
<1> QED
  BY <1>2, <1>3, <1>4, <1>5 DEF IInv

\* The counter never falls below the operations that are begun, whatever it falls by.
LEMMA LessKept ==
    ASSUME NEW p \in [ops : [created : Nat, begun : Nat], old : [created : Nat, begun : Nat],
                      num : Nat, bar : BOOLEAN],
           NEW n \in Nat,
           p.bar => p.num > 0 /\ p.num <= p.ops.begun + p.old.begun + n,
           progress' = Less(p, n)
    PROVE  ProgressInv'
<1> DEFINE num == IF n < p.num THEN p.num - n ELSE 0
<1>1. progress' = [p EXCEPT !.num = num, !.bar = @ /\ num # 0]
  BY DEF Less
<1>2. num \in Nat /\ (p.bar => (num # 0 => num > 0 /\ num <= p.ops.begun + p.old.begun))
  OBVIOUS
<1> HIDE DEF num
<1>3. /\ progress' \in [ops : [created : Nat, begun : Nat], old : [created : Nat, begun : Nat],
                        num : Nat, bar : BOOLEAN]
      /\ progress'.ops = p.ops /\ progress'.old = p.old /\ progress'.num = num
      /\ progress'.bar <=> p.bar /\ num # 0
  BY <1>1, <1>2
<1> QED
  BY <1>2, <1>3 DEF ProgressInv, BarStops

LEMMA FreeServerStep == ASSUME IInv, FreeServer PROVE IInv'
<1>1. /\ server' = [server EXCEPT !.unfreed = {}]
      /\ progress' = Less([progress EXCEPT !.old = NoOperations],
                          progress.old.created + progress.old.begun)
      /\ UNCHANGED <<enabled, doc, current, diagnostics, folders>>
  BY DEF FreeServer, ProgressFreed
<1>2. DocumentsInv'
  BY <1>1 DEF IInv, DocumentsInv, ServerType
<1>3. server'.running = server.running /\ server'.open_docs = server.open_docs
  BY <1>1 DEF IInv, DocumentsInv, ServerType
<1>4. FoldersInv' /\ DiagnosticsInv'
  BY <1>1, <1>3, DiagnosticsKept DEF IInv, FoldersInv, FoldersTold
<1>5. ProgressInv'
  <2> DEFINE p == [progress EXCEPT !.old = NoOperations]
             n == progress.old.created + progress.old.begun
  <2>1. /\ p \in [ops : [created : Nat, begun : Nat], old : [created : Nat, begun : Nat],
                  num : Nat, bar : BOOLEAN]
        /\ p.old.begun = 0 /\ p.ops = progress.ops /\ p.num = progress.num
        /\ p.bar = progress.bar
    BY DEF IInv, ProgressInv, NoOperations
  <2>2. n \in Nat /\ progress.old.begun <= n
    BY DEF IInv, ProgressInv
  <2>3. p.bar => p.num > 0 /\ p.num <= p.ops.begun + p.old.begun + n
    BY <2>1, <2>2 DEF IInv, ProgressInv, BarStops
  <2> QED
    BY <1>1, <2>1, <2>2, <2>3, LessKept
<1> QED
  BY <1>2, <1>4, <1>5 DEF IInv

LEMMA ProgressReportedKept == ASSUME ProgressInv, ProgressReported PROVE ProgressInv'
<1>1. CASE CreateProgress
  BY <1>1 DEF CreateProgress, ProgressInv, BarStops
<1>2. CASE ProgressBegin
  <2>1. /\ progress.ops.created > 0
        /\ progress' = [progress EXCEPT !.ops.created = @ - 1, !.ops.begun = @ + 1,
                                        !.num = @ + 1, !.bar = @ \/ progress.num = 0]
    BY <1>2 DEF ProgressBegin
  <2>2. /\ progress'.ops.begun = progress.ops.begun + 1
        /\ progress'.old = progress.old
        /\ progress'.num = progress.num + 1
        /\ progress'.bar \in BOOLEAN
        /\ progress'.bar => progress.bar \/ progress.num = 0
    BY <2>1 DEF ProgressInv
  <2>3. progress.ops.created - 1 \in Nat
    BY <2>1 DEF ProgressInv
  <2>4. progress' \in [ops : [created : Nat, begun : Nat], old : [created : Nat, begun : Nat],
                       num : Nat, bar : BOOLEAN]
    <3> DEFINE o == [created |-> progress.ops.created - 1, begun |-> progress.ops.begun + 1]
               Ops == [created : Nat, begun : Nat]
    <3>1. o \in Ops
      BY <2>3 DEF ProgressInv
    <3>2. PICK b \in BOOLEAN :
             progress' = [progress EXCEPT !.ops.created = @ - 1, !.ops.begun = @ + 1,
                                          !.num = @ + 1, !.bar = b]
      BY <2>1
    <3>3. progress' = [[progress EXCEPT !.ops.created = @ - 1, !.ops.begun = @ + 1]
                          EXCEPT !.num = @ + 1, !.bar = b]
      BY <3>2
    <3>4. progress \in [ops : Ops, old : Ops, num : Nat, bar : BOOLEAN]
      BY DEF ProgressInv
    <3>5. [progress EXCEPT !.ops = o]
             = [progress EXCEPT !.ops.created = @ - 1, !.ops.begun = @ + 1]
      BY <3>4
    <3>6. progress.num + 1 \in Nat
      BY <3>4
    <3> HIDE DEF o, Ops
    <3>7. progress' = [[progress EXCEPT !.ops = o] EXCEPT !.num = progress.num + 1, !.bar = b]
      BY <3>3, <3>5, <3>4
    <3>8. progress' \in [ops : Ops, old : Ops, num : Nat, bar : BOOLEAN]
      BY <3>1, <3>4, <3>6, <3>7
    <3> QED
      BY <3>8 DEF Ops
  <2> QED
    BY <2>2, <2>4 DEF ProgressInv, BarStops
<1>3. CASE ProgressEnd
  <2>1. CASE /\ progress.ops.begun > 0
             /\ progress' = Less([progress EXCEPT !.ops.begun = @ - 1], 1)
    <3> DEFINE p == [progress EXCEPT !.ops.begun = @ - 1]
    <3>1. /\ p \in [ops : [created : Nat, begun : Nat], old : [created : Nat, begun : Nat],
                    num : Nat, bar : BOOLEAN]
          /\ p.bar => p.num > 0 /\ p.num <= p.ops.begun + p.old.begun + 1
      BY <2>1 DEF ProgressInv, BarStops
    <3> QED
      BY <2>1, <3>1, LessKept
  <2>2. CASE /\ progress.ops.created > 0
             /\ progress' = Less([progress EXCEPT !.ops.created = @ - 1], 1)
    <3> DEFINE p == [progress EXCEPT !.ops.created = @ - 1]
    <3>1. /\ p \in [ops : [created : Nat, begun : Nat], old : [created : Nat, begun : Nat],
                    num : Nat, bar : BOOLEAN]
          /\ p.bar => p.num > 0 /\ p.num <= p.ops.begun + p.old.begun + 1
      BY <2>2 DEF ProgressInv, BarStops
    <3> QED
      BY <2>2, <3>1, LessKept
  <2> QED
    BY <1>3, <2>1, <2>2 DEF ProgressEnd
<1> QED
  BY <1>1, <1>2, <1>3 DEF ProgressReported

LEMMA PublishKept ==
    ASSUME IInv, NEW d \in Doc, Publish(d), UNCHANGED documentVars
    PROVE  DiagnosticsInv'
<1>1. /\ "diagnostics" \in enabled
      /\ diagnostics' = [diagnostics EXCEPT !.published =
                            Append(@, [doc |-> d, text |-> doc[d].text])]
  BY DEF Publish
<1>2. [doc |-> d, text |-> doc[d].text] \in [doc : Doc, text : Nat]
  BY DEF IInv, DocumentsInv
<1>3. /\ diagnostics' \in [table : [Doc -> Nat \cup {NULL}], drawn : [Doc -> Nat \cup {NULL}],
                           label : Nat \cup {NULL}, published : Seq([doc : Doc, text : Nat])]
      /\ diagnostics'.table = diagnostics.table
      /\ diagnostics'.drawn = diagnostics.drawn
      /\ diagnostics'.label = diagnostics.label
  <2>1. Append(diagnostics.published, [doc |-> d, text |-> doc[d].text])
           \in Seq([doc : Doc, text : Nat])
    BY <1>2 DEF IInv, DiagnosticsInv
  <2> QED
    BY <1>1, <2>1 DEF IInv, DiagnosticsInv
<1> QED
  BY <1>1, <1>3 DEF documentVars, IInv, DiagnosticsInv, DiagnosticsDrawn

\* What a queue holds, its first element and the rest of it.
LEMMA Queued ==
    ASSUME NEW S, NEW q \in Seq(S), q # <<>>
    PROVE  Head(q) \in S /\ Tail(q) \in Seq(S)
OBVIOUS

LEMMA DiagnosticsReceivedKept ==
    ASSUME IInv, DiagnosticsReceived, UNCHANGED documentVars
    PROVE  DiagnosticsInv'
<1> DEFINE p == Head(diagnostics.published)
           g == [diagnostics EXCEPT !.published = Tail(@), !.table[p.doc] = p.text]
<1>1. /\ diagnostics.published # <<>>
      /\ diagnostics' = IF p.doc = current THEN Redraw(g, p.doc, TRUE) ELSE g
  BY DEF DiagnosticsReceived
<1>2. /\ p \in [doc : Doc, text : Nat]
      /\ Tail(diagnostics.published) \in Seq([doc : Doc, text : Nat])
      /\ "diagnostics" \in enabled
  <2> DEFINE told == diagnostics.published
  <2>1. told \in Seq([doc : Doc, text : Nat]) /\ told # <<>>
    BY <1>1 DEF IInv, DiagnosticsInv
  <2>2. "diagnostics" \in enabled
    BY <1>1 DEF IInv, DiagnosticsInv
  <2> HIDE DEF told
  <2>3. Head(told) \in [doc : Doc, text : Nat] /\ Tail(told) \in Seq([doc : Doc, text : Nat])
    BY <2>1, Queued
  <2> QED
    BY <2>2, <2>3 DEF told
<1> HIDE DEF p
<1>3. [diagnostics.table EXCEPT ![p.doc] = p.text] \in [Doc -> Nat \cup {NULL}]
  BY <1>2 DEF IInv, DiagnosticsInv
<1>4. /\ g \in [table : [Doc -> Nat \cup {NULL}], drawn : [Doc -> Nat \cup {NULL}],
                label : Nat \cup {NULL}, published : Seq([doc : Doc, text : Nat])]
      /\ g.table = [diagnostics.table EXCEPT ![p.doc] = p.text]
      /\ g.drawn = diagnostics.drawn /\ g.label = diagnostics.label
  BY <1>2, <1>3 DEF IInv, DiagnosticsInv
<1> HIDE DEF g
<1>5. CASE p.doc # current
  <2>1. diagnostics' = g
    BY <1>1, <1>5
  <2>2. current # NULL => current \in Doc /\ g.table[current] = diagnostics.table[current]
    BY <1>2, <1>4, <1>5 DEF IInv, DocumentsInv, DiagnosticsInv
  <2> QED
    BY <1>2, <1>4, <2>1, <2>2 DEF documentVars, IInv, DiagnosticsInv, DiagnosticsDrawn
<1>6. CASE p.doc = current
  <2>1. diagnostics' = [g EXCEPT !.drawn[p.doc] = g.table[p.doc], !.label = g.table[p.doc]]
    BY <1>1, <1>6 DEF Redraw
  <2>2. g.table[p.doc] \in Nat \cup {NULL}
    BY <1>2, <1>4
  <2>3. [g.drawn EXCEPT ![p.doc] = g.table[p.doc]] \in [Doc -> Nat \cup {NULL}]
    BY <1>4, <2>2
  <2>4. /\ diagnostics' \in [table : [Doc -> Nat \cup {NULL}], drawn : [Doc -> Nat \cup {NULL}],
                             label : Nat \cup {NULL}, published : Seq([doc : Doc, text : Nat])]
        /\ diagnostics'.table = g.table
        /\ diagnostics'.drawn[p.doc] = g.table[p.doc]
        /\ diagnostics'.label = g.table[p.doc]
    BY <1>2, <1>4, <2>1, <2>2, <2>3
  <2> QED
    BY <1>2, <1>6, <2>4 DEF documentVars, DiagnosticsInv, DiagnosticsDrawn
<1> QED
  BY <1>5, <1>6

LEMMA ServerTellsStep == ASSUME IInv, ServerTells PROVE IInv'
<1>1. UNCHANGED documentVars /\ UNCHANGED folders
  BY DEF ServerTells
<1>2. DocumentsInv' /\ FoldersInv'
  BY <1>1 DEF documentVars, IInv, DocumentsInv, FoldersInv, FoldersTold
<1>3. CASE (\E d \in Doc : Publish(d)) /\ UNCHANGED progress
  BY <1>1, <1>2, <1>3, PublishKept, ProgressKept DEF IInv
<1>4. CASE DiagnosticsReceived /\ UNCHANGED progress
  BY <1>1, <1>2, <1>4, DiagnosticsReceivedKept, ProgressKept DEF IInv
<1>5. CASE ProgressReported /\ UNCHANGED diagnostics
  BY <1>1, <1>2, <1>5, ProgressReportedKept, DiagnosticsKept DEF documentVars, IInv
<1> QED
  BY <1>3, <1>4, <1>5 DEF ServerTells

-----------------------------------------------------------------------------
(* The user, and the theorems *)

\* The edit of an item that is selected: its document is open at the server.
LEMMA UserSelectsStep == ASSUME IInv, UserSelects PROVE IInv'
<1>1. /\ current # NULL /\ server.running
      /\ doc' = [doc EXCEPT ![current].text = @ + 1, ![current].timer = TRUE]
      /\ server' = Opened(current)
      /\ UNCHANGED <<enabled, current, diagnostics, progress, folders>>
  BY DEF UserSelects
<1>2. server' = server
  <2>1. current \in server.open_docs /\ server \in ServerType
    BY <1>1 DEF IInv, DocumentsInv
  <2>2. server.open_docs \cup {current} = server.open_docs
    BY <2>1
  <2> QED
    BY <1>1, <2>1, <2>2 DEF Opened, ServerType
<1>3. /\ doc' \in [Doc -> [open : BOOLEAN, text : Nat, timer : BOOLEAN]]
      /\ \A e \in Doc : doc'[e].open = doc[e].open
  <2>1. current \in Doc
    BY <1>1 DEF IInv, DocumentsInv
  <2> QED
    BY <1>1, <2>1, TextEdited DEF IInv
<1>4. DocumentsInv'
  <2>1. server.open_docs \in SUBSET Doc
    BY DEF IInv, DocumentsInv, ServerType
  <2>2. {e \in Doc : doc'[e].open} = {e \in Doc : doc[e].open}
    BY <1>3
  <2>3. current' \in {e \in Doc : doc'[e].open} \cup {NULL}
    BY <1>1, <2>2 DEF IInv, DocumentsInv
  <2>4. /\ server' \in ServerType
        /\ \A e \in server'.open_docs : doc'[e].open
        /\ server'.running /\ current' # NULL => current' \in server'.open_docs
    BY <1>1, <1>2, <1>3, <2>1 DEF IInv, DocumentsInv
  <2> QED
    BY <1>3, <2>3, <2>4 DEF DocumentsInv
<1>5. FoldersInv'
  BY <1>1, <1>2, <1>3 DEF IInv, FoldersInv, FoldersTold, DocumentsInv, ServerType
<1> QED
  BY <1>1, <1>2, <1>4, <1>5, ProgressKept, DiagnosticsKept DEF IInv

LEMMA AnswerStep == ASSUME IInv, NEW i \in 1 .. MaxCalls, Answer(i) PROVE IInv'
<1>1. UNCHANGED <<enabled, doc, current, server>>
  BY DEF Answer
<1>2. UNCHANGED <<diagnostics, progress, folders>>
  BY DEF Answer, TokensAnswer, SymbolsAnswer, LensAnswer, HighlightAnswer, CompletionAnswer,
         PopupAnswer, SelectionAnswer, shownVars
<1> QED
  BY <1>1, <1>2, Quiet

LEMMA NextStep == ASSUME IInv, [Next]_vars PROVE IInv'
<1>1. CASE UNCHANGED vars
  BY <1>1, Quiet DEF vars, documentVars, shownVars
<1>2. ASSUME NEW d \in Doc,
             OpenDocument(d) \/ Activate(d) \/ Edit(d) \/ UpdateIdle(d) \/ CloseDocument(d)
      PROVE  IInv'
  BY <1>2, OpenDocumentStep, ActivateStep, EditStep, UpdateIdleStep, CloseDocumentStep
<1>3. CASE ServerInitialized \/ ServerCrashed \/ FreeServer \/ ServerTells
  BY <1>3, ServerInitializedStep, ServerCrashedStep, FreeServerStep, ServerTellsStep
<1>4. ASSUME NEW i \in 1 .. MaxCalls, Answer(i) PROVE IInv'
  BY <1>4, AnswerStep
<1>5. ASSUME NEW i \in 1 .. MaxCalls, Refuse(i) PROVE IInv'
  BY <1>5, Quiet DEF Refuse
<1>6. CASE UserSwitchesPage
  BY <1>6, Quiet DEF UserSwitchesPage, documentVars, shownVars
<1>7. CASE HighlightMoves
  BY <1>7, Quiet DEF HighlightMoves, shownVars
<1>8. CASE UserCompletes
  BY <1>8, Quiet DEF UserCompletes
<1>9. CASE UserSelects
  BY <1>9, UserSelectsStep
<1>10. CASE UserMovesPopup
  BY <1>10, Quiet DEF UserMovesPopup
<1>11. CASE UserExpandsSelection
  BY <1>11, Quiet DEF UserExpandsSelection, shownVars
<1> QED
  BY <1>1, <1>2, <1>3, <1>4, <1>5, <1>6, <1>7, <1>8, <1>9, <1>10, <1>11 DEF Next

LEMMA Invariance == Spec => []IInv
<1>1. Init => IInv
  <2> SUFFICES ASSUME Init PROVE IInv
    OBVIOUS
  <2>1. DocumentsInv
    BY DEF Init, DocumentsInit, DocumentsInv, ServerType
  <2>2. FoldersInv
    BY DEF Init, DocumentsInit, FoldersInit, FoldersInv, FoldersTold
  <2>3. ProgressInv
    BY DEF Init, ProgressInit, NoOperations, ProgressInv, BarStops
  <2>4. DiagnosticsInv
    BY DEF Init, DocumentsInit, DiagnosticsInit, DiagnosticsInv, DiagnosticsDrawn
  <2> QED
    BY <2>1, <2>2, <2>3, <2>4 DEF IInv
<1>2. IInv /\ [Next]_vars => IInv'
  BY NextStep
<1> QED
  BY <1>1, <1>2, PTL DEF Spec

\* As long as a document is open at a server, the server knows its folder; it knows the
\* folders it is told when it asks for them, and no others: for any files and documents.
THEOREM FoldersKnown == Spec => []FoldersTold
<1>1. IInv => FoldersTold
  BY DEF IInv, FoldersInv
<1> QED
  BY <1>1, Invariance, PTL

\* The progress bar runs only for operations that are begun, of a server that runs or
\* of a crashed one that is still to be freed: for any number of operations.
THEOREM BarHonest == Spec => []BarStops
<1>1. IInv => BarStops
  BY DEF IInv, ProgressInv
<1> QED
  BY <1>1, Invariance, PTL

\* The current document is drawn with the diagnostics that are known of its file, and the
\* status bar counts those or none: whichever documents they came for.
THEOREM DiagnosticsCurrent == Spec => []DiagnosticsDrawn
<1>1. IInv => DiagnosticsDrawn
  BY DEF IInv, DiagnosticsInv
<1> QED
  BY <1>1, Invariance, PTL

-----------------------------------------------------------------------------
(* The calls that wait for an answer *)

Matches(c, m, d) == c.method = m /\ c.doc = d

LastAt(cs, i, m, d) ==
    /\ Matches(cs[i], m, d)
    /\ \A j \in i + 1 .. Len(cs) : ~Matches(cs[j], m, d)

\* The last call of method m for document d, if there is one.
LastCalls(cs, m, d) == {cs[i] : i \in {i \in 1 .. Len(cs) : LastAt(cs, i, m, d)}}

LEMMA SeqOfItself ==
    ASSUME NEW S, NEW s \in Seq(S)
    PROVE  s \in Seq(ToSet(s))
BY DEF ToSet

LEMMA ToSetOfConcat ==
    ASSUME NEW S, NEW s \in Seq(S), NEW c
    PROVE  /\ s \o <<c>> \in Seq(S \cup {c})
           /\ ToSet(s \o <<c>>) = ToSet(s) \cup {c}
<1>1. s \in Seq(S \cup {c}) /\ <<c>> \in Seq(S \cup {c})
  OBVIOUS
<1>2. /\ s \o <<c>> \in Seq(S \cup {c})
      /\ Len(s \o <<c>>) = Len(s) + 1 /\ Len(s) \in Nat
      /\ DOMAIN (s \o <<c>>) = 1 .. Len(s) + 1
      /\ DOMAIN s = 1 .. Len(s)
  BY <1>1
<1>3. /\ \A i \in 1 .. Len(s) : (s \o <<c>>)[i] = s[i]
      /\ (s \o <<c>>)[Len(s) + 1] = c
  BY <1>1
<1> QED
  BY <1>2, <1>3 DEF ToSet

LEMMA LastOfNone ==
    ASSUME NEW m, NEW d
    PROVE  LastCalls(<<>>, m, d) = {}
BY DEF LastCalls

\* The call that was made last is the last one.
LEMMA LastOfAppend ==
    ASSUME NEW cs, cs \in Seq(ToSet(cs)), NEW c, NEW m, NEW d
    PROVE  /\ Matches(c, m, d) => LastCalls(cs \o <<c>>, m, d) = {c}
           /\ ~Matches(c, m, d) => LastCalls(cs \o <<c>>, m, d) = LastCalls(cs, m, d)
<1> DEFINE r == cs \o <<c>>
           n == Len(cs)
<1>1. /\ Len(r) = n + 1 /\ n \in Nat
      /\ \A i \in 1 .. n : r[i] = cs[i]
      /\ r[n + 1] = c
  <2>1. cs \in Seq(ToSet(cs) \cup {c}) /\ <<c>> \in Seq(ToSet(cs) \cup {c})
    OBVIOUS
  <2> QED BY <2>1
<1> HIDE DEF r
<1>2. CASE Matches(c, m, d)
  <2>1. LastAt(r, n + 1, m, d)
    BY <1>1, <1>2 DEF LastAt
  <2>2. \A i \in 1 .. n : ~LastAt(r, i, m, d)
    <3> TAKE i \in 1 .. n
    <3>1. n + 1 \in i + 1 .. Len(r) /\ Matches(r[n + 1], m, d)
      BY <1>1, <1>2
    <3> QED BY <3>1 DEF LastAt
  <2> HIDE DEF n
  <2>3. {i \in 1 .. Len(r) : LastAt(r, i, m, d)} = {n + 1}
    BY <1>1, <2>1, <2>2
  <2> QED BY <1>1, <1>2, <2>3 DEF LastCalls, r
<1>3. CASE ~Matches(c, m, d)
  <2>1. ~LastAt(r, n + 1, m, d)
    BY <1>1, <1>3 DEF LastAt
  <2>2. \A i \in 1 .. n : LastAt(r, i, m, d) <=> LastAt(cs, i, m, d)
    <3> TAKE i \in 1 .. n
    <3>1. \A j \in i + 1 .. n + 1 : (r[j] = cs[j] /\ j \in i + 1 .. n) \/ j = n + 1
      BY <1>1
    <3>2. \A j \in i + 1 .. n : j \in i + 1 .. n + 1 /\ r[j] = cs[j]
      BY <1>1
    <3> QED BY <1>1, <1>3, <3>1, <3>2 DEF LastAt
  <2> HIDE DEF n
  <2>3. {i \in 1 .. Len(r) : LastAt(r, i, m, d)} = {i \in 1 .. n : LastAt(cs, i, m, d)}
    BY <1>1, <2>1, <2>2
  <2> QED BY <1>1, <1>3, <2>3 DEF LastCalls, r, n
<1> QED
  BY <1>2, <1>3

\* A call that is answered in its turn is the last of its document only when there is no
\* other: what was the last call still is, or was answered.
LEMMA LastOfRemoved ==
    ASSUME NEW S, NEW cs \in Seq(S), NEW k \in 1 .. Len(cs), NEW m, NEW d,
           Matches(cs[k], m, d) => \A j \in 1 .. k - 1 : cs[j].method # cs[k].method
    PROVE  \/ LastCalls(RemoveAt(cs, k), m, d) = LastCalls(cs, m, d)
           \/ /\ LastCalls(RemoveAt(cs, k), m, d) = {}
              /\ LastCalls(cs, m, d) = {cs[k]}
              /\ Matches(cs[k], m, d)
<1> DEFINE r == RemoveAt(cs, k)
           n == Len(cs)
           at(j) == IF j < k THEN j ELSE j + 1
<1>1. /\ Len(r) = n - 1 /\ n \in Nat \ {0} /\ k \in 1 .. n
      /\ \A j \in 1 .. n - 1 : r[j] = cs[at(j)]
  BY RemoveAtProperties
<1> HIDE DEF r
<1>2. /\ \A j \in 1 .. n - 1 : at(j) \in 1 .. n /\ at(j) # k
      /\ \A i \in 1 .. n : i # k => \E j \in 1 .. n - 1 : at(j) = i
  <2>1. ASSUME NEW i \in 1 .. n, i # k PROVE \E j \in 1 .. n - 1 : at(j) = i
    <3>1. CASE i < k
      <4>1. i \in 1 .. n - 1 /\ at(i) = i
        BY <1>1, <3>1
      <4> QED BY <4>1
    <3>2. CASE i > k
      <4>1. i - 1 \in 1 .. n - 1 /\ at(i - 1) = i
        BY <1>1, <3>2
      <4> QED BY <4>1
    <3> QED BY <2>1, <3>1, <3>2
  <2> QED BY <1>1, <2>1
<1>3. ASSUME NEW j \in 1 .. n - 1, ~Matches(cs[k], m, d) \/ at(j) > k
      PROVE  LastAt(r, j, m, d) <=> LastAt(cs, at(j), m, d)
  <2>1. \A i \in j + 1 .. n - 1 : at(i) \in at(j) + 1 .. n /\ r[i] = cs[at(i)]
    BY <1>1
  <2>2. \A i \in at(j) + 1 .. n :
           i = k \/ \E h \in j + 1 .. n - 1 : at(h) = i
    <3> TAKE i \in at(j) + 1 .. n
    <3>1. CASE i < k
      <4>1. i \in j + 1 .. n - 1 /\ at(i) = i
        BY <1>1, <3>1
      <4> QED BY <4>1
    <3>2. CASE i > k
      <4>1. i - 1 \in j + 1 .. n - 1 /\ at(i - 1) = i
        BY <1>1, <3>2
      <4> QED BY <4>1
    <3> QED BY <1>1, <3>1, <3>2
  <2>3. k \in at(j) + 1 .. n => ~Matches(cs[k], m, d)
    BY <1>1, <1>3
  <2>4. r[j] = cs[at(j)] /\ Len(r) = n - 1
    BY <1>1
  <2>5. ASSUME LastAt(r, j, m, d) PROVE LastAt(cs, at(j), m, d)
    <3>1. ASSUME NEW i \in at(j) + 1 .. n PROVE ~Matches(cs[i], m, d)
      <4>1. CASE i = k
        BY <2>3, <3>1, <4>1
      <4>2. ASSUME NEW h \in j + 1 .. n - 1, at(h) = i PROVE ~Matches(cs[i], m, d)
        <5>1. r[h] = cs[i] /\ h \in j + 1 .. Len(r)
          BY <2>1, <2>4, <4>2
        <5> QED BY <2>5, <5>1 DEF LastAt
      <4> QED BY <2>2, <4>1, <4>2
    <3> QED BY <3>1, <2>4, <2>5 DEF LastAt
  <2>6. ASSUME LastAt(cs, at(j), m, d) PROVE LastAt(r, j, m, d)
    <3>1. \A i \in j + 1 .. n - 1 : ~Matches(r[i], m, d)
      BY <2>1, <2>6 DEF LastAt
    <3> QED BY <3>1, <2>4, <2>6 DEF LastAt
  <2> QED BY <2>5, <2>6
<1> HIDE DEF at
<1>4. CASE \A j \in 1 .. n - 1 : LastAt(r, j, m, d) <=> LastAt(cs, at(j), m, d)
  <2>1. CASE LastAt(cs, k, m, d) /\ Matches(cs[k], m, d)
    <3>1. \A j \in 1 .. n : j # k => ~Matches(cs[j], m, d)
      <4> TAKE j \in 1 .. n
      <4>1. j < k => cs[j].method # cs[k].method
        BY <1>1, <2>1
      <4>2. j > k => ~Matches(cs[j], m, d)
        BY <1>1, <2>1 DEF LastAt
      <4> QED BY <1>1, <2>1, <4>1, <4>2 DEF Matches
    <3>2. \A j \in 1 .. n - 1 : ~LastAt(r, j, m, d)
      BY <1>1, <1>2, <3>1 DEF LastAt
    <3>3. \A j \in 1 .. n : LastAt(cs, j, m, d) <=> j = k
      BY <2>1, <3>1 DEF LastAt
    <3> QED BY <1>1, <2>1, <3>2, <3>3 DEF LastCalls, r
  <2>2. CASE ~LastAt(cs, k, m, d)
    <3>1. \A i \in 1 .. n : LastAt(cs, i, m, d) =>
              \E j \in 1 .. n - 1 : LastAt(r, j, m, d) /\ r[j] = cs[i]
      BY <1>1, <1>2, <1>4, <2>2
    <3>2. \A j \in 1 .. n - 1 : LastAt(r, j, m, d) =>
              \E i \in 1 .. n : LastAt(cs, i, m, d) /\ cs[i] = r[j]
      BY <1>1, <1>2, <1>4
    <3>3. /\ LastCalls(r, m, d) = {r[j] : j \in {j \in 1 .. n - 1 : LastAt(r, j, m, d)}}
          /\ LastCalls(cs, m, d) = {cs[i] : i \in {i \in 1 .. n : LastAt(cs, i, m, d)}}
      BY <1>1 DEF LastCalls
    <3>4. \A c : c \in LastCalls(r, m, d) => c \in LastCalls(cs, m, d)
      <4> HIDE DEF n
      <4> QED BY <3>2, <3>3
    <3>5. \A c : c \in LastCalls(cs, m, d) => c \in LastCalls(r, m, d)
      <4> HIDE DEF n
      <4> QED BY <3>1, <3>3
    <3>6. LastCalls(r, m, d) = LastCalls(cs, m, d)
      BY <3>4, <3>5
    <3> QED BY <3>6 DEF r
  <2> QED BY <2>1, <2>2 DEF LastAt
<1>5. CASE ~ \A j \in 1 .. n - 1 : LastAt(r, j, m, d) <=> LastAt(cs, at(j), m, d)
  \* then call k matches, and some other call does: which is behind it
  <2>1. PICK j \in 1 .. n - 1 : ~(LastAt(r, j, m, d) <=> LastAt(cs, at(j), m, d))
    BY <1>5
  <2>2. Matches(cs[k], m, d) /\ ~(at(j) > k)
    BY <1>3, <2>1
  <2>3. at(j) < k /\ at(j) \in 1 .. k - 1
    BY <1>1, <1>2, <2>2
  <2>4. ~Matches(cs[at(j)], m, d) /\ r[j] = cs[at(j)]
    BY <1>1, <2>2, <2>3 DEF Matches
  <2> QED BY <2>1, <2>4 DEF LastAt
<1> QED
  BY <1>4, <1>5

\* Where a call waits, there is a last one.
LEMMA SomeWaits ==
    ASSUME NEW cs, cs \in Seq(ToSet(cs)), NEW m, NEW d, NEW i \in 1 .. Len(cs), Matches(cs[i], m, d)
    PROVE  LastCalls(cs, m, d) # {}
<1> DEFINE I == {j \in 1 .. Len(cs) : Matches(cs[j], m, d)}
<1>1. I # {} /\ Len(cs) \in Nat
  OBVIOUS
<1>2. PICK k \in I : \A j \in I : j <= k
  BY <1>1, GreatestNat
<1>3. \A j \in k + 1 .. Len(cs) : j \notin I /\ j \in 1 .. Len(cs)
  BY <1>1, <1>2
<1>4. LastAt(cs, k, m, d)
  BY <1>2, <1>3 DEF LastAt
<1> QED
  BY <1>2, <1>4 DEF LastCalls

\* A difference is asked for only where nothing was asked for before it that is
\* unanswered; tk: the tokens of the document, to which it is asked for.
Firsts(cs, d, tk) ==
    \A i \in 1 .. Len(cs) :
        Matches(cs[i], "tokens", d) /\ cs[i].arg # NULL =>
            /\ \A j \in 1 .. i - 1 : ~Matches(cs[j], "tokens", d)
            /\ tk # NULL => tk.result_id = cs[i].arg

\* What a call may be that is made last.
MayFollow(cs, c, d, tk) ==
    \/ ~Matches(c, "tokens", d)
    \/ c.arg = NULL
    \/ LastCalls(cs, "tokens", d) = {} /\ (tk # NULL => tk.result_id = c.arg)

LEMMA FirstsOfAppend ==
    ASSUME NEW cs, cs \in Seq(ToSet(cs)), NEW c, NEW d, NEW tk, Firsts(cs, d, tk),
           MayFollow(cs, c, d, tk)
    PROVE  Firsts(cs \o <<c>>, d, tk)
<1> DEFINE r == cs \o <<c>>
           n == Len(cs)
<1>1. /\ Len(r) = n + 1 /\ n \in Nat
      /\ \A i \in 1 .. n : r[i] = cs[i]
      /\ r[n + 1] = c
  <2>1. cs \in Seq(ToSet(cs) \cup {c}) /\ <<c>> \in Seq(ToSet(cs) \cup {c})
    OBVIOUS
  <2> QED BY <2>1
<1> HIDE DEF r
<1> SUFFICES ASSUME NEW i \in 1 .. n + 1, Matches(r[i], "tokens", d), r[i].arg # NULL
             PROVE  /\ \A j \in 1 .. i - 1 : ~Matches(r[j], "tokens", d)
                    /\ tk # NULL => tk.result_id = r[i].arg
  BY <1>1 DEF Firsts, r
<1>2. CASE i = n + 1
  <2>1. r[i] = c
    BY <1>1, <1>2
  <2>2. LastCalls(cs, "tokens", d) = {} /\ (tk # NULL => tk.result_id = c.arg)
    BY <2>1 DEF MayFollow
  <2>3. \A j \in 1 .. n : ~Matches(cs[j], "tokens", d)
    BY <2>2, SomeWaits
  <2>4. \A j \in 1 .. i - 1 : j \in 1 .. n
    BY <1>1, <1>2
  <2> QED BY <1>1, <2>1, <2>2, <2>3, <2>4
<1>3. CASE i # n + 1
  <2>1. i \in 1 .. n /\ r[i] = cs[i]
    BY <1>1, <1>3
  <2>2. \A j \in 1 .. i - 1 : j \in 1 .. n /\ r[j] = cs[j]
    BY <1>1, <2>1
  <2> HIDE DEF n
  <2> QED BY <2>1, <2>2 DEF Firsts, n
<1> QED
  BY <1>2, <1>3

LEMMA FirstsOfRemoved ==
    ASSUME NEW S, NEW cs \in Seq(S), NEW k \in 1 .. Len(cs), NEW d, NEW tk, Firsts(cs, d, tk)
    PROVE  Firsts(RemoveAt(cs, k), d, tk)
<1> DEFINE r == RemoveAt(cs, k)
           n == Len(cs)
           at(j) == IF j < k THEN j ELSE j + 1
<1>1. /\ Len(r) = n - 1 /\ n \in Nat \ {0} /\ k \in 1 .. n
      /\ \A j \in 1 .. n - 1 : r[j] = cs[at(j)]
  <2>1. n \in Nat \ {0} /\ k \in 1 .. n
    OBVIOUS
  <2>2. /\ Len(r) = n - 1
        /\ \A j \in 1 .. n - 1 : r[j] = IF j < k THEN cs[j] ELSE cs[j + 1]
    BY RemoveAtProperties
  <2> HIDE DEF r, n
  <2> QED BY <2>1, <2>2
<1> HIDE DEF r
<1> SUFFICES ASSUME NEW i \in 1 .. n - 1, Matches(r[i], "tokens", d), r[i].arg # NULL
             PROVE  /\ \A j \in 1 .. i - 1 : ~Matches(r[j], "tokens", d)
                    /\ tk # NULL => tk.result_id = r[i].arg
  BY <1>1 DEF Firsts, r
<1>2. r[i] = cs[at(i)] /\ at(i) \in 1 .. n
  BY <1>1
<1>3. \A j \in 1 .. i - 1 : r[j] = cs[at(j)] /\ at(j) \in 1 .. at(i) - 1
  BY <1>1
<1> HIDE DEF at, n
<1> QED
  BY <1>2, <1>3 DEF Firsts, n

\* Nothing is made of no calls.
LEMMA NoneMade ==
    ASSUME NEW cs, cs \in Seq(ToSet(cs))
    PROVE  cs \o <<>> = cs
OBVIOUS

\* A call is made when its feature is switched on.
WithCall(cs, f, c) == cs \o Asks(f, <<c>>)

LEMMA OneMade ==
    ASSUME NEW cs, cs \in Seq(ToSet(cs)), NEW c, NEW f
    PROVE  /\ WithCall(cs, f, c) \in Seq(ToSet(WithCall(cs, f, c)))
           /\ ToSet(WithCall(cs, f, c)) = ToSet(cs) \cup (IF f \in enabled THEN {c} ELSE {})
           /\ \A m, d : LastCalls(WithCall(cs, f, c), m, d)
                           = IF f \in enabled /\ Matches(c, m, d) THEN {c} ELSE LastCalls(cs, m, d)
           /\ \A d, tk : Firsts(cs, d, tk) /\ (f \in enabled => MayFollow(cs, c, d, tk))
                            => Firsts(WithCall(cs, f, c), d, tk)
<1> DEFINE r == WithCall(cs, f, c)
<1>1. CASE f \in enabled
  <2>1. r = cs \o <<c>>
    BY <1>1 DEF Asks, WithCall
  <2>2. /\ r \in Seq(ToSet(cs) \cup {c})
        /\ ToSet(r) = ToSet(cs) \cup {c}
    <3>1. /\ cs \o <<c>> \in Seq(ToSet(cs) \cup {c})
          /\ ToSet(cs \o <<c>>) = ToSet(cs) \cup {c}
      BY ToSetOfConcat, Zenon
    <3> QED BY <2>1, <3>1, Zenon
  <2> HIDE DEF r
  <2>3. ASSUME NEW m, NEW d
        PROVE  LastCalls(r, m, d) = IF Matches(c, m, d) THEN {c} ELSE LastCalls(cs, m, d)
    <3>1. /\ Matches(c, m, d) => LastCalls(cs \o <<c>>, m, d) = {c}
          /\ ~Matches(c, m, d) => LastCalls(cs \o <<c>>, m, d) = LastCalls(cs, m, d)
      BY LastOfAppend
    <3> QED BY <2>1, <3>1
  <2>4. r \in Seq(ToSet(r))
    BY <2>2
  <2>5. \A d, tk : Firsts(cs, d, tk) /\ MayFollow(cs, c, d, tk) => Firsts(r, d, tk)
    BY <2>1, FirstsOfAppend
  <2> QED BY <1>1, <2>2, <2>3, <2>4, <2>5 DEF r
<1>2. CASE f \notin enabled
  <2>1. r = cs
    BY <1>2, NoneMade DEF Asks, WithCall
  <2> QED BY <1>2, <2>1
<1> QED
  BY <1>1, <1>2

\* The calls of on_update_idle().
Query(m, d, t) ==
    Call(m, d, IF m = "tokens" /\ Delta /\ t[d] # NULL THEN t[d].result_id ELSE NULL)

QueryMethod == {"lens", "tokens", "symbols"}

WithQueries(cs, d, t) == cs \o Queries(d, t)

\* How the difference that is asked for stands to what was asked for before.
QueryFollows(cs, d, t, e, tk) ==
    Firsts(cs, e, tk) /\ ("tokens" \in enabled => MayFollow(cs, Query("tokens", d, t), e, tk))

LEMMA QueriesMade ==
    ASSUME NEW cs, cs \in Seq(ToSet(cs)), NEW d, NEW t
    PROVE  /\ WithQueries(cs, d, t) \in Seq(ToSet(WithQueries(cs, d, t)))
           /\ ToSet(WithQueries(cs, d, t))
                 = ToSet(cs) \cup {Query(m, d, t) : m \in QueryMethod \cap enabled}
           /\ \A m, e : LastCalls(WithQueries(cs, d, t), m, e)
                           = IF e = d /\ m \in QueryMethod \cap enabled THEN {Query(m, d, t)}
                             ELSE LastCalls(cs, m, e)
           /\ \A e, tk : QueryFollows(cs, d, t, e, tk) => Firsts(WithQueries(cs, d, t), e, tk)
<1> DEFINE r == WithQueries(cs, d, t)
<1> DEFINE a == Query("lens", d, t)
           b == Query("tokens", d, t)
           c == Query("symbols", d, t)
           p == WithCall(cs, "lens", a)
           q == WithCall(p, "tokens", b)
           s == WithCall(q, "symbols", c)
<1>1. /\ a.method = "lens" /\ a.doc = d
      /\ b.method = "tokens" /\ b.doc = d
      /\ c.method = "symbols" /\ c.doc = d
  BY DEF Query, Call
<1>2. /\ LensCall(d) = Asks("lens", <<a>>)
      /\ TokensCall(t, d) = Asks("tokens", <<b>>)
      /\ SymbolsCall(d) = Asks("symbols", <<c>>)
  BY DEF LensCall, TokensCall, SymbolsCall, Query
<1> HIDE DEF a, b, c
<1>3. /\ p \in Seq(ToSet(p))
      /\ ToSet(p) = ToSet(cs) \cup (IF "lens" \in enabled THEN {a} ELSE {})
      /\ \A m, e : LastCalls(p, m, e)
                      = IF "lens" \in enabled /\ Matches(a, m, e) THEN {a} ELSE LastCalls(cs, m, e)
      /\ \A e, tk : Firsts(cs, e, tk) /\ ("lens" \in enabled => MayFollow(cs, a, e, tk))
                      => Firsts(p, e, tk)
  BY OneMade
<1> HIDE DEF p
<1>4. /\ q \in Seq(ToSet(q))
      /\ ToSet(q) = ToSet(p) \cup (IF "tokens" \in enabled THEN {b} ELSE {})
      /\ \A m, e : LastCalls(q, m, e)
                      = IF "tokens" \in enabled /\ Matches(b, m, e) THEN {b} ELSE LastCalls(p, m, e)
      /\ \A e, tk : Firsts(p, e, tk) /\ ("tokens" \in enabled => MayFollow(p, b, e, tk))
                      => Firsts(q, e, tk)
  BY <1>3, OneMade
<1> HIDE DEF q
<1>5. /\ s \in Seq(ToSet(s))
      /\ ToSet(s) = ToSet(q) \cup (IF "symbols" \in enabled THEN {c} ELSE {})
      /\ \A m, e : LastCalls(s, m, e)
                      = IF "symbols" \in enabled /\ Matches(c, m, e) THEN {c} ELSE LastCalls(q, m, e)
      /\ \A e, tk : Firsts(q, e, tk) /\ ("symbols" \in enabled => MayFollow(q, c, e, tk))
                      => Firsts(s, e, tk)
  BY <1>4, OneMade
<1> HIDE DEF s
<1>6. r = s
  <2> DEFINE x == Asks("lens", <<a>>)
             y == Asks("tokens", <<b>>)
             z == Asks("symbols", <<c>>)
             T == ToSet(cs) \cup {a, b, c}
  <2>1. cs \in Seq(T) /\ x \in Seq(T) /\ y \in Seq(T) /\ z \in Seq(T)
    <3>1. cs \in Seq(T)
      OBVIOUS
    <3>2. a \in T /\ b \in T /\ c \in T
      OBVIOUS
    <3> HIDE DEF T
    <3>3. <<a>> \in Seq(T) /\ <<b>> \in Seq(T) /\ <<c>> \in Seq(T) /\ <<>> \in Seq(T)
      BY <3>2
    <3> QED BY <3>1, <3>3 DEF Asks
  <2> HIDE DEF x, y, z, T
  <2>2. cs \o ((x \o y) \o z) = ((cs \o x) \o y) \o z
    BY <2>1
  <2> QED BY <1>2, <2>2 DEF WithQueries, Queries, s, q, p, x, y, z, WithCall
<1>7. ToSet(s) = ToSet(cs) \cup {Query(m, d, t) : m \in QueryMethod \cap enabled}
  <2>1. {Query(m, d, t) : m \in QueryMethod \cap enabled}
           = (IF "lens" \in enabled THEN {a} ELSE {})
             \cup (IF "tokens" \in enabled THEN {b} ELSE {})
             \cup (IF "symbols" \in enabled THEN {c} ELSE {})
    BY DEF QueryMethod, a, b, c
  <2> QED BY <1>3, <1>4, <1>5, <2>1
<1>8. \A m, e : LastCalls(s, m, e)
                   = IF e = d /\ m \in QueryMethod \cap enabled THEN {Query(m, d, t)}
                     ELSE LastCalls(cs, m, e)
  <2> TAKE m, e
  <2>1. /\ LastCalls(p, m, e)
              = IF "lens" \in enabled /\ Matches(a, m, e) THEN {a} ELSE LastCalls(cs, m, e)
        /\ LastCalls(q, m, e)
              = IF "tokens" \in enabled /\ Matches(b, m, e) THEN {b} ELSE LastCalls(p, m, e)
        /\ LastCalls(s, m, e)
              = IF "symbols" \in enabled /\ Matches(c, m, e) THEN {c} ELSE LastCalls(q, m, e)
    BY <1>3, <1>4, <1>5
  <2>2. /\ Matches(a, m, e) <=> m = "lens" /\ e = d
        /\ Matches(b, m, e) <=> m = "tokens" /\ e = d
        /\ Matches(c, m, e) <=> m = "symbols" /\ e = d
    BY <1>1 DEF Matches
  <2>3. CASE m = "lens"
    BY <2>1, <2>2, <2>3 DEF QueryMethod, a
  <2>4. CASE m = "tokens"
    BY <2>1, <2>2, <2>4 DEF QueryMethod, b
  <2>5. CASE m = "symbols"
    BY <2>1, <2>2, <2>5 DEF QueryMethod, c
  <2>6. CASE m \notin QueryMethod
    BY <2>1, <2>2, <2>6 DEF QueryMethod
  <2> QED BY <2>3, <2>4, <2>5, <2>6 DEF QueryMethod
<1>9. ASSUME NEW e, NEW tk, QueryFollows(cs, d, t, e, tk) PROVE Firsts(s, e, tk)
  <2>1. MayFollow(cs, a, e, tk) /\ MayFollow(q, c, e, tk)
    BY <1>1 DEF MayFollow, Matches
  <2>2. "tokens" \in enabled => MayFollow(cs, b, e, tk)
    BY <1>9 DEF QueryFollows, b
  <2>3. LastCalls(p, "tokens", e) = LastCalls(cs, "tokens", e)
    BY <1>1, <1>3 DEF Matches
  <2>4. "tokens" \in enabled => MayFollow(p, b, e, tk)
    BY <2>2, <2>3 DEF MayFollow
  <2> QED BY <1>3, <1>4, <1>5, <1>9, <2>1, <2>4 DEF QueryFollows
<1> QED
  BY <1>5, <1>6, <1>7, <1>8, <1>9

-----------------------------------------------------------------------------
\* A call names a document and belongs to a feature that is switched on.
FeatureOf(c) == IF c.method \in {"hover", "signature"} THEN "popup" ELSE c.method

GoodCall(c) ==
    /\ c.doc \in Doc /\ c.text \in Nat
    /\ FeatureOf(c) \in enabled
    /\ c.method = "completion" => c.arg \in Nat

\* A server that does not run owes no answer.
CallsInv ==
    /\ calls \in Seq(ToSet(calls))
    /\ \A c \in ToSet(calls) : GoodCall(c)
    /\ ~server.running => calls = <<>>

\* A call is under way when there is a last one.
LEMMA PendingIsLast ==
    ASSUME CallsInv, NEW m, NEW d
    PROVE  Pending(m, d) <=> LastCalls(calls, m, d) # {}
<1> DEFINE I == {i \in 1 .. Len(calls) : calls[i].method = m /\ calls[i].doc = d}
<1>1. Len(calls) \in Nat
  BY DEF CallsInv
<1>2. IsFiniteSet(I) /\ Cardinality(I) \in Nat
  <2>1. IsFiniteSet(1 .. Len(calls))
    BY <1>1, FS_Interval
  <2> QED BY <2>1, FS_Subset, FS_CardinalityType
<1>3. Pending(m, d) <=> I # {}
  <2>1. Cardinality(I) = 0 <=> I = {}
    BY <1>2, FS_EmptySet
  <2> QED BY <1>2, <2>1 DEF Pending, Awaited
<1>4. LastCalls(calls, m, d) # {} => I # {}
  BY DEF LastCalls, LastAt, Matches
<1>5. I # {} => LastCalls(calls, m, d) # {}
  BY SomeWaits DEF CallsInv, Matches
<1> QED
  BY <1>3, <1>4, <1>5

\* The last call of a document is one of those that are waiting.
LEMMA LastMatches ==
    ASSUME NEW cs, NEW m, NEW d, NEW c \in LastCalls(cs, m, d), cs \in Seq(ToSet(cs))
    PROVE  Matches(c, m, d) /\ c \in ToSet(cs)
<1>1. DOMAIN cs = 1 .. Len(cs)
  OBVIOUS
<1> QED
  BY <1>1 DEF LastCalls, LastAt, ToSet

\* Nothing happens to the calls.
LEMMA CallsSame ==
    ASSUME CallsInv, UNCHANGED <<enabled, calls>>, ~server'.running => ~server.running
    PROVE  CallsInv'
BY DEF CallsInv, GoodCall

\* A call is answered or refused.
LEMMA CallsAnswered ==
    ASSUME CallsInv, UNCHANGED <<enabled, server>>, NEW i, Answerable(i), calls' = WithoutCall(i)
    PROVE  /\ CallsInv'
           /\ calls[i] \in ToSet(calls) /\ ToSet(calls') \subseteq ToSet(calls)
           /\ \A m, d :
                 m # "completion" =>
                     \/ LastCalls(calls', m, d) = LastCalls(calls, m, d)
                     \/ /\ LastCalls(calls', m, d) = {}
                        /\ LastCalls(calls, m, d) = {calls[i]}
                        /\ Matches(calls[i], m, d)
<1> DEFINE S == ToSet(calls)
<1>1. i \in 1 .. Len(calls) /\ calls \in Seq(S) /\ DOMAIN calls = 1 .. Len(calls)
  BY DEF Answerable, CallsInv
<1>2. calls[i] \in S
  BY <1>1 DEF ToSet
<1>3. calls' \in Seq(S)
  BY <1>1, RemoveAtProperties DEF WithoutCall
<1>4. calls' \in Seq(ToSet(calls')) /\ ToSet(calls') \subseteq S
  <2> HIDE DEF S
  <2>1. calls' \in Seq(ToSet(calls'))
    BY <1>3, SeqOfItself
  <2> QED BY <1>3, <2>1 DEF ToSet
<1>5. CallsInv'
  <2>1. calls # <<>>
    BY <1>1
  <2> QED BY <1>4, <2>1 DEF CallsInv, GoodCall
<1>6. ASSUME NEW m, NEW d, m # "completion"
      PROVE  \/ LastCalls(calls', m, d) = LastCalls(calls, m, d)
             \/ /\ LastCalls(calls', m, d) = {}
                /\ LastCalls(calls, m, d) = {calls[i]}
                /\ Matches(calls[i], m, d)
  <2>1. Matches(calls[i], m, d) => \A j \in 1 .. i - 1 : calls[j].method # calls[i].method
    BY <1>6 DEF Matches, Answerable, Reordered
  <2> HIDE DEF S
  <2> QED BY <1>1, <2>1, LastOfRemoved DEF WithoutCall
<1> QED
  BY <1>2, <1>4, <1>5, <1>6

\* A call is made, if its feature is switched on.
LEMMA CallsMade ==
    ASSUME CallsInv, UNCHANGED enabled, NEW c, NEW f, calls' = WithCall(calls, f, c),
           server'.running \/ (UNCHANGED server /\ f \notin enabled), f \in enabled => GoodCall(c)
    PROVE  /\ CallsInv'
           /\ \A m, d : LastCalls(calls', m, d)
                           = IF f \in enabled /\ Matches(c, m, d) THEN {c} ELSE LastCalls(calls, m, d)
<1>1. /\ calls' \in Seq(ToSet(calls'))
      /\ ToSet(calls') = ToSet(calls) \cup (IF f \in enabled THEN {c} ELSE {})
      /\ \A m, d : LastCalls(calls', m, d)
                      = IF f \in enabled /\ Matches(c, m, d) THEN {c} ELSE LastCalls(calls, m, d)
  BY OneMade DEF CallsInv
<1>2. \A b \in ToSet(calls') : GoodCall(b)'
  BY <1>1 DEF CallsInv, GoodCall
<1>3. ~server'.running => calls' = <<>>
  <2>1. f \notin enabled => calls' = calls
    BY NoneMade DEF CallsInv, WithCall, Asks
  <2> QED BY <2>1 DEF CallsInv
<1> QED
  BY <1>1, <1>2, <1>3 DEF CallsInv

\* Whole texts are asked for.
LEMMA CallsQueried ==
    ASSUME IInv, CallsInv, UNCHANGED enabled, server'.running, NEW d \in Doc, NEW t,
           calls' = calls \o Queries(d, t)
    PROVE  /\ CallsInv'
           /\ \A m, e : LastCalls(calls', m, e)
                           = IF e = d /\ m \in QueryMethod \cap enabled THEN {Query(m, d, t)}
                             ELSE LastCalls(calls, m, e)
           /\ \A c \in ToSet(calls') : c \in ToSet(calls) \/ c.method \in QueryMethod
           /\ \A e, tk : QueryFollows(calls, d, t, e, tk) => Firsts(calls', e, tk)
<1>1. /\ calls' \in Seq(ToSet(calls'))
      /\ \A e, tk : QueryFollows(calls, d, t, e, tk) => Firsts(calls', e, tk)
      /\ ToSet(calls') = ToSet(calls) \cup {Query(m, d, t) : m \in QueryMethod \cap enabled}
      /\ \A m, e : LastCalls(calls', m, e)
                      = IF e = d /\ m \in QueryMethod \cap enabled THEN {Query(m, d, t)}
                        ELSE LastCalls(calls, m, e)
  <2>1. calls' = WithQueries(calls, d, t)
    BY DEF WithQueries
  <2> QED BY <2>1, QueriesMade DEF CallsInv
<1>2. \A m \in QueryMethod \cap enabled : GoodCall(Query(m, d, t))
  <2>1. doc[d].text \in Nat
    BY DEF IInv, DocumentsInv
  <2> QED BY <2>1 DEF Query, Call, GoodCall, FeatureOf, QueryMethod
<1>3. \A c \in ToSet(calls') : GoodCall(c)'
  BY <1>1, <1>2 DEF CallsInv, GoodCall, FeatureOf
<1>4. \A m \in QueryMethod : Query(m, d, t).method = m
  BY DEF Query, Call
<1> QED
  BY <1>1, <1>3, <1>4 DEF CallsInv

\* One call is made or none: it is the last of its document, and no other method's calls
\* change.
LEMMA CallMade ==
    ASSUME CallsInv, UNCHANGED enabled, NEW c, GoodCall(c), server'.running,
           calls' = calls \o <<c>>
    PROVE  /\ CallsInv'
           /\ \A m, d : LastCalls(calls', m, d)
                           = IF Matches(c, m, d) THEN {c} ELSE LastCalls(calls, m, d)
           /\ ToSet(calls') = ToSet(calls) \cup {c}
           /\ c.method # "tokens" => \A d, tk : Firsts(calls, d, tk) => Firsts(calls', d, tk)
<1>1. calls' = WithCall(calls, FeatureOf(c), c) /\ FeatureOf(c) \in enabled
  BY DEF WithCall, Asks, GoodCall
<1>2. /\ CallsInv'
      /\ \A m, d : LastCalls(calls', m, d)
                      = IF FeatureOf(c) \in enabled /\ Matches(c, m, d) THEN {c}
                        ELSE LastCalls(calls, m, d)
  BY <1>1, CallsMade, ZenonT(30)

<1>3. ToSet(calls') = ToSet(calls) \cup {c}
  BY ToSetOfConcat DEF CallsInv
<1>4. c.method # "tokens" => \A d, tk : MayFollow(calls, c, d, tk)
  BY DEF MayFollow, Matches
<1>5. \A d, tk : Firsts(calls, d, tk) /\ MayFollow(calls, c, d, tk) => Firsts(calls', d, tk)
  BY FirstsOfAppend DEF CallsInv
<1> QED
  BY <1>1, <1>2, <1>3, <1>4, <1>5

LEMMA NoCallMade ==
    ASSUME CallsInv, calls' = calls \o <<>>
    PROVE  calls' = calls
BY NoneMade DEF CallsInv

\* What becomes of the calls in a step that makes one of method n, or none.
OnlyOf(n) ==
    /\ CallsInv'
    /\ \A m, d : m # n => LastCalls(calls', m, d) = LastCalls(calls, m, d)
    /\ \A c \in ToSet(calls') : c \in ToSet(calls) \/ c.method = n
    /\ n # "tokens" => \A d, tk : Firsts(calls, d, tk) => Firsts(calls', d, tk)

LEMMA AtMostOne ==
    ASSUME CallsInv, UNCHANGED enabled, NEW n, NEW cs, calls' = calls \o cs,
           ~server'.running => ~server.running,
           cs = <<>> \/ \E c : cs = <<c>> /\ c.method = n /\ GoodCall(c) /\ server'.running
    PROVE  OnlyOf(n)
<1>1. CASE cs = <<>>
  <2>1. calls' = calls
    BY <1>1, NoCallMade
  <2> QED BY <2>1, CallsSame DEF OnlyOf
<1>2. ASSUME NEW c, cs = <<c>>, c.method = n, GoodCall(c), server'.running
      PROVE  OnlyOf(n)
  <2>1. calls' = calls \o <<c>>
    BY <1>2
  <2>2. /\ CallsInv'
        /\ \A m, d : LastCalls(calls', m, d)
                        = IF Matches(c, m, d) THEN {c} ELSE LastCalls(calls, m, d)
        /\ ToSet(calls') = ToSet(calls) \cup {c}
        /\ c.method # "tokens" => \A d, tk : Firsts(calls, d, tk) => Firsts(calls', d, tk)
    BY <1>2, <2>1, CallMade
  <2> QED BY <1>2, <2>2 DEF OnlyOf, Matches
<1> QED
  BY <1>1, <1>2

LEMMA NoCalls ==
    ASSUME CallsInv, UNCHANGED <<enabled, calls>>, ~server'.running => ~server.running, NEW n
    PROVE  OnlyOf(n)
BY CallsSame DEF OnlyOf

-----------------------------------------------------------------------------
\* The numbers of completion requests: no list is of a request whose answer did not
\* come, and closing a list discards all that were made.
Numbered(c) ==
    /\ c \in [sent : Nat, received : Nat, discard_up_to : Nat,
              shown : [id : Nat, of : {NULL} \cup (Doc \X Nat)],
              dismissed : Nat, edited : {"none", "fresh", "stale"}]
    /\ c.dismissed = c.discard_up_to
    /\ c.shown.id <= c.received

CompletionInv == Numbered(complete)

\* The calls of each handler.
LEMMA EditCalls ==
    ASSUME IInv, CallsInv, CompletionInv, NEW d \in Doc, Edit(d)
    PROVE  OnlyOf("completion")
<1>1. UNCHANGED enabled /\ server'.running = server.running
  BY DEF Edit, Opened, IInv, DocumentsInv, ServerType
<1>2. CASE d # current
  BY <1>1, <1>2, NoCalls DEF Edit
<1>3. CASE d = current
  <2>1. PICK asks \in MayComplete : MakeCalls(CompletionCall(d, doc[d].text + 1, asks))
    BY <1>3 DEF Edit
  <2>2. asks => "completion" \in enabled /\ server.running
    BY DEF MayComplete
  <2>3. calls' = calls \o CompletionCall(d, doc[d].text + 1, asks)
    BY <2>1 DEF MakeCalls
  <2> DEFINE c == [method |-> "completion", doc |-> d, text |-> doc[d].text + 1,
                   arg |-> complete.sent + 1]
  <2>4. doc[d].text + 1 \in Nat /\ complete.sent + 1 \in Nat
    BY DEF IInv, DocumentsInv, CompletionInv, Numbered
  <2>5. asks => GoodCall(c)
    BY <2>2, <2>4 DEF GoodCall, FeatureOf
  <2>6. CASE asks
    <3>1. CompletionCall(d, doc[d].text + 1, asks) = <<c>> /\ c.method = "completion"
      BY <2>6 DEF CompletionCall
    <3> QED BY <1>1, <2>2, <2>3, <2>5, <2>6, <3>1, AtMostOne
  <2>7. CASE ~asks
    <3>1. CompletionCall(d, doc[d].text + 1, asks) = <<>>
      BY <2>7 DEF CompletionCall
    <3> QED BY <1>1, <2>3, <3>1, AtMostOne
  <2> QED BY <2>6, <2>7
<1> QED
  BY <1>2, <1>3

\* A call for the current document.
LEMMA CurrentCall ==
    ASSUME IInv, current # NULL, NEW m, NEW arg,
           FeatureOf(Call(m, current, arg)) \in enabled, m # "completion" \/ arg \in Nat
    PROVE  GoodCall(Call(m, current, arg)) /\ Call(m, current, arg).method = m
<1>1. current \in Doc /\ doc[current].text \in Nat
  BY DEF IInv, DocumentsInv
<1> QED
  BY <1>1 DEF Call, GoodCall

LEMMA HighlightCalls ==
    ASSUME IInv, CallsInv, NEW caret, server.running, current # NULL,
           UNCHANGED <<enabled, server>>,
           calls' = calls \o HighlightCall(caret)
    PROVE  /\ OnlyOf("highlight")
           /\ caret # NULL /\ "highlight" \in enabled =>
                 LastCalls(calls', "highlight", current) = {Call("highlight", current, caret)}
           /\ \A b \in ToSet(calls') : b \in ToSet(calls) \/ (b.arg = caret /\ caret # NULL)
<1> DEFINE c == Call("highlight", current, caret)
<1>1. CASE caret # NULL /\ "highlight" \in enabled
  <2>1. GoodCall(c) /\ c.method = "highlight" /\ c.doc = current
    <3>1. FeatureOf(c) \in enabled
      BY <1>1 DEF FeatureOf, Call
    <3> QED BY <3>1, CurrentCall DEF Call
  <2>2. calls' = calls \o <<c>>
    BY <1>1 DEF HighlightCall, Asks
  <2> HIDE DEF c
  <2>3. OnlyOf("highlight")
    BY <2>1, <2>2, AtMostOne
  <2>4. LastCalls(calls', "highlight", current) = {c} /\ ToSet(calls') = ToSet(calls) \cup {c}
    BY <2>1, <2>2, CallMade DEF Matches
  <2>5. c.arg = caret
    BY DEF c, Call
  <2> QED BY <1>1, <2>3, <2>4, <2>5 DEF c
<1>2. CASE ~(caret # NULL /\ "highlight" \in enabled)
  <2>1. calls' = calls \o <<>>
    BY <1>2 DEF HighlightCall, Asks
  <2> QED BY <1>2, <2>1, AtMostOne, NoCallMade
<1> QED
  BY <1>1, <1>2

LEMMA HighlightMovesCalls ==
    ASSUME IInv, CallsInv, HighlightMoves
    PROVE  OnlyOf("highlight")
<1>1. UNCHANGED <<enabled, server>>
  BY DEF HighlightMoves
<1>2. \/ calls' = calls \o <<>>
      \/ server.running /\ current # NULL /\ \E caret : calls' = calls \o HighlightCall(caret)
  <2>1. ASSUME NEW caret \in CaretAt, MoveCaret(caret)
        PROVE  \/ calls' = calls \o <<>>
               \/ server.running /\ current # NULL /\ \E car : calls' = calls \o HighlightCall(car)
    BY <2>1 DEF MoveCaret, ScheduleRequest, MakeCalls
  <2>2. ASSUME RequestIdle
        PROVE  \/ calls' = calls \o <<>>
               \/ server.running /\ current # NULL /\ \E car : calls' = calls \o HighlightCall(car)
    BY <2>2 DEF RequestIdle, MakeCalls
  <2> QED BY <2>1, <2>2 DEF HighlightMoves
<1>3. CASE calls' = calls \o <<>>
  BY <1>1, <1>3, AtMostOne
<1>4. ASSUME server.running, current # NULL, NEW caret, calls' = calls \o HighlightCall(caret)
      PROVE  OnlyOf("highlight")
  BY <1>1, <1>4, HighlightCalls
<1> QED
  BY <1>2, <1>3, <1>4

LEMMA UserCompletesCalls ==
    ASSUME IInv, CallsInv, CompletionInv, UserCompletes
    PROVE  OnlyOf("completion")
<1>1. UNCHANGED <<enabled, server>>
  BY DEF UserCompletes
<1>2. CASE Complete
  <2>1. PICK asks \in MayComplete :
           calls' = calls \o CompletionCall(current, doc[current].text, asks)
    BY <1>2 DEF Complete, MakeCalls
  <2> DEFINE c == Call("completion", current, complete.sent + 1)
  <2>2. /\ current # NULL /\ server.running
        /\ "completion" \in enabled
        /\ complete.sent + 1 \in Nat
    BY <1>2 DEF Complete, CompletionInv, Numbered
  <2>3. GoodCall(c) /\ c.method = "completion"
    <3>1. FeatureOf(c) \in enabled
      BY <2>2 DEF FeatureOf, Call
    <3> QED BY <2>2, <3>1, CurrentCall
  <2>4. CompletionCall(current, doc[current].text, asks) = IF asks THEN <<c>> ELSE <<>>
    BY DEF CompletionCall, Call
  <2> HIDE DEF c
  <2>5. CASE asks
    <3>1. calls' = calls \o <<c>>
      BY <2>1, <2>4, <2>5
    <3> QED BY <1>1, <2>2, <2>3, <3>1, AtMostOne
  <2>6. CASE ~asks
    <3>1. calls' = calls \o <<>>
      BY <2>1, <2>4, <2>6
    <3> QED BY <1>1, <3>1, AtMostOne
  <2> QED BY <2>5, <2>6
<1>3. CASE Dismiss
  BY <1>1, <1>3, NoCalls DEF Dismiss
<1> QED
  BY <1>2, <1>3 DEF UserCompletes

LEMMA PopupCalls ==
    ASSUME IInv, CallsInv, UserMovesPopup
    PROVE  OnlyOf("hover") \/ OnlyOf("signature")
<1>1. UNCHANGED <<enabled, server>> /\ "popup" \in enabled
  BY DEF UserMovesPopup, PopupMoves
<1> DEFINE hover(arg) == Call("hover", current, arg)
           signature == Call("signature", current, NULL)
<1>2. \/ calls' = calls
      \/ calls' = calls \o <<>>
      \/ /\ server.running /\ current # NULL
         /\ \/ \E arg : calls' = calls \o <<Call("hover", current, arg)>>
            \/ calls' = calls \o <<signature>>
  <2>1. CASE Motion \/ (\E inside \in BOOLEAN : Leave(inside)) \/ Escape \/ Focus
    BY <2>1 DEF Motion, Leave, Escape, Focus
  <2>2. CASE DwellExpired
    BY <2>2 DEF DwellExpired, MakeCalls
  <2>3. CASE HoverPopup
    BY <2>3 DEF HoverPopup, MakeCalls
  <2>4. CASE \E asks \in BOOLEAN : SignatureRequest(asks)
    BY <2>4 DEF SignatureRequest, MakeCalls
  <2> QED BY <2>1, <2>2, <2>3, <2>4 DEF UserMovesPopup, PopupMoves
<1>3. CASE calls' = calls
  BY <1>1, <1>3, NoCalls
<1>4. CASE calls' = calls \o <<>>
  BY <1>1, <1>4, AtMostOne
<1>5. ASSUME server.running, current # NULL, NEW arg,
             calls' = calls \o <<Call("hover", current, arg)>>
      PROVE  OnlyOf("hover")
  <2>1. GoodCall(hover(arg)) /\ hover(arg).method = "hover"
    <3>1. FeatureOf(hover(arg)) \in enabled
      BY <1>1 DEF FeatureOf, Call
    <3> QED BY <1>5, <3>1, CurrentCall
  <2> QED BY <1>1, <1>5, <2>1, AtMostOne
<1>6. ASSUME server.running, current # NULL, calls' = calls \o <<signature>>
      PROVE  OnlyOf("signature")
  <2>1. GoodCall(signature) /\ signature.method = "signature"
    <3>1. FeatureOf(signature) \in enabled
      BY <1>1 DEF FeatureOf, Call
    <3> QED BY <1>6, <3>1, CurrentCall
  <2> QED BY <1>1, <1>6, <2>1, AtMostOne
<1> QED
  BY <1>2, <1>3, <1>4, <1>5, <1>6

LEMMA SelectionCalls ==
    ASSUME IInv, CallsInv, UserExpandsSelection
    PROVE  OnlyOf("selection")
<1>1. UNCHANGED <<enabled, server>> /\ "selection" \in enabled
  BY DEF UserExpandsSelection, SelectionMoves
<1>2. \/ calls' = calls
      \/ calls' = calls \o <<>>
      \/ /\ server.running /\ current # NULL
         /\ \E arg : calls' = calls \o <<Call("selection", current, arg)>>
  BY DEF UserExpandsSelection, SelectionMoves, SelectionRangeRequest, UserSelectsRange, MakeCalls
<1>3. CASE calls' = calls
  BY <1>1, <1>3, NoCalls
<1>4. CASE calls' = calls \o <<>>
  BY <1>1, <1>4, AtMostOne
<1>5. ASSUME server.running, current # NULL, NEW arg,
             calls' = calls \o <<Call("selection", current, arg)>>
      PROVE  OnlyOf("selection")
  <2> DEFINE c == Call("selection", current, arg)
  <2>1. GoodCall(c) /\ c.method = "selection"
    <3>1. FeatureOf(c) \in enabled
      BY <1>1 DEF FeatureOf, Call
    <3> QED BY <1>5, <3>1, CurrentCall
  <2> QED BY <1>1, <1>5, <2>1, AtMostOne
<1> QED
  BY <1>2, <1>3, <1>4, <1>5

\* The calls for whole texts that a handler makes for d, if it asks.
QueriesFor(d, t, asks) ==
    /\ CallsInv'
    /\ \A m, e : LastCalls(calls', m, e)
                    = IF asks /\ e = d /\ m \in QueryMethod \cap enabled THEN {Query(m, d, t)}
                      ELSE LastCalls(calls, m, e)
    /\ \A c \in ToSet(calls') : c \in ToSet(calls) \/ c.method \in QueryMethod
    /\ \A e, tk : Firsts(calls, e, tk) /\ (asks => QueryFollows(calls, d, t, e, tk))
                     => Firsts(calls', e, tk)

LEMMA AskCalls ==
    ASSUME IInv, CallsInv, UNCHANGED enabled, ~server'.running => ~server.running,
           NEW d \in Doc, NEW t, NEW asks \in BOOLEAN, asks => server'.running,
           Ask(IF asks THEN Queries(d, t) ELSE <<>>)
    PROVE  QueriesFor(d, t, asks)
<1>1. calls' = calls \o (IF asks THEN Queries(d, t) ELSE <<>>)
  BY DEF Ask, MakeCalls
<1>2. CASE asks
  <2>1. calls' = calls \o Queries(d, t) /\ server'.running
    BY <1>1, <1>2
  <2>2. /\ CallsInv'
        /\ \A m, e : LastCalls(calls', m, e)
                        = IF e = d /\ m \in QueryMethod \cap enabled THEN {Query(m, d, t)}
                          ELSE LastCalls(calls, m, e)
        /\ \A c \in ToSet(calls') : c \in ToSet(calls) \/ c.method \in QueryMethod
        /\ \A e, tk : QueryFollows(calls, d, t, e, tk) => Firsts(calls', e, tk)
    BY <2>1, CallsQueried
  <2> QED BY <1>2, <2>2 DEF QueriesFor
<1>3. CASE ~asks
  <2>1. calls' = calls
    BY <1>1, <1>3, NoCallMade
  <2> QED BY <1>3, <2>1, CallsSame DEF QueriesFor
<1> QED
  BY <1>2, <1>3

LEMMA ShownCalls ==
    ASSUME IInv, CallsInv, NEW d \in Doc, OpenDocument(d) \/ Activate(d)
    PROVE  QueriesFor(d, tokens, server.running)
<1>1. /\ UNCHANGED enabled /\ server'.running = server.running
      /\ server.running \in BOOLEAN
      /\ Ask(IF server.running THEN Queries(d, tokens) ELSE <<>>)
  BY DEF OpenDocument, Activate, Visible, Opened, IInv, DocumentsInv, ServerType
<1> QED
  BY <1>1, AskCalls

LEMMA UpdateIdleCalls ==
    ASSUME IInv, CallsInv, NEW d \in Doc, UpdateIdle(d)
    PROVE  QueriesFor(d, tokens, doc[d].open /\ server.running)
<1> DEFINE ask == doc[d].open /\ server.running
<1>1. /\ UNCHANGED enabled /\ server'.running = server.running
      /\ ask \in BOOLEAN
      /\ ask => server'.running
      /\ Ask(IF ask THEN Queries(d, tokens) ELSE <<>>)
  BY DEF UpdateIdle, Opened, IInv, DocumentsInv, ServerType
<1> HIDE DEF ask
<1>2. QueriesFor(d, tokens, ask)
  BY <1>1, AskCalls
<1> QED
  BY <1>2 DEF ask

LEMMA InitializedCalls ==
    ASSUME IInv, CallsInv, ServerInitialized
    PROVE  /\ CallsInv'
           /\ current = NULL => calls' = calls
           /\ current # NULL => QueriesFor(current, TokensDestroyed(Doc), TRUE)
<1>1. UNCHANGED enabled /\ server'.running
  BY DEF ServerInitialized, IInv, DocumentsInv, ServerType
<1>2. CASE current = NULL
  BY <1>1, <1>2, CallsSame DEF ServerInitialized
<1>3. CASE current # NULL
  <2>1. current \in Doc
    BY <1>3 DEF IInv, DocumentsInv
  <2>2. Ask(IF TRUE THEN Queries(current, TokensDestroyed(Doc)) ELSE <<>>)
    BY <1>3 DEF ServerInitialized, Visible
  <2>3. QueriesFor(current, TokensDestroyed(Doc), TRUE)
    BY <1>1, <2>1, <2>2, AskCalls
  <2> QED BY <1>3, <2>3 DEF QueriesFor
<1> QED
  BY <1>2, <1>3

LEMMA CrashedCalls ==
    ASSUME ServerCrashed
    PROVE  CallsInv' /\ \A m, d : LastCalls(calls', m, d) = {}
<1>1. calls' = <<>>
  BY DEF ServerCrashed
<1>2. <<>> \in Seq(ToSet(<<>>)) /\ ToSet(<<>>) = {}
  BY DEF ToSet
<1> QED
  BY <1>1, <1>2, LastOfNone DEF CallsInv

-----------------------------------------------------------------------------
(* The invariant of the calls and of completion, step by step *)

\* A list is taken away, or a request is made.
LEMMA Cancelled ==
    ASSUME NEW c, Numbered(c)
    PROVE  /\ Numbered(AutocCancel(c))
           /\ AutocCancel(c).shown = NoList
<1>1. CASE c.shown = NoList
  BY <1>1 DEF AutocCancel
<1>2. CASE c.shown # NoList
  <2>1. AutocCancel(c) = [c EXCEPT !.shown = NoList, !.discard_up_to = c.sent, !.dismissed = c.sent]
    BY <1>2 DEF AutocCancel
  <2>2. NoList \in [id : Nat, of : {NULL} \cup (Doc \X Nat)] /\ NoList.id = 0
    BY DEF NoList
  <2> DEFINE r == AutocCancel(c)
  <2>3. r \in [sent : Nat, received : Nat, discard_up_to : Nat,
              shown : [id : Nat, of : {NULL} \cup (Doc \X Nat)],
              dismissed : Nat, edited : {"none", "fresh", "stale"}]
    BY <2>1, <2>2 DEF Numbered
  <2>4. r.shown = NoList /\ r.discard_up_to = r.dismissed /\ r.received = c.received
    BY <2>1, <2>2 DEF Numbered
  <2>5. r.shown.id <= r.received
    BY <2>2, <2>4 DEF Numbered
  <2> QED BY <2>3, <2>4, <2>5 DEF Numbered
<1> QED
  BY <1>1, <1>2

LEMMA CompletionKept ==
    ASSUME CompletionInv,
           complete' \in {complete, AutocCancel(complete), Completed(complete, TRUE)}
    PROVE  /\ CompletionInv'
           /\ complete'.shown \in {complete.shown, NoList}
<1>1. CASE complete' = Completed(complete, TRUE)
  BY <1>1 DEF CompletionInv, Numbered, Completed
<1> QED
  BY <1>1, Cancelled DEF CompletionInv

LEMMA ItemSelectedKept ==
    ASSUME CompletionInv, complete' = ItemSelected(complete)
    PROVE  /\ CompletionInv'
           /\ complete'.shown = NoList
<1> DEFINE e == IF complete.sent # complete.received THEN complete.edited
                ELSE IF complete.shown.of = <<current, doc[current].text>> THEN "fresh" ELSE "stale"
           c == [complete EXCEPT !.edited = e]
<1>1. complete' = AutocCancel(c)
  BY DEF ItemSelected
<1>2. Numbered(c)
  <2>1. e \in {"none", "fresh", "stale"}
    BY DEF CompletionInv, Numbered
  <2> HIDE DEF e
  <2> QED BY <2>1 DEF CompletionInv, Numbered
<1> HIDE DEF c
<1> QED
  BY <1>1, <1>2, Cancelled DEF CompletionInv

\* An answer is used only when it is later than what was received and what was discarded.
LEMMA CompletionAnsweredKept ==
    ASSUME CompletionInv, NEW call, call.arg \in Nat, call.doc \in Doc, call.text \in Nat,
           NEW items, CompletionAnswered(call, items)
    PROVE  /\ CompletionInv'
           /\ \/ complete'.shown \in {complete.shown, NoList}
              \/ /\ complete'.shown.id > complete.shown.id
                 /\ complete'.shown.id > complete.dismissed
<1>1. CASE complete' = complete
  BY <1>1 DEF CompletionInv
<1>2. CASE complete' # complete
  <2> DEFINE c == [complete EXCEPT !.received = call.arg]
  <2>1. /\ call.arg > complete.received /\ call.arg > complete.discard_up_to
        /\ complete' = Response(c, call, items)
    BY <1>2 DEF CompletionAnswered
  <2>2. Numbered(c) /\ c.received = call.arg
    BY <2>1 DEF CompletionInv, Numbered
  <2> HIDE DEF c
  <2>3. CASE items
    <3>1. complete' = [c EXCEPT !.shown = [id |-> call.arg, of |-> <<call.doc, call.text>>]]
      BY <2>1, <2>3 DEF Response
    <3> QED BY <2>1, <2>2, <3>1 DEF CompletionInv, Numbered
  <2>4. CASE ~items
    <3>1. complete' = AutocCancel(c)
      BY <2>1, <2>4 DEF Response
    <3> QED BY <2>2, <3>1, Cancelled DEF CompletionInv
  <2> QED BY <2>3, <2>4
<1> QED
  BY <1>1, <1>2

\* What a step may do to the list: leave it, take it away, or show a later one.
ListMoves ==
    \/ complete'.shown \in {complete.shown, NoList}
    \/ /\ complete'.shown.id > complete.shown.id
       /\ complete'.shown.id > complete.dismissed

\* The numbers of the requests, in a step of anything but an answer.
LEMMA CompletionStep ==
    ASSUME CompletionInv, [Next]_vars, ~ \E i \in 1 .. MaxCalls : Answer(i)
    PROVE  CompletionInv' /\ ListMoves
<1>1. CASE complete' \in {complete, AutocCancel(complete), Completed(complete, TRUE)}
  BY <1>1, CompletionKept DEF ListMoves
<1>2. CASE UNCHANGED vars
  BY <1>1, <1>2 DEF vars, shownVars
<1>3. ASSUME NEW d \in Doc,
             OpenDocument(d) \/ Activate(d) \/ Edit(d) \/ UpdateIdle(d) \/ CloseDocument(d)
      PROVE  CompletionInv' /\ ListMoves
  <2>1. CASE OpenDocument(d) \/ Activate(d)
    BY <1>1, <2>1 DEF OpenDocument, Activate, Visible, CompletionHidden
  <2>2. CASE Edit(d)
    BY <1>1, <2>2 DEF Edit, Completed
  <2>3. CASE UpdateIdle(d) \/ CloseDocument(d)
    BY <1>1, <2>3 DEF UpdateIdle, CloseDocument
  <2> QED BY <1>3, <2>1, <2>2, <2>3
<1>4. CASE ServerInitialized
  BY <1>1, <1>4 DEF ServerInitialized, Visible, CompletionHidden
<1>5. CASE ServerCrashed \/ FreeServer \/ ServerTells
  BY <1>1, <1>5 DEF ServerCrashed, FreeServer, ServerTells
<1>6. ASSUME NEW i \in 1 .. MaxCalls, Refuse(i) PROVE CompletionInv' /\ ListMoves
  BY <1>1, <1>6 DEF Refuse
<1>7. CASE UserSwitchesPage \/ HighlightMoves \/ UserMovesPopup \/ UserExpandsSelection
  BY <1>1, <1>7 DEF UserSwitchesPage, HighlightMoves, UserMovesPopup, UserExpandsSelection,
                    shownVars
<1>8. CASE UserCompletes
  BY <1>1, <1>8 DEF UserCompletes, Complete, Dismiss, Completed
<1>9. CASE UserSelects
  BY <1>9, ItemSelectedKept DEF UserSelects, ListMoves
<1> QED
  BY <1>2, <1>3, <1>4, <1>5, <1>6, <1>7, <1>8, <1>9 DEF Next

\* The calls, in any step.
LEMMA CallsStep ==
    ASSUME IInv, CallsInv, CompletionInv, [Next]_vars
    PROVE  CallsInv'
<1>1. CASE UNCHANGED <<enabled, calls>> /\ (~server'.running => ~server.running)
  BY <1>1, CallsSame
<1>2. CASE UNCHANGED vars
  BY <1>1, <1>2 DEF vars, documentVars
<1>3. ASSUME NEW d \in Doc,
             OpenDocument(d) \/ Activate(d) \/ Edit(d) \/ UpdateIdle(d) \/ CloseDocument(d)
      PROVE  CallsInv'
  <2>1. CASE OpenDocument(d) \/ Activate(d)
    BY <2>1, ShownCalls DEF QueriesFor
  <2>2. CASE Edit(d)
    BY <2>2, EditCalls DEF OnlyOf
  <2>3. CASE UpdateIdle(d)
    BY <2>3, UpdateIdleCalls DEF QueriesFor
  <2>4. CASE CloseDocument(d)
    BY <1>1, <2>4 DEF CloseDocument, IInv, DocumentsInv, ServerType
  <2> QED BY <1>3, <2>1, <2>2, <2>3, <2>4
<1>4. CASE ServerInitialized
  BY <1>4, InitializedCalls
<1>5. CASE ServerCrashed
  BY <1>5, CrashedCalls
<1>6. CASE FreeServer \/ ServerTells \/ UserSwitchesPage
  BY <1>1, <1>6 DEF FreeServer, ServerTells, UserSwitchesPage, documentVars, IInv, DocumentsInv,
                    ServerType
<1>7. ASSUME NEW i \in 1 .. MaxCalls, Answer(i) \/ Refuse(i) PROVE CallsInv'
  BY <1>7, CallsAnswered DEF Answer, Refuse
<1>8. CASE HighlightMoves
  BY <1>8, HighlightMovesCalls DEF OnlyOf
<1>9. CASE UserMovesPopup
  BY <1>9, PopupCalls DEF OnlyOf
<1>10. CASE UserExpandsSelection
  BY <1>10, SelectionCalls DEF OnlyOf
<1>11. CASE UserCompletes
  BY <1>11, UserCompletesCalls DEF OnlyOf
<1>12. CASE UserSelects
  BY <1>1, <1>12 DEF UserSelects, Opened, IInv, DocumentsInv, ServerType
<1> QED
  BY <1>2, <1>3, <1>4, <1>5, <1>6, <1>7, <1>8, <1>9, <1>10, <1>11, <1>12 DEF Next

LEMMA AnswerOfCompletion ==
    ASSUME CallsInv, CompletionInv, NEW i \in 1 .. MaxCalls, Answer(i)
    PROVE  CompletionInv' /\ ListMoves
<1>1. CASE complete' = complete
  BY <1>1, CompletionKept DEF ListMoves
<1>2. CASE CompletionAnswer(i)
  <2>1. GoodCall(calls[i])
    <3>1. calls[i] \in ToSet(calls)
      BY DEF Answer, Answerable, CallsInv, ToSet
    <3> QED BY <3>1 DEF CallsInv
  <2>2. PICK items \in BOOLEAN : CompletionAnswered(calls[i], items)
    BY <1>2 DEF CompletionAnswer
  <2>3. calls[i].arg \in Nat /\ calls[i].doc \in Doc /\ calls[i].text \in Nat
    BY <1>2, <2>1 DEF CompletionAnswer, GoodCall
  <2> QED BY <2>2, <2>3, CompletionAnsweredKept DEF ListMoves
<1> QED
  BY <1>1, <1>2 DEF Answer, TokensAnswer, SymbolsAnswer, LensAnswer, HighlightAnswer,
     SelectionAnswer, PopupAnswer, shownVars

-----------------------------------------------------------------------------
\* The calls and the numbers of the requests, for all the behaviours.
AskedInv == IInv /\ CallsInv /\ CompletionInv

LEMMA AskedStep ==
    ASSUME AskedInv, [Next]_vars
    PROVE  AskedInv' /\ ListMoves
BY CallsStep, CompletionStep, AnswerOfCompletion, NextStep DEF AskedInv

LEMMA AskedAlways == Spec => []AskedInv
<1>1. Init => CallsInv
  <2>1. <<>> \in Seq(ToSet(<<>>)) /\ ToSet(<<>>) = {}
    BY DEF ToSet
  <2> QED BY <2>1 DEF Init, DocumentsInit, CallsInv
<1>2. Init => CompletionInv
  BY DEF Init, CompletionInit, CompletionInv, Numbered, NoList
<1>3. AskedInv /\ [Next]_vars => AskedInv'
  BY AskedStep
<1>4. Init /\ IInv => AskedInv
  BY <1>1, <1>2 DEF AskedInv
<1> QED
  BY <1>3, <1>4, Invariance, PTL DEF Spec

\* The list never goes back to an earlier request, nor comes back for a request that was
\* made before it was closed: in whatever order the answers to any number of requests
\* come, and whatever the user does meanwhile.
THEOREM ListsGoOn == Spec => NewestList
<1>1. AskedInv /\ [Next]_vars =>
         [complete'.shown # complete.shown /\ complete'.shown # NoList =>
             /\ complete'.shown.id > complete.shown.id
             /\ complete'.shown.id > complete.dismissed]_complete
  BY AskedStep DEF ListMoves
<1> QED
  BY <1>1, AskedAlways, PTL DEF Spec, NewestList

-----------------------------------------------------------------------------
(* The popup *)

\* A popup that came up while the editor had the focus is over its document.
Over(p, cur) ==
    /\ p \in [doc : Doc \cup {NULL}, kind : {"hover", "signature"}, focused : BOOLEAN,
              dwell : Doc \cup {NULL}, focus : BOOLEAN]
    /\ p.doc # NULL /\ p.focused => p.doc = cur /\ p.focus

PopupInv == Over(popup, current)

LEMMA HiddenKept ==
    ASSUME NEW p, NEW cur, Over(p, cur), NEW d
    PROVE  /\ Over(PopupHidden(p, d), cur) /\ Over(CalltipHidden(p, d), cur)
           /\ Over(PopupMoved(p, d), cur) /\ Over(PopupTyped(p, d), cur)
           /\ Over([p EXCEPT !.doc = NULL], cur)
<1>1. \A q, e : Over(q, cur) => Over(PopupHidden(q, e), cur)
  BY DEF Over, PopupHidden
<1>2. \A q, e : Over(q, cur) => Over(CalltipHidden(q, e), cur)
  BY <1>1 DEF CalltipHidden
<1>3. Over([p EXCEPT !.doc = NULL], cur)
  BY DEF Over
<1> QED
  BY <1>1, <1>2, <1>3 DEF PopupMoved, PopupTyped

\* A popup that is shown is shown over the current document.
LEMMA ShownOver ==
    ASSUME NEW p, current # NULL, IInv, Over(p, current), NEW kind \in {"hover", "signature"}
    PROVE  Over(PopupShown(p, current, kind), current)
<1>1. current \in Doc
  BY DEF IInv, DocumentsInv
<1> QED
  BY <1>1 DEF Over, PopupShown

\* When the focus leaves the editor, a popup that is there stays only if it came up
\* without it.
LEMMA FocusLostKept ==
    ASSUME PopupInv
    PROVE  /\ \A cur : Over(FocusLost(popup), cur)
           /\ \A cur : \A focus \in BOOLEAN : Over([FocusLost(popup) EXCEPT !.focus = focus], cur)
<1> DEFINE p == FocusLost(popup)
<1>1. /\ p \in [doc : Doc \cup {NULL}, kind : {"hover", "signature"}, focused : BOOLEAN,
               dwell : Doc \cup {NULL}, focus : BOOLEAN]
      /\ p.doc = NULL \/ ~p.focused
  BY DEF PopupInv, Over, FocusLost
<1> HIDE DEF p
<1> QED
  BY <1>1 DEF Over, p

LEMMA PopupMovesKept ==
    ASSUME IInv, PopupInv, UNCHANGED current, PopupMoves
    PROVE  PopupInv'
<1>2. CASE Motion \/ \E inside \in BOOLEAN : Leave(inside)
  <2>1. \A e \in Doc \cup {NULL} : Over([popup EXCEPT !.dwell = e], current)
    BY DEF PopupInv, Over
  <2>2. CASE Motion
    BY <2>1, <2>2 DEF Motion, IInv, DocumentsInv, PopupInv
  <2>3. ASSUME NEW inside \in BOOLEAN, Leave(inside) PROVE PopupInv'
    <3> DEFINE p == [popup EXCEPT !.dwell = NULL]
    <3>1. popup' \in {p, PopupHidden(p, current)}
      BY <2>3 DEF Leave
    <3>2. Over(p, current)
      BY <2>1
    <3> HIDE DEF p
    <3> QED BY <3>1, <3>2, HiddenKept DEF PopupInv
  <2> QED BY <1>2, <2>2, <2>3
<1>3. CASE DwellExpired
  <2> DEFINE p == [popup EXCEPT !.dwell = NULL]
  <2>1. Over(p, current)
    BY DEF PopupInv, Over
  <2>2. popup' \in {p, PopupHidden(p, popup.dwell)}
        \/ (popup.dwell = current /\ current # NULL /\ popup' = PopupShown(p, current, "hover"))
    BY <1>3 DEF DwellExpired
  <2> HIDE DEF p
  <2> QED BY <2>1, <2>2, HiddenKept, ShownOver DEF PopupInv
<1>4. CASE HoverPopup \/ \E asks \in BOOLEAN : SignatureRequest(asks)
  BY <1>4, HiddenKept DEF HoverPopup, SignatureRequest, PopupInv
<1>5. CASE Escape
  BY <1>5, HiddenKept DEF Escape, PopupInv
<1>6. CASE Focus
  <2>1. popup.focus => Over(popup', current)
    BY <1>6, FocusLostKept DEF Focus
  <2>2. ~popup.focus => Over(popup', current)
    BY <1>6 DEF Focus, PopupInv, Over
  <2> QED BY <2>1, <2>2 DEF PopupInv
<1> QED
  BY <1>2, <1>3, <1>4, <1>5, <1>6 DEF PopupMoves

LEMMA PopupAnswerKept ==
    ASSUME IInv, PopupInv, UNCHANGED current, NEW c, c.doc \in Doc,
           HoverAnswered(c) \/ SignatureAnswered(c)
    PROVE  PopupInv'
<1>1. CASE c.doc # current
  BY <1>1 DEF HoverAnswered, HoverShown, SignatureAnswered, SignatureShown, PopupInv
<1>2. CASE c.doc = current
  <2>1. popup' \in {popup, PopupShown(popup, current, "hover"), PopupHidden(popup, current),
                    CalltipHidden(popup, current), PopupShown(popup, current, "signature")}
    BY DEF HoverAnswered, HoverShown, SignatureAnswered, SignatureShown
  <2>2. current # NULL
    BY <1>2, DocAssumption
  <2> QED BY <2>1, <2>2, HiddenKept, ShownOver DEF PopupInv
<1> QED
  BY <1>1, <1>2

LEMMA PopupStep ==
    ASSUME AskedInv, PopupInv, [Next]_vars
    PROVE  PopupInv'
<1> USE DEF AskedInv
<1>1. CASE UNCHANGED current /\ popup' \in {popup, [popup EXCEPT !.doc = NULL]}
  BY <1>1, HiddenKept DEF PopupInv
<1>2. CASE UNCHANGED vars
  BY <1>1, <1>2 DEF vars, documentVars, shownVars
<1>3. ASSUME NEW d \in Doc, NEW t, NEW running, Visible(d, t, running), current' = d
      PROVE  PopupInv'
  <2>1. PICK focus \in BOOLEAN : popup' = PopupSwitched(d, focus)
    BY <1>3 DEF Visible
  <2>2. CASE d = current
    BY <1>3, <2>1, <2>2 DEF PopupSwitched, PopupInv
  <2>3. CASE d # current
    <3>1. popup' = [FocusLost(popup) EXCEPT !.focus = focus]
      BY <2>1, <2>3 DEF PopupSwitched
    <3>2. Over([FocusLost(popup) EXCEPT !.focus = focus], d)
      BY FocusLostKept
    <3> QED BY <1>3, <3>1, <3>2 DEF PopupInv
  <2> QED BY <2>2, <2>3
<1>4. ASSUME NEW d \in Doc,
             OpenDocument(d) \/ Activate(d) \/ Edit(d) \/ UpdateIdle(d) \/ CloseDocument(d)
      PROVE  PopupInv'
  <2>1. CASE OpenDocument(d) \/ Activate(d)
    BY <1>3, <2>1 DEF OpenDocument, Activate
  <2>2. CASE Edit(d)
    BY <2>2, HiddenKept DEF Edit, PopupInv
  <2>3. CASE UpdateIdle(d)
    BY <1>1, <2>3 DEF UpdateIdle
  <2>4. CASE CloseDocument(d) /\ d = current
    BY <2>4, FocusLostKept, HiddenKept DEF CloseDocument, PopupClosed, PopupInv
  <2>5. CASE CloseDocument(d) /\ d # current
    BY <2>5, HiddenKept DEF CloseDocument, PopupClosed, PopupInv
  <2> QED BY <1>4, <2>1, <2>2, <2>3, <2>4, <2>5
<1>5. CASE ServerInitialized
  <2>1. CASE current = NULL
    BY <1>1, <1>5, <2>1 DEF ServerInitialized
  <2>2. CASE current # NULL
    BY <1>3, <1>5, <2>2 DEF ServerInitialized, IInv, DocumentsInv
  <2> QED BY <2>1, <2>2
<1>6. CASE ServerCrashed \/ FreeServer \/ ServerTells
  BY <1>1, <1>6 DEF ServerCrashed, FreeServer, ServerTells, PopupFailed, documentVars
<1>7. ASSUME NEW i \in 1 .. MaxCalls, Answer(i) PROVE PopupInv'
  <2>1. calls[i].doc \in Doc
    <3>1. calls[i] \in ToSet(calls)
      BY <1>7 DEF Answer, Answerable, CallsInv, ToSet
    <3> QED BY <3>1 DEF CallsInv, GoodCall
  <2>2. CASE PopupAnswer(i)
    BY <1>7, <2>1, <2>2, PopupAnswerKept DEF PopupAnswer, Answer
  <2>3. CASE ~PopupAnswer(i)
    BY <1>1, <1>7, <2>3 DEF Answer, TokensAnswer, SymbolsAnswer, LensAnswer, HighlightAnswer,
       CompletionAnswer, SelectionAnswer, shownVars
  <2> QED BY <2>2, <2>3
<1>8. ASSUME NEW i \in 1 .. MaxCalls, Refuse(i) PROVE PopupInv'
  BY <1>1, <1>8 DEF Refuse, PopupFailed
<1>9. CASE UserSwitchesPage \/ HighlightMoves \/ UserCompletes \/ UserSelects
           \/ UserExpandsSelection
  BY <1>1, <1>9 DEF UserSwitchesPage, HighlightMoves, UserCompletes, UserSelects,
                    UserExpandsSelection, documentVars, shownVars
<1>10. CASE UserMovesPopup
  BY <1>10, PopupMovesKept DEF UserMovesPopup
<1> QED
  BY <1>2, <1>4, <1>5, <1>6, <1>7, <1>8, <1>9, <1>10 DEF Next

LEMMA PopupAlways == Spec => []PopupInv
<1>1. Init => PopupInv
  BY DEF Init, PopupInit, PopupInv, Over
<1>2. AskedInv /\ PopupInv /\ [Next]_vars => PopupInv'
  BY PopupStep
<1> QED
  BY <1>1, <1>2, AskedAlways, PTL DEF Spec

\* A popup that came up while the editor had the focus is over the document that is
\* shown, and the focus is still there: however late the answers to whatever number of
\* calls came, and whatever documents they were for.
THEOREM PopupsStay == Spec => []PopupOverCurrent
<1>1. PopupInv => PopupOverCurrent
  BY DEF PopupInv, Over, PopupOverCurrent
<1> QED
  BY <1>1, PopupAlways, PTL

\* Where calls are made, none is gone.
LEMMA NoneGone ==
    ASSUME CallsInv, NEW T, NEW cs \in Seq(T), calls' = calls \o cs, NEW i \in 1 .. Len(calls)
    PROVE  calls' # WithoutCall(i)
<1> DEFINE U == ToSet(calls) \cup T
<1>1. calls \in Seq(ToSet(calls))
  BY DEF CallsInv
<1> HIDE DEF U
<1>2. calls \in Seq(U) /\ cs \in Seq(U)
  BY <1>1 DEF U
<1>3. Len(calls') = Len(calls) + Len(cs) /\ Len(calls) \in Nat /\ Len(cs) \in Nat
  BY <1>2
<1>4. Len(WithoutCall(i)) = Len(calls) - 1
  BY <1>2, RemoveAtProperties DEF WithoutCall
<1> QED
  BY <1>3, <1>4

LEMMA QueriesAreCalls ==
    ASSUME NEW d, NEW t
    PROVE  \E T : Queries(d, t) \in Seq(T)
<1> DEFINE a == Call("lens", d, NULL)
           b == Call("tokens", d, IF Delta /\ t[d] # NULL THEN t[d].result_id ELSE NULL)
           c == Call("symbols", d, NULL)
           T == {a, b, c}
<1>1. a \in T /\ b \in T /\ c \in T
  OBVIOUS
<1>2. /\ LensCall(d) = Asks("lens", <<a>>)
      /\ TokensCall(t, d) = Asks("tokens", <<b>>)
      /\ SymbolsCall(d) = Asks("symbols", <<c>>)
  BY DEF LensCall, TokensCall, SymbolsCall
<1> HIDE DEF a, b, c, T
<1>3. /\ Asks("lens", <<a>>) \in Seq(T)
      /\ Asks("tokens", <<b>>) \in Seq(T)
      /\ Asks("symbols", <<c>>) \in Seq(T)
  BY <1>1 DEF Asks
<1>4. Queries(d, t) \in Seq(T)
  BY <1>2, <1>3 DEF Queries
<1> QED
  BY <1>4

\* What the mouse asked for leaves a signature that is shown, also when it fails.
LEMMA MouseAnswered ==
    ASSUME AskedInv, PopupInv, [Next]_vars, ShowingSignature(popup, current),
           NEW i \in 1 .. Len(calls), calls[i].method = "hover", ~calls[i].arg,
           calls' = WithoutCall(i)
    PROVE  popup'.doc = popup.doc /\ popup'.kind = popup.kind
<1> USE DEF AskedInv
<1>1. calls \in Seq(ToSet(calls)) /\ Len(calls) \in Nat /\ DOMAIN calls = 1 .. Len(calls)
  BY DEF CallsInv
<1>2. \A k \in 1 .. Len(calls) : calls[k].doc \in Doc
  BY <1>1 DEF CallsInv, GoodCall, ToSet
<1>3. CASE popup' = popup
  BY <1>3
<1>4. ASSUME NEW T, NEW cs \in Seq(T), calls' = calls \o cs PROVE FALSE
  BY <1>4, NoneGone
<1>5. UNCHANGED calls => FALSE
  <2>1. <<>> \in Seq({}) /\ calls \o <<>> = calls
    BY <1>1
  <2> QED BY <1>4, <2>1
<1>6. ASSUME NEW j \in 1 .. Len(calls), WithoutCall(j) = WithoutCall(i)
      PROVE  calls[j] = calls[i]
  <2>1. i < j \/ j < i \/ i = j
    BY <1>1
  <2> QED BY <1>1, <1>6, <2>1, RemoveAtEither DEF WithoutCall
<1>7. CASE UNCHANGED vars
  BY <1>3, <1>7 DEF vars, shownVars
<1>8. ASSUME NEW d \in Doc,
             OpenDocument(d) \/ Activate(d) \/ Edit(d) \/ UpdateIdle(d) \/ CloseDocument(d)
      PROVE  popup' = popup
  <2>1. CASE OpenDocument(d) \/ Activate(d)
    <3>1. calls' = calls \o (IF server.running THEN Queries(d, tokens) ELSE <<>>)
      BY <2>1 DEF OpenDocument, Activate, Visible, Ask, MakeCalls
    <3>2. \E T : (IF server.running THEN Queries(d, tokens) ELSE <<>>) \in Seq(T)
      BY QueriesAreCalls
    <3> QED BY <1>4, <3>1, <3>2
  <2>2. CASE Edit(d)
    <3>1. d = current => \E cs : calls' = calls \o cs /\ (cs = <<>> \/ \E c : cs = <<c>>)
      BY <2>2 DEF Edit, MakeCalls, CompletionCall
    <3>2. d # current => UNCHANGED popup
      BY <2>2 DEF Edit
    <3>3. ASSUME NEW cs, cs = <<>> \/ \E c : cs = <<c>> PROVE \E T : cs \in Seq(T)
      <4>1. CASE cs = <<>>
        BY <4>1
      <4>2. ASSUME NEW c, cs = <<c>> PROVE \E T : cs \in Seq(T)
        <5>1. cs \in Seq({c})
          BY <4>2
        <5> QED BY <5>1
      <4> QED BY <3>3, <4>1, <4>2
    <3> QED BY <1>4, <3>1, <3>2, <3>3
  <2>3. CASE UpdateIdle(d)
    BY <2>3 DEF UpdateIdle
  <2>4. CASE CloseDocument(d)
    BY <1>5, <2>4 DEF CloseDocument
  <2> QED BY <1>8, <2>1, <2>2, <2>3, <2>4
<1>9. CASE ServerInitialized
  <2>1. popup' = popup
    BY <1>9 DEF ServerInitialized, Visible, PopupSwitched
  <2> QED BY <1>3, <2>1
<1>10. CASE ServerCrashed
  <2>1. Len(calls) = 1
    <3>1. calls' = <<>>
      BY <1>10 DEF ServerCrashed
    <3>2. Len(WithoutCall(i)) = Len(calls) - 1
      BY <1>1, RemoveAtProperties DEF WithoutCall
    <3>3. Len(<<>>) = 0
      OBVIOUS
    <3>4. Len(calls) - 1 = 0 /\ Len(calls) \in Nat
      BY <1>1, <3>1, <3>2, <3>3
    <3> DEFINE n == Len(calls)
    <3> HIDE DEF n
    <3>5. n - 1 = 0 /\ n \in Nat
      BY <3>4 DEF n
    <3>6. n = 1
      BY <3>5
    <3> QED BY <3>6 DEF n
  <2>2. \A k \in 1 .. Len(calls) : HoverShown(calls[k], FALSE) = popup
    BY <1>2, <2>1 DEF HoverShown
  <2>3. popup' = popup
    BY <1>10, <2>2 DEF ServerCrashed, PopupFailed
  <2> QED BY <1>3, <2>3
<1>11. CASE FreeServer \/ ServerTells \/ UserSwitchesPage \/ HighlightMoves \/ UserCompletes
            \/ UserSelects \/ UserExpandsSelection
  BY <1>3, <1>11 DEF FreeServer, ServerTells, UserSwitchesPage, HighlightMoves, UserCompletes,
                     UserSelects, UserExpandsSelection, shownVars
<1>12. ASSUME NEW j \in 1 .. MaxCalls, Answer(j) PROVE popup' = popup
  <2>1. calls[j] = calls[i] /\ calls[j].doc \in Doc
    BY <1>2, <1>6, <1>12 DEF Answer, Answerable
  <2>2. \A text : HoverShown(calls[j], text) = popup
    BY <2>1 DEF HoverShown
  <2> QED BY <1>12, <2>1, <2>2 DEF Answer, TokensAnswer, SymbolsAnswer, LensAnswer,
             HighlightAnswer, CompletionAnswer, SelectionAnswer, PopupAnswer, HoverAnswered, shownVars
<1>13. ASSUME NEW j \in 1 .. MaxCalls, Refuse(j) PROVE popup' = popup
  <2>1. calls[j] = calls[i] /\ calls[j].doc \in Doc
    BY <1>2, <1>6, <1>13 DEF Refuse, Answerable
  <2>2. HoverShown(calls[j], FALSE) = popup
    BY <2>1 DEF HoverShown
  <2> DEFINE c == calls[j]
  <2>3. popup' = PopupFailed(<<c>>) /\ HoverShown(c, FALSE) = popup
    BY <1>13, <2>2 DEF Refuse
  <2> HIDE DEF c
  <2>4. PopupFailed(<<c>>) = popup
    <3>1. \A k \in 1 .. Len(<<c>>) : <<c>>[k] = c
      OBVIOUS
    <3> QED BY <2>3, <3>1 DEF PopupFailed
  <2> QED BY <2>3, <2>4
<1>14. CASE UserMovesPopup
  <2>1. CASE SignatureRequest(TRUE) \/ HoverPopup
    BY <1>3, <2>1 DEF SignatureRequest, HoverPopup
  <2>2. CASE SignatureRequest(FALSE)
    <3>1. calls' = calls \o <<>>
      BY <2>2 DEF SignatureRequest, MakeCalls
    <3>2. <<>> \in Seq({})
      OBVIOUS
    <3> QED BY <1>4, <3>1, <3>2
  <2>3. CASE DwellExpired
    <3> DEFINE p == [popup EXCEPT !.dwell = NULL]
    <3>1. p.doc = popup.doc /\ p.kind = popup.kind
      BY DEF PopupInv, Over
    <3>2. ShowingSignature(p, current)
      BY <3>1 DEF ShowingSignature
    <3>3. popup' = p
      BY <2>3, <3>2 DEF DwellExpired
    <3> QED BY <3>1, <3>3
  <2> QED BY <1>5, <1>14, <2>1, <2>2, <2>3 DEF UserMovesPopup, PopupMoves, Motion, Leave, Escape, Focus
<1> QED
  BY <1>3, <1>7, <1>8, <1>9, <1>10, <1>11, <1>12, <1>13, <1>14 DEF Next

\* Signatures are driven by the keyboard: no movement of the mouse, no timer of it, and no
\* answer to what it asked for, takes a signature away or puts a hover text in its place.
THEOREM SignaturesStay == Spec => SignatureKept
<1>1. ASSUME PopupInv, ShowingSignature(popup, current),
             Motion \/ DwellExpired \/ \E inside \in BOOLEAN : Leave(inside)
      PROVE  popup'.doc = popup.doc /\ popup'.kind = popup.kind
  <2> DEFINE p == [popup EXCEPT !.dwell = NULL]
  <2>1. p.doc = popup.doc /\ p.kind = popup.kind
    BY DEF PopupInv, Over
  <2>2. ShowingSignature(p, current)
    BY <1>1, <2>1 DEF ShowingSignature
  <2>3. CASE Motion
    BY <2>3 DEF Motion, PopupInv, Over
  <2>4. CASE DwellExpired
    BY <2>1, <2>2, <2>4 DEF DwellExpired
  <2>5. CASE \E inside \in BOOLEAN : Leave(inside)
    BY <2>1, <2>2, <2>5 DEF Leave
  <2> QED BY <1>1, <2>3, <2>4, <2>5
<1>2. AskedInv /\ PopupInv /\ [Next]_vars =>
         [LET mouse == \/ Motion \/ DwellExpired \/ \E inside \in BOOLEAN : Leave(inside)
                       \/ \E i \in 1 .. Len(calls) :
                             /\ calls[i].method = "hover" /\ ~calls[i].arg
                             /\ calls' = WithoutCall(i)
          IN mouse /\ ShowingSignature(popup, current)
                 => popup'.doc = popup.doc /\ popup'.kind = popup.kind]_popup
  BY <1>1, MouseAnswered
<1> QED
  BY <1>2, AskedAlways, PopupAlways, PTL DEF Spec, SignatureKept

-----------------------------------------------------------------------------
(* The calls for whole texts *)

\* The last call for a document has its text, unless the timer of on_update_idle() runs,
\* which makes another.
QueriesInv ==
    server.running =>
        \A m \in QueryMethod : \A d \in server.open_docs :
            ~doc[d].timer => \A c \in LastCalls(calls, m, d) : c.text = doc[d].text

\* A step that leaves the documents and makes no such call.
LEMMA QueriesSame ==
    ASSUME QueriesInv, UNCHANGED <<doc, server>>,
           \A m \in QueryMethod : \A d \in Doc :
               LastCalls(calls', m, d) \in {LastCalls(calls, m, d), {}},
           server \in ServerType
    PROVE  QueriesInv'
<1>1. \A d \in server.open_docs : d \in Doc
  BY DEF ServerType
<1> QED
  BY <1>1 DEF QueriesInv

LEMMA OnlyOfOthers ==
    ASSUME QueriesInv, UNCHANGED <<doc, server>>, NEW n, n \notin QueryMethod, OnlyOf(n),
           server \in ServerType
    PROVE  QueriesInv'
BY QueriesSame DEF OnlyOf

\* Where a method is switched off, no call of it waits.
LEMMA NoneOff ==
    ASSUME CallsInv, NEW m, NEW d, m \in QueryMethod \cup {"highlight"}, m \notin enabled
    PROVE  LastCalls(calls, m, d) = {}
<1> SUFFICES ASSUME NEW c \in LastCalls(calls, m, d) PROVE FALSE
  OBVIOUS
<1>1. Matches(c, m, d) /\ c \in ToSet(calls)
  BY LastMatches DEF CallsInv
<1>2. GoodCall(c)
  BY <1>1 DEF CallsInv
<1> QED
  BY <1>1, <1>2 DEF GoodCall, FeatureOf, Matches, QueryMethod

\* The last calls after those for whole texts were made have the text of their document.
LEMMA QueriesOfText ==
    ASSUME AskedInv, NEW d \in Doc, NEW t, NEW asks, QueriesFor(d, t, asks)
    PROVE  /\ asks => \A m \in QueryMethod : \A c \in LastCalls(calls', m, d) : c.text = doc[d].text
           /\ \A m \in QueryMethod : \A e : e # d => LastCalls(calls', m, e) = LastCalls(calls, m, e)
           /\ \A m, e : m \notin QueryMethod => LastCalls(calls', m, e) = LastCalls(calls, m, e)
           /\ ~asks => \A m, e : LastCalls(calls', m, e) = LastCalls(calls, m, e)
           /\ asks => \A m \in QueryMethod \cap enabled : LastCalls(calls', m, d) # {}
<1>1. \A m, e : LastCalls(calls', m, e)
                   = IF asks /\ e = d /\ m \in QueryMethod \cap enabled THEN {Query(m, d, t)}
                     ELSE LastCalls(calls, m, e)
  BY DEF QueriesFor
<1>2. ASSUME asks, NEW m \in QueryMethod, NEW c \in LastCalls(calls', m, d)
      PROVE  c.text = doc[d].text
  <2>1. CASE m \in enabled
    BY <1>1, <1>2, <2>1 DEF Query, Call
  <2>2. CASE m \notin enabled
    BY <1>1, <1>2, <2>2, NoneOff DEF AskedInv
  <2> QED BY <2>1, <2>2
<1> QED
  BY <1>1, <1>2

\* A document whose text was asked for joins those of which that was true.
LEMMA Queried ==
    ASSUME AskedInv, NEW d \in Doc, NEW t, QueriesFor(d, t, TRUE),
           doc'[d].text = doc[d].text,
           \A e \in Doc : e # d => doc'[e] = doc[e],
           \A e \in server'.open_docs : e \in Doc,
           \A m \in QueryMethod : \A e \in server'.open_docs :
               e # d /\ ~doc[e].timer => \A c \in LastCalls(calls, m, e) : c.text = doc[e].text
    PROVE  QueriesInv'
<1>1. /\ \A m \in QueryMethod : \A c \in LastCalls(calls', m, d) : c.text = doc[d].text
      /\ \A m \in QueryMethod : \A e : e # d => LastCalls(calls', m, e) = LastCalls(calls, m, e)
  BY QueriesOfText
<1> SUFFICES ASSUME NEW m \in QueryMethod, NEW e \in server'.open_docs, ~doc'[e].timer,
                    NEW c \in LastCalls(calls', m, e)
             PROVE  c.text = doc'[e].text
  BY DEF QueriesInv
<1>2. CASE e = d
  BY <1>1, <1>2
<1>3. CASE e # d
  <2>1. doc'[e] = doc[e] /\ c \in LastCalls(calls, m, e)
    BY <1>1, <1>3
  <2> QED BY <1>3, <2>1
<1> QED
  BY <1>2, <1>3

LEMMA QueriesStep ==
    ASSUME AskedInv, QueriesInv, [Next]_vars
    PROVE  QueriesInv'
<1> USE DEF AskedInv
<1>1. /\ server \in ServerType
      /\ \A d \in server.open_docs : d \in Doc /\ doc[d].open
      /\ doc \in [Doc -> [open : BOOLEAN, text : Nat, timer : BOOLEAN]]
      /\ current \in Doc \cup {NULL}
  BY DEF IInv, DocumentsInv, ServerType
<1>2. CASE UNCHANGED <<doc, server, calls>>
  BY <1>1, <1>2, QueriesSame
<1>3. CASE UNCHANGED vars
  BY <1>2, <1>3 DEF vars, documentVars
<1>4. ASSUME NEW d \in Doc, OpenDocument(d) \/ Activate(d) PROVE QueriesInv'
  <2>1. /\ server' = Opened(d)
        /\ doc'[d].text = doc[d].text
        /\ \A e \in Doc : e # d => doc'[e] = doc[e]
    BY <1>1, <1>4 DEF OpenDocument, Activate
  <2>2. QueriesFor(d, tokens, server.running)
    BY <1>4, ShownCalls
  <2>3. server'.running = server.running
        /\ \A e \in server'.open_docs : e = d \/ e \in server.open_docs
    BY <1>1, <2>1 DEF Opened, ServerType
  <2>4. CASE server.running
    <3>1. QueriesFor(d, tokens, TRUE)
      BY <2>2, <2>4 DEF QueriesFor
    <3>2. \A e \in server'.open_docs : e \in Doc /\ (e = d \/ e \in server.open_docs)
      BY <1>1, <2>3
    <3>3. \A m \in QueryMethod : \A e \in server'.open_docs :
             e # d /\ ~doc[e].timer => \A c \in LastCalls(calls, m, e) : c.text = doc[e].text
      BY <2>4, <3>2 DEF QueriesInv
    <3> QED BY <2>1, <3>1, <3>2, <3>3, Queried
  <2> QED BY <2>3, <2>4 DEF QueriesInv
<1>5. ASSUME NEW d \in Doc, Edit(d) PROVE QueriesInv'
  <2>1. /\ server' = Opened(d)
        /\ server.running => doc'[d].timer
        /\ \A e \in Doc : e # d => doc'[e] = doc[e]
    BY <1>1, <1>5 DEF Edit
  <2>2. server'.running = server.running
        /\ \A e \in server'.open_docs : e = d \/ e \in server.open_docs
    BY <1>1, <2>1 DEF Opened, ServerType
  <2>3. \A m \in QueryMethod : \A e : LastCalls(calls', m, e) = LastCalls(calls, m, e)
    BY <1>5, EditCalls DEF OnlyOf, QueryMethod
  <2> QED BY <1>1, <2>1, <2>2, <2>3 DEF QueriesInv
<1>6. ASSUME NEW d \in Doc, UpdateIdle(d) PROVE QueriesInv'
  <2> DEFINE ask == doc[d].open /\ server.running
  <2>1. /\ server' = IF ask THEN Opened(d) ELSE server
        /\ doc'[d].text = doc[d].text
        /\ \A e \in Doc : e # d => doc'[e] = doc[e]
    BY <1>1, <1>6 DEF UpdateIdle
  <2>2. server'.running = server.running
        /\ \A e \in server'.open_docs : e = d \/ e \in server.open_docs
    BY <1>1, <2>1 DEF Opened, ServerType
  <2>3. QueriesFor(d, tokens, ask)
    BY <1>6, UpdateIdleCalls
  <2>4. server.running /\ ~ask => d \notin server'.open_docs
    BY <1>1, <2>1
  <2> HIDE DEF ask
  <2>5. CASE ask
    <3>1. QueriesFor(d, tokens, TRUE) /\ server.running
      BY <2>3, <2>5 DEF QueriesFor, ask
    <3>2. \A e \in server'.open_docs : e \in Doc /\ (e = d \/ e \in server.open_docs)
      BY <1>1, <2>2
    <3>3. \A m \in QueryMethod : \A e \in server'.open_docs :
             e # d /\ ~doc[e].timer => \A c \in LastCalls(calls, m, e) : c.text = doc[e].text
      BY <3>1, <3>2 DEF QueriesInv
    <3> QED BY <2>1, <3>1, <3>2, <3>3, Queried
  <2>6. ~ask => QueriesInv'
    BY <1>1, <2>1, <2>2, <2>3, <2>4, QueriesOfText DEF QueriesInv
  <2> QED BY <2>5, <2>6
<1>7. ASSUME NEW d \in Doc, CloseDocument(d) PROVE QueriesInv'
  <2>1. /\ server'.open_docs = server.open_docs \ {d}
        /\ server'.running = server.running
        /\ \A e \in Doc : e # d => doc'[e] = doc[e]
        /\ calls' = calls
    BY <1>1, <1>7 DEF CloseDocument, ServerType
  <2> QED BY <1>1, <2>1 DEF QueriesInv
<1>8. CASE ServerInitialized
  <2>1. \A m, e : LastCalls(calls, m, e) = {}
    BY <1>8, LastOfNone DEF CallsInv, ServerInitialized
  <2>2. UNCHANGED doc
    BY <1>8 DEF ServerInitialized
  <2>3. CASE current = NULL
    BY <1>8, <2>1, <2>3, InitializedCalls DEF QueriesInv
  <2>4. CASE current # NULL
    <3>1. QueriesFor(current, TokensDestroyed(Doc), TRUE)
      BY <1>8, <2>4, InitializedCalls
    <3>2. \A e \in server'.open_docs : e \in Doc
      <4>1. PICK changed \in SUBSET {d \in Doc : doc[d].open} :
               server'.open_docs = (changed \cup {current}) \ {NULL}
        BY <1>1, <1>8 DEF ServerInitialized, ServerType
      <4> QED BY <1>1, <4>1
    <3> QED BY <1>1, <2>1, <2>2, <2>4, <3>1, <3>2, Queried
  <2> QED BY <2>3, <2>4
<1>9. CASE ServerCrashed
  BY <1>9, CrashedCalls DEF QueriesInv
<1>10. CASE FreeServer
  <2>1. /\ server'.open_docs = server.open_docs
        /\ server'.running = server.running
        /\ UNCHANGED <<doc, calls>>
    BY <1>1, <1>10 DEF FreeServer, ServerType
  <2> QED BY <2>1 DEF QueriesInv
<1>11. ASSUME NEW i \in 1 .. MaxCalls, Answer(i) \/ Refuse(i) PROVE QueriesInv'
  <2>1. UNCHANGED <<enabled, doc, server>> /\ Answerable(i) /\ calls' = WithoutCall(i)
    BY <1>11 DEF Answer, Refuse
  <2>2. \A m, d : m # "completion" => LastCalls(calls', m, d) \in {LastCalls(calls, m, d), {}}
    BY <2>1, CallsAnswered
  <2> QED BY <1>1, <2>1, <2>2, QueriesSame DEF QueryMethod
<1>12. CASE ServerTells \/ UserSwitchesPage
  BY <1>2, <1>12 DEF ServerTells, UserSwitchesPage, documentVars
<1>13. CASE HighlightMoves
  BY <1>1, <1>13, HighlightMovesCalls, OnlyOfOthers DEF HighlightMoves, QueryMethod
<1>14. CASE UserMovesPopup
  BY <1>1, <1>14, PopupCalls, OnlyOfOthers DEF UserMovesPopup, QueryMethod
<1>15. CASE UserExpandsSelection
  BY <1>1, <1>15, SelectionCalls, OnlyOfOthers DEF UserExpandsSelection, QueryMethod
<1>16. CASE UserCompletes
  BY <1>1, <1>16, UserCompletesCalls, OnlyOfOthers DEF UserCompletes, QueryMethod
<1>17. CASE UserSelects
  <2>1. /\ current \in Doc /\ server' = Opened(current)
        /\ doc'[current].timer
        /\ \A e \in Doc : e # current => doc'[e] = doc[e]
        /\ calls' = calls
    BY <1>1, <1>17 DEF UserSelects
  <2>2. server'.running = server.running
        /\ \A e \in server'.open_docs : e = current \/ e \in server.open_docs
    BY <1>1, <2>1 DEF Opened, ServerType
  <2> QED BY <1>1, <2>1, <2>2 DEF QueriesInv
<1> QED
  BY <1>3, <1>4, <1>5, <1>6, <1>7, <1>8, <1>9, <1>10, <1>11, <1>12, <1>13, <1>14, <1>15, <1>16, <1>17
     DEF Next

\* When no call for a document is left, the one that was answered was the last for it, or
\* there was none and it was for another.
LEMMA LastAnswered ==
    ASSUME AskedInv, UNCHANGED <<enabled, server>>, NEW i, Answerable(i), calls' = WithoutCall(i),
           NEW m, m # "completion", NEW d, LastCalls(calls', m, d) = {}
    PROVE  \/ LastCalls(calls, m, d) = {} /\ ~Matches(calls[i], m, d)
           \/ LastCalls(calls, m, d) = {calls[i]} /\ Matches(calls[i], m, d)
<1>1. \/ LastCalls(calls', m, d) = LastCalls(calls, m, d)
      \/ LastCalls(calls, m, d) = {calls[i]} /\ Matches(calls[i], m, d)
  BY CallsAnswered DEF AskedInv
<1>2. Matches(calls[i], m, d) => LastCalls(calls, m, d) # {}
  BY SomeWaits DEF AskedInv, CallsInv, Answerable
<1> QED
  BY <1>1, <1>2

-----------------------------------------------------------------------------
(* The symbols *)

\* The page shows what is cached for the current document.
PageOf(s, cur) ==
    cur # NULL /\ s.page /\ s.cached[cur] # NULL =>
        IF s.cached[cur] \in Bare THEN s.child = Default
        ELSE s.child = cur /\ s.rows[cur] = s.cached[cur]

SymbolsRecord == [cached : [Doc -> Nat \cup {NULL}], rows : [Doc -> Nat \cup {NULL}],
                  page : BOOLEAN, child : Doc \cup {Default}, none : SUBSET Doc]

\* What is cached for the current document is of its text, or it was asked for, or the
\* last answer was null.
SymbolsKnown ==
    server.running /\ current # NULL /\ LastCalls(calls, "symbols", current) = {}
                   /\ "symbols" \in enabled /\ ~doc[current].timer
        => symbols.cached[current] \in {NULL, doc[current].text} \/ current \in symbols.none

SymbolsInv ==
    /\ symbols \in SymbolsRecord
    /\ "symbols" \notin enabled => \A d \in Doc : symbols.cached[d] = NULL
    /\ PageOf(symbols, current)
    /\ SymbolsKnown

\* The page is made anew from what is cached.
LEMMA Refreshed ==
    ASSUME NEW s \in SymbolsRecord, NEW cur \in Doc \cup {NULL}
    PROVE  /\ TreeRefresh(s, cur) \in SymbolsRecord
           /\ TreeRefresh(s, cur).cached = s.cached /\ TreeRefresh(s, cur).none = s.none
           /\ PageOf(TreeRefresh(s, cur), cur)
BY DocAssumption DEF SymbolsRecord, TreeRefresh, PageOf

LEMMA Forgotten ==
    ASSUME NEW s \in SymbolsRecord, NEW cur \in Doc \cup {NULL}, PageOf(s, cur), NEW ds
    PROVE  /\ SymbolsForgotten(s, ds) \in SymbolsRecord
           /\ \A d \in Doc : SymbolsForgotten(s, ds).cached[d] \in {NULL, s.cached[d]}
           /\ PageOf(SymbolsForgotten(s, ds), cur)
           /\ \A d \in Doc \ ds : SymbolsForgotten(s, ds).cached[d] = s.cached[d]
           /\ SymbolsForgotten(s, ds).none = s.none
<1> DEFINE f == [d \in Doc |-> IF d \in ds THEN NULL ELSE s.cached[d]]
<1>1. f \in [Doc -> Nat \cup {NULL}]
  BY DEF SymbolsRecord
<1>2. \A d \in Doc : f[d] \in {NULL, s.cached[d]} /\ (d \notin ds => f[d] = s.cached[d])
  OBVIOUS
<1>3. SymbolsForgotten(s, ds) = [s EXCEPT !.cached = f]
  BY DEF SymbolsForgotten, SymbolsRecord
<1> HIDE DEF f
<1> QED
  BY <1>1, <1>2, <1>3, DocAssumption DEF SymbolsRecord, PageOf

LEMMA SymbolsClosedKept ==
    ASSUME NEW s \in SymbolsRecord, NEW cur \in Doc \cup {NULL}, PageOf(s, cur), NEW d \in Doc
    PROVE  /\ SymbolsClosed(s, d) \in SymbolsRecord
           /\ \A e \in Doc : SymbolsClosed(s, d).cached[e] \in {NULL, s.cached[e]}
           /\ cur # d => PageOf(SymbolsClosed(s, d), cur)
           /\ cur # d /\ cur # NULL => SymbolsClosed(s, d).cached[cur] = s.cached[cur]
           /\ cur # d /\ cur \in s.none => cur \in SymbolsClosed(s, d).none
<1> DEFINE t == SymbolsForgotten(s, {d})
<1>1. /\ t \in SymbolsRecord /\ PageOf(t, cur)
      /\ \A e \in Doc : t.cached[e] \in {NULL, s.cached[e]}
      /\ \A e \in Doc \ {d} : t.cached[e] = s.cached[e]
      /\ t.none = s.none
  BY Forgotten
<1> HIDE DEF t
<1> DEFINE rows == [t.rows EXCEPT ![d] = NULL]
           child == IF t.child = d THEN Default ELSE t.child
           none == t.none \ {d}
<1>2. /\ SymbolsClosed(s, d) = [t EXCEPT !.rows = rows, !.child = child, !.none = none]
      /\ rows \in [Doc -> Nat \cup {NULL}] /\ child \in Doc \cup {Default}
      /\ \A e \in Doc : e # d => rows[e] = t.rows[e]
      /\ child = IF t.child = d THEN Default ELSE t.child
      /\ none \in SUBSET Doc
  BY <1>1 DEF SymbolsClosed, t, SymbolsRecord
<1> HIDE DEF rows, child
<1>3. /\ SymbolsClosed(s, d) \in SymbolsRecord
      /\ SymbolsClosed(s, d).cached = t.cached
      /\ SymbolsClosed(s, d).page = t.page /\ SymbolsClosed(s, d).none = t.none \ {d}
      /\ SymbolsClosed(s, d).child = IF t.child = d THEN Default ELSE t.child
      /\ \A e \in Doc : e # d => SymbolsClosed(s, d).rows[e] = t.rows[e]
  BY <1>1, <1>2 DEF SymbolsRecord
<1> QED
  BY <1>1, <1>3, DocAssumption DEF PageOf

\* What holds of the current document, whichever it is.
LEMMA CurrentFacts ==
    ASSUME AskedInv
    PROVE  /\ server \in ServerType
           /\ doc \in [Doc -> [open : BOOLEAN, text : Nat, timer : BOOLEAN]]
           /\ current \in Doc \cup {NULL}
           /\ current # NULL => current \in Doc /\ doc[current].open
           /\ server.running /\ current # NULL => current \in server.open_docs
BY DEF AskedInv, IInv, DocumentsInv

\* What is shown is asked for when the server runs.
LEMMA ShownSteps ==
    ASSUME AskedInv, NEW d \in Doc, OpenDocument(d) \/ Activate(d)
    PROVE  /\ current' = d /\ UNCHANGED <<enabled, tokens>>
           /\ server'.running = server.running
           /\ Visible(d, tokens, server.running)
           /\ server.running => \A m \in QueryMethod \cap enabled : LastCalls(calls', m, d) # {}
           /\ \A m, e : m \notin QueryMethod => LastCalls(calls', m, e) = LastCalls(calls, m, e)
           /\ \A m \in QueryMethod : \A e : e # d => LastCalls(calls', m, e) = LastCalls(calls, m, e)
<1>1. server'.running = server.running
  BY CurrentFacts DEF OpenDocument, Activate, Opened, ServerType
<1>2. QueriesFor(d, tokens, server.running)
  BY ShownCalls DEF AskedInv
<1> QED
  BY <1>1, <1>2, QueriesOfText DEF OpenDocument, Activate

LEMMA InitializedSteps ==
    ASSUME AskedInv, ServerInitialized, current # NULL
    PROVE  /\ UNCHANGED <<enabled, current, doc>> /\ server'.running
           /\ Visible(current, TokensDestroyed(Doc), TRUE)
           /\ \A m \in QueryMethod \cap enabled : LastCalls(calls', m, current) # {}
           /\ \A m, e : m \notin QueryMethod => LastCalls(calls', m, e) = {}
           /\ \A m \in QueryMethod : \A e : e # current => LastCalls(calls', m, e) = {}
<1>1. server'.running
  BY CurrentFacts DEF ServerInitialized, ServerType
<1>2. QueriesFor(current, TokensDestroyed(Doc), TRUE)
  BY InitializedCalls DEF AskedInv
<1>3. \A m, e : LastCalls(calls, m, e) = {}
  BY LastOfNone DEF AskedInv, CallsInv, ServerInitialized
<1>4. current \in Doc
  BY CurrentFacts
<1>5. /\ \A m \in QueryMethod : \A e : e # current => LastCalls(calls', m, e) = LastCalls(calls, m, e)
      /\ \A m, e : m \notin QueryMethod => LastCalls(calls', m, e) = LastCalls(calls, m, e)
      /\ \A m \in QueryMethod \cap enabled : LastCalls(calls', m, current) # {}
  BY <1>2, <1>4, QueriesOfText
<1>6. UNCHANGED <<enabled, current, doc>> /\ Visible(current, TokensDestroyed(Doc), TRUE)
  BY DEF ServerInitialized
<1> QED
  BY <1>1, <1>3, <1>5, <1>6, ZenonT(30)


\* When the timer of a document expires while it is open and the server runs, what is
\* drawn from whole texts is asked for.
LEMMA UpdateIdleSteps ==
    ASSUME AskedInv, NEW d \in Doc, UpdateIdle(d)
    PROVE  /\ UNCHANGED <<enabled, current>> /\ server'.running = server.running
           /\ \A e \in Doc : e # d => doc'[e] = doc[e]
           /\ doc[d].open /\ server.running =>
                 \A m \in QueryMethod \cap enabled : LastCalls(calls', m, d) # {}
           /\ \A m, e : m \notin QueryMethod => LastCalls(calls', m, e) = LastCalls(calls, m, e)
           /\ \A m \in QueryMethod : \A e : e # d => LastCalls(calls', m, e) = LastCalls(calls, m, e)
           /\ doc'[d].text = doc[d].text /\ doc'[d].open = doc[d].open
<1> DEFINE ask == doc[d].open /\ server.running
<1>1. QueriesFor(d, tokens, ask)
  BY UpdateIdleCalls DEF AskedInv
<1>2. /\ UNCHANGED <<enabled, current>> /\ server'.running = server.running
      /\ \A e \in Doc : e # d => doc'[e] = doc[e]
      /\ doc'[d].text = doc[d].text /\ doc'[d].open = doc[d].open
  BY CurrentFacts DEF UpdateIdle, Opened, ServerType
<1>3. /\ ask => \A m \in QueryMethod \cap enabled : LastCalls(calls', m, d) # {}
      /\ \A m, e : m \notin QueryMethod => LastCalls(calls', m, e) = LastCalls(calls, m, e)
      /\ \A m \in QueryMethod : \A e : e # d => LastCalls(calls', m, e) = LastCalls(calls, m, e)
  <2> HIDE DEF ask
  <2> QED BY <1>1, QueriesOfText
<1> QED
  BY <1>2, <1>3

\* An edit starts the timer of its document.
LEMMA EditSteps ==
    ASSUME AskedInv, NEW d \in Doc, Edit(d)
    PROVE  /\ UNCHANGED <<enabled, current>> /\ server'.running = server.running
           /\ \A e \in Doc : e # d => doc'[e] = doc[e]
           /\ server.running => doc'[d].timer
           /\ \A m, e : m # "completion" => LastCalls(calls', m, e) = LastCalls(calls, m, e)
<1>1. OnlyOf("completion")
  BY EditCalls DEF AskedInv
<1> QED
  BY <1>1, CurrentFacts DEF Edit, Opened, ServerType, OnlyOf

LEMMA SelectsSteps ==
    ASSUME AskedInv, UserSelects
    PROVE  /\ UNCHANGED <<enabled, current, calls>> /\ server'.running = server.running
           /\ \A e \in Doc : e # current => doc'[e] = doc[e]
           /\ doc'[current].timer
BY CurrentFacts DEF UserSelects, Opened, ServerType

LEMMA CloseSteps ==
    ASSUME AskedInv, NEW d \in Doc, CloseDocument(d)
    PROVE  /\ UNCHANGED <<enabled, calls>> /\ server'.running = server.running
           /\ current' = IF current = d THEN NULL ELSE current
           /\ server'.open_docs = server.open_docs \ {d}
           /\ \A e \in Doc : e # d => doc'[e] = doc[e]
BY CurrentFacts DEF CloseDocument, ServerType

\* A step that leaves the symbols.
LEMMA SymbolsSame ==
    ASSUME SymbolsInv, UNCHANGED <<enabled, current, symbols>>,
           server'.running => server.running,
           \/ current = NULL
           \/ doc'[current].timer
           \/ /\ doc'[current].timer = doc[current].timer
              /\ doc'[current].text = doc[current].text
              /\ LastCalls(calls', "symbols", current) = LastCalls(calls, "symbols", current)
           \/ "symbols" \in enabled => LastCalls(calls', "symbols", current) # {}
    PROVE  SymbolsInv'
BY DEF SymbolsInv, PageOf, SymbolsKnown

LEMMA SymbolsVisible ==
    ASSUME AskedInv, SymbolsInv, NEW d \in Doc, NEW t, NEW running, Visible(d, t, running),
           UNCHANGED enabled, current' = d,
           server'.running /\ "symbols" \in enabled => LastCalls(calls', "symbols", d) # {}
    PROVE  SymbolsInv'
<1>1. symbols' = TreeRefresh(symbols, d)
  BY DEF Visible
<1>2. symbols' \in SymbolsRecord /\ symbols'.cached = symbols.cached /\ symbols'.none = symbols.none
      /\ PageOf(symbols', d)
  BY <1>1, Refreshed DEF SymbolsInv
<1> QED
  BY <1>2 DEF SymbolsInv, SymbolsKnown

\* The page is made anew, of what was cached before.
LEMMA SymbolsRefreshed ==
    ASSUME AskedInv, SymbolsInv, UNCHANGED <<enabled, current>>,
           symbols' \in {symbols, TreeRefresh(symbols, current)}, SymbolsKnown'
    PROVE  SymbolsInv'
<1>1. current \in Doc \cup {NULL}
  BY CurrentFacts
<1>2. symbols' \in SymbolsRecord /\ symbols'.cached = symbols.cached /\ symbols'.none = symbols.none
      /\ PageOf(symbols', current)
  BY <1>1, Refreshed DEF SymbolsInv
<1> QED
  BY <1>2 DEF SymbolsInv

\* The last answer for the current document is of its text.
LEMMA SymbolsAnswerKept ==
    ASSUME AskedInv, QueriesInv, SymbolsInv, NEW i, Answerable(i), calls' = WithoutCall(i),
           UNCHANGED <<enabled, doc, current, server>>, calls[i].method = "symbols",
           NEW result, SymbolsAnswered(calls[i], result)
    PROVE  SymbolsInv'
<1> DEFINE c == calls[i]
           s == IF result = "none" THEN [symbols EXCEPT !.none = @ \cup {c.doc}]
                ELSE [symbols EXCEPT !.cached[c.doc] = c.text, !.none = @ \ {c.doc}]
<1>1. GoodCall(c) /\ c.doc \in Doc /\ c.text \in Nat /\ "symbols" \in enabled
  <2>1. c \in ToSet(calls)
    BY CallsAnswered DEF AskedInv
  <2> QED BY <2>1 DEF AskedInv, CallsInv, GoodCall, FeatureOf
<1>2. CASE c.doc # current
  <2>1. symbols' = symbols
    BY <1>2 DEF SymbolsAnswered
  <2>2. LastCalls(calls', "symbols", current) = {} => LastCalls(calls, "symbols", current) = {}
    BY <1>2, LastAnswered DEF Matches
  <2> QED BY <2>1, <2>2 DEF SymbolsInv, SymbolsKnown, PageOf
<1>3. CASE c.doc = current
  <2>1. symbols' = TreeRefresh(s, current)
    BY <1>3 DEF SymbolsAnswered
  <2>2. s \in SymbolsRecord /\ (s.cached[current] = c.text \/ current \in s.none)
    BY <1>1, <1>3 DEF SymbolsInv, SymbolsRecord
  <2> HIDE DEF s
  <2>3. symbols' \in SymbolsRecord /\ symbols'.cached = s.cached /\ symbols'.none = s.none
        /\ PageOf(symbols', current)
    BY <1>1, <1>3, <2>1, <2>2, Refreshed
  <2>4. SymbolsKnown'
    <3> SUFFICES ASSUME LastCalls(calls', "symbols", current) = {}, server.running, ~doc[current].timer
                 PROVE  c.text = doc[current].text
      BY <2>2, <2>3 DEF SymbolsKnown
    <3>1. LastCalls(calls, "symbols", current) = {c}
      BY <1>3, LastAnswered DEF Matches
    <3>2. current \in server.open_docs
      BY <1>1, <1>3, CurrentFacts, DocAssumption
    <3> QED BY <3>1, <3>2 DEF QueriesInv, QueryMethod
  <2> QED BY <1>1, <2>3, <2>4 DEF SymbolsInv
<1> QED
  BY <1>2, <1>3

\* A call is refused only when its text is none of the document any more: so it was not
\* the last.
LEMMA SymbolsRefuseKept ==
    ASSUME AskedInv, QueriesInv, SymbolsInv, NEW i \in 1 .. MaxCalls, Refuse(i)
    PROVE  SymbolsInv'
<1> DEFINE c == calls[i]
<1>1. symbols' \in {symbols, TreeRefresh(symbols, current)}
  BY DEF Refuse, SymbolsFailed
<1>2. symbols'.cached = symbols.cached /\ symbols'.none = symbols.none
  BY <1>1, Refreshed, CurrentFacts DEF SymbolsInv
<1>3. SymbolsKnown'
  <2> SUFFICES ASSUME LastCalls(calls', "symbols", current) = {}, server.running,
                      ~doc[current].timer, current # NULL
               PROVE  LastCalls(calls, "symbols", current) = {}
    BY <1>2 DEF SymbolsKnown, Refuse, SymbolsInv
  <2>1. CASE LastCalls(calls, "symbols", current) = {c} /\ Matches(c, "symbols", current)
    <3>1. c.text = doc[current].text
      BY <2>1, CurrentFacts DEF QueriesInv, QueryMethod
    <3> QED BY <2>1, <3>1 DEF Refuse, Matches
  <2> QED BY <2>1, LastAnswered DEF Refuse
<1> QED
  BY <1>1, <1>3, SymbolsRefreshed DEF Refuse

LEMMA SymbolsStep ==
    ASSUME AskedInv, QueriesInv, SymbolsInv, [Next]_vars
    PROVE  SymbolsInv'
<1>1. CASE UNCHANGED <<enabled, doc, current, server, calls, symbols>>
  BY <1>1, SymbolsSame
<1>2. CASE UNCHANGED vars
  BY <1>1, <1>2 DEF vars, documentVars, drawnVars
<1>3. ASSUME NEW d \in Doc, OpenDocument(d) \/ Activate(d) PROVE SymbolsInv'
  BY <1>3, ShownSteps, SymbolsVisible DEF QueryMethod
<1>4. ASSUME NEW d \in Doc, Edit(d) PROVE SymbolsInv'
  <2>1. UNCHANGED symbols
    BY <1>4 DEF Edit
  <2>2. CASE server.running
    BY <1>4, <2>1, <2>2, EditSteps, SymbolsSame, CurrentFacts
  <2>3. CASE ~server.running
    BY <1>4, <2>1, <2>3, EditSteps DEF SymbolsInv, SymbolsKnown, PageOf
  <2> QED BY <2>2, <2>3
<1>5. ASSUME NEW d \in Doc, UpdateIdle(d) PROVE SymbolsInv'
  <2>1. UNCHANGED symbols
    BY <1>5 DEF UpdateIdle
  <2>2. CASE server.running
    BY <1>5, <2>1, <2>2, UpdateIdleSteps, SymbolsSame, CurrentFacts DEF QueryMethod
  <2>3. CASE ~server.running
    BY <1>5, <2>1, <2>3, UpdateIdleSteps DEF SymbolsInv, SymbolsKnown, PageOf
  <2> QED BY <2>2, <2>3
<1>6. ASSUME NEW d \in Doc, CloseDocument(d) PROVE SymbolsInv'
  <2>1. symbols' = SymbolsClosed(symbols, d)
    BY <1>6 DEF CloseDocument
  <2>2. /\ symbols' \in SymbolsRecord
        /\ \A e \in Doc : symbols'.cached[e] \in {NULL, symbols.cached[e]}
        /\ current # d => PageOf(symbols', current)
        /\ current # d /\ current # NULL => symbols'.cached[current] = symbols.cached[current]
        /\ current # d /\ current \in symbols.none => current \in symbols'.none
    BY <2>1, SymbolsClosedKept, CurrentFacts DEF SymbolsInv
  <2>3. CASE d = current
    BY <1>6, <2>2, <2>3, CloseSteps DEF SymbolsInv, SymbolsKnown, PageOf
  <2>4. CASE d # current
    BY <1>6, <2>2, <2>4, CloseSteps, CurrentFacts DEF SymbolsInv, SymbolsKnown, PageOf
  <2> QED BY <2>3, <2>4
<1>7. CASE ServerInitialized
  <2>1. CASE current = NULL
    BY <1>7, <2>1 DEF ServerInitialized, SymbolsInv, SymbolsKnown, PageOf
  <2>2. CASE current # NULL
    BY <1>7, <2>2, InitializedSteps, SymbolsVisible, CurrentFacts DEF QueryMethod
  <2> QED BY <2>1, <2>2
<1>8. CASE ServerCrashed
  <2>1. SymbolsKnown'
    BY <1>8 DEF ServerCrashed, SymbolsKnown
  <2> QED BY <1>8, <2>1, SymbolsRefreshed DEF ServerCrashed, SymbolsFailed
<1>9. CASE FreeServer
  <2>1. symbols' = SymbolsForgotten(symbols, server.unfreed)
    BY <1>9 DEF FreeServer
  <2>2. /\ symbols' \in SymbolsRecord
        /\ \A d \in Doc : symbols'.cached[d] \in {NULL, symbols.cached[d]}
        /\ PageOf(symbols', current) /\ symbols'.none = symbols.none
    BY <2>1, Forgotten, CurrentFacts DEF SymbolsInv
  <2>3. server'.running = server.running /\ UNCHANGED <<enabled, doc, current, calls>>
    BY <1>9, CurrentFacts DEF FreeServer, ServerType
  <2> QED BY <2>2, <2>3, CurrentFacts DEF SymbolsInv, SymbolsKnown
<1>10. ASSUME NEW i \in 1 .. MaxCalls, Answer(i) PROVE SymbolsInv'
  <2>1. /\ UNCHANGED <<enabled, doc, current, server>>
        /\ Answerable(i) /\ calls' = WithoutCall(i)
    BY <1>10 DEF Answer
  <2>2. CASE SymbolsAnswer(i)
    BY <2>1, <2>2, SymbolsAnswerKept DEF SymbolsAnswer
  <2>3. CASE ~SymbolsAnswer(i)
    <3>1. UNCHANGED symbols /\ calls[i].method # "symbols"
      BY <1>10, <2>3 DEF Answer, TokensAnswer, LensAnswer, HighlightAnswer, CompletionAnswer,
         SelectionAnswer, PopupAnswer, drawnVars
    <3>2. LastCalls(calls', "symbols", current) = {} => LastCalls(calls, "symbols", current) = {}
      BY <2>1, <3>1, LastAnswered DEF Matches
    <3> QED BY <2>1, <3>1, <3>2 DEF SymbolsInv, SymbolsKnown, PageOf
  <2> QED BY <2>2, <2>3
<1>11. ASSUME NEW i \in 1 .. MaxCalls, Refuse(i) PROVE SymbolsInv'
  BY <1>11, SymbolsRefuseKept
<1>12. CASE ServerTells
  BY <1>1, <1>12 DEF ServerTells, documentVars, drawnVars
<1>13. CASE UserSwitchesPage
  <2> DEFINE s == [symbols EXCEPT !.page = ~@]
  <2>1. s \in SymbolsRecord /\ s.cached = symbols.cached /\ s.none = symbols.none
    BY DEF SymbolsInv, SymbolsRecord
  <2>2. /\ symbols' = TreeRefresh(s, current)
        /\ UNCHANGED <<enabled, doc, current, server, calls>>
    BY <1>13 DEF UserSwitchesPage, SwitchPage, documentVars
  <2> HIDE DEF s
  <2>3. symbols' \in SymbolsRecord /\ symbols'.cached = symbols.cached /\ symbols'.none = symbols.none
      /\ PageOf(symbols', current)
    BY <2>1, <2>2, Refreshed, CurrentFacts
  <2> QED BY <2>2, <2>3 DEF SymbolsInv, SymbolsKnown
<1>14. CASE HighlightMoves \/ UserMovesPopup \/ UserExpandsSelection \/ UserCompletes
  <2>1. UNCHANGED <<enabled, doc, current, server, symbols>>
    BY <1>14 DEF HighlightMoves, UserMovesPopup, UserExpandsSelection, UserCompletes, drawnVars
  <2>2. LastCalls(calls', "symbols", current) = LastCalls(calls, "symbols", current)
    BY <1>14, HighlightMovesCalls, PopupCalls, SelectionCalls, UserCompletesCalls DEF OnlyOf, AskedInv
  <2> QED BY <2>1, <2>2, SymbolsSame
<1>15. CASE UserSelects
  BY <1>15, SelectsSteps, SymbolsSame DEF UserSelects
<1> QED
  BY <1>2, <1>3, <1>4, <1>5, <1>6, <1>7, <1>8, <1>9, <1>10, <1>11, <1>12, <1>13, <1>14, <1>15 DEF Next

LEMMA QueriesAlways == Spec => []QueriesInv
<1>1. Init => QueriesInv
  BY DEF Init, DocumentsInit, QueriesInv
<1>2. AskedInv /\ QueriesInv /\ [Next]_vars => QueriesInv'
  BY QueriesStep
<1> QED
  BY <1>1, <1>2, AskedAlways, PTL DEF Spec

LEMMA SymbolsAlways == Spec => []SymbolsInv
<1>1. Init => SymbolsInv
  BY DEF Init, DocumentsInit, SymbolsInit, SymbolsInv, SymbolsRecord, PageOf, SymbolsKnown
<1>2. AskedInv /\ QueriesInv /\ SymbolsInv /\ [Next]_vars => SymbolsInv'
  BY SymbolsStep
<1> QED
  BY <1>1, <1>2, AskedAlways, QueriesAlways, PTL DEF Spec

\* The sidebar shows the symbols that are cached for the current document, which are
\* those of its text once nothing is under way, unless the last answer was null: for any
\* documents and texts, however the answers, the edits and the crashes of servers fall
\* together.
THEOREM SymbolsOfText == Spec => []SymbolsShown
<1>1. AskedInv /\ SymbolsInv => SymbolsShown
  <2> SUFFICES ASSUME AskedInv, SymbolsInv, current # NULL, symbols.cached[current] # NULL,
                      Settled("symbols", current)
               PROVE  symbols.cached[current] = doc[current].text \/ current \in symbols.none
    BY DEF SymbolsInv, PageOf, SymbolsShown
  <2>1. LastCalls(calls, "symbols", current) = {}
    BY PendingIsLast DEF AskedInv, Settled
  <2>2. "symbols" \in enabled
    BY CurrentFacts DEF SymbolsInv
  <2> QED BY <2>1, <2>2 DEF SymbolsInv, SymbolsKnown, Settled
<1> QED
  BY <1>1, AskedAlways, SymbolsAlways, PTL

-----------------------------------------------------------------------------
(* The code lenses *)

\* The lenses of the current document are drawn and can be run, or they were asked for,
\* or the last answer was null.
LensKnown ==
    server.running /\ current # NULL /\ LastCalls(calls, "lens", current) = {}
                   /\ "lens" \in enabled /\ ~doc[current].timer /\ current \notin lens.none
        => /\ lens.drawn[current] = doc[current].text
           /\ lens.asked = current =>
                 [doc |-> current, text |-> doc[current].text] \in ToSet(lens.commands)

LensRecord == [drawn : [Doc -> Nat \cup {NULL}], commands : Seq([doc : Doc, text : Nat]),
               asked : Doc \cup {NULL}, none : SUBSET Doc]

LensInv == lens \in LensRecord /\ LensKnown

\* A request for another document empties the list, and says so.
LEMMA LensRequestedKept ==
    ASSUME lens \in LensRecord, NEW d \in Doc
    PROVE  /\ LensRequested(lens, d) \in LensRecord
           /\ LensRequested(lens, d).drawn = lens.drawn
           /\ LensRequested(lens, d).none = lens.none
           /\ LensRequested(lens, d) = lens \/ LensRequested(lens, d).asked = d
<1>1. <<>> \in Seq([doc : Doc, text : Nat])
  OBVIOUS
<1> QED
  BY <1>1 DEF LensRecord, LensRequested

LEMMA LensSame ==
    ASSUME LensInv, UNCHANGED <<enabled, current, lens>>,
           server'.running => server.running,
           \/ current = NULL
           \/ doc'[current].timer
           \/ /\ doc'[current].timer = doc[current].timer
              /\ doc'[current].text = doc[current].text
              /\ LastCalls(calls', "lens", current) = LastCalls(calls, "lens", current)
    PROVE  LensInv'
BY DEF LensInv, LensKnown

LEMMA LensAnswerKept ==
    ASSUME AskedInv, QueriesInv, LensInv, NEW i, Answerable(i), calls' = WithoutCall(i),
           UNCHANGED <<enabled, doc, current, server>>, calls[i].method = "lens",
           NEW result, LensAnswered(calls[i], result)
    PROVE  LensInv'
<1> DEFINE c == calls[i]
           l == [doc |-> c.doc, text |-> c.text]
<1>1. c.doc \in Doc /\ c.text \in Nat /\ l \in [doc : Doc, text : Nat]
  <2>1. c \in ToSet(calls)
    BY CallsAnswered DEF AskedInv
  <2> QED BY <2>1 DEF AskedInv, CallsInv, GoodCall
<1>2. \/ LastCalls(calls', "lens", current) # {}
      \/ LastCalls(calls, "lens", current) = {} /\ c.doc # current
      \/ LastCalls(calls, "lens", current) = {c} /\ c.doc = current
  BY LastAnswered DEF Matches
<1>3. CASE ~(doc[c.doc].open /\ server.running)
  <2>1. lens' = lens
    BY <1>3 DEF LensAnswered
  <2>2. server.running => c.doc # current
    BY <1>1, <1>3, CurrentFacts, DocAssumption
  <2> QED BY <1>2, <2>1, <2>2 DEF LensInv, LensKnown
<1>4. CASE doc[c.doc].open /\ server.running /\ result = "none"
  <2> DEFINE none == lens.none \cup {c.doc}
  <2>1. lens' = [lens EXCEPT !.none = none]
    BY <1>4 DEF LensAnswered
  <2>2. /\ lens' \in LensRecord /\ lens'.none = none /\ lens'.drawn = lens.drawn
        /\ lens'.commands = lens.commands /\ lens'.asked = lens.asked
    BY <1>1, <2>1 DEF LensInv, LensRecord
  <2> QED BY <1>2, <2>2 DEF LensInv, LensKnown
<1>5. CASE doc[c.doc].open /\ server.running /\ result # "none"
  <2> DEFINE drawn == [lens.drawn EXCEPT ![c.doc] = c.text]
             commands == Append(lens.commands, l)
             none == lens.none \ {c.doc}
  <2>1. lens' = [lens EXCEPT !.drawn = drawn, !.none = none, !.commands = commands]
    BY <1>5 DEF LensAnswered
  <2>2. /\ drawn \in [Doc -> Nat \cup {NULL}]
        /\ drawn[c.doc] = c.text
        /\ \A d \in Doc : d # c.doc => drawn[d] = lens.drawn[d]
    BY <1>1 DEF LensInv, LensRecord
  <2>3. /\ commands \in Seq([doc : Doc, text : Nat])
        /\ l \in ToSet(commands)
        /\ \A e \in ToSet(lens.commands) : e \in ToSet(commands)
    <3> HIDE DEF l
    <3>1. lens.commands \in Seq([doc : Doc, text : Nat])
      BY DEF LensInv, LensRecord
    <3> DEFINE n == Len(lens.commands)
    <3>2. /\ n \in Nat /\ DOMAIN lens.commands = 1 .. n
          /\ commands \in Seq([doc : Doc, text : Nat]) /\ DOMAIN commands = 1 .. n + 1
          /\ commands[n + 1] = l
          /\ \A k \in 1 .. n : commands[k] = lens.commands[k]
      BY <1>1, <3>1
    <3> HIDE DEF n, commands
    <3>3. n + 1 \in 1 .. n + 1 /\ \A k \in 1 .. n : k \in 1 .. n + 1
      BY <3>2
    <3> QED BY <3>2, <3>3 DEF ToSet
  <2> HIDE DEF drawn, commands
  <2>4. lens'.drawn = drawn /\ lens'.commands = commands /\ lens'.asked = lens.asked
        /\ lens'.none = none /\ lens' \in LensRecord
    BY <2>1, <2>2, <2>3 DEF LensInv, LensRecord
  <2>5. LensKnown'
    <3> SUFFICES ASSUME LastCalls(calls', "lens", current) = {}, server.running, current # NULL,
                        "lens" \in enabled, ~doc[current].timer, current \notin none
                 PROVE  /\ drawn[current] = doc[current].text
                        /\ lens.asked = current =>
                              [doc |-> current, text |-> doc[current].text] \in ToSet(commands)
      BY <2>4 DEF LensKnown
    <3>1. current \in Doc /\ current \in server.open_docs
      BY CurrentFacts
    <3>2. CASE LastCalls(calls, "lens", current) = {} /\ c.doc # current
      BY <2>2, <2>3, <3>1, <3>2 DEF LensInv, LensKnown
    <3>3. CASE LastCalls(calls, "lens", current) = {c} /\ c.doc = current
      <4>1. c.text = doc[current].text
        BY <3>1, <3>3 DEF QueriesInv, QueryMethod
      <4> QED BY <2>2, <2>3, <3>3, <4>1
    <3> QED BY <1>2, <3>2, <3>3
  <2> QED BY <2>4, <2>5 DEF LensInv
<1> QED
  BY <1>3, <1>4, <1>5

LEMMA LensRefuseKept ==
    ASSUME AskedInv, QueriesInv, LensInv, NEW i \in 1 .. MaxCalls, Refuse(i)
    PROVE  LensInv'
<1> DEFINE c == calls[i]
<1>1. LensKnown'
  <2> SUFFICES ASSUME LastCalls(calls', "lens", current) = {}, server.running,
                      ~doc[current].timer, current # NULL
               PROVE  LastCalls(calls, "lens", current) = {}
    BY DEF LensKnown, Refuse, LensInv
  <2>1. CASE LastCalls(calls, "lens", current) = {c} /\ Matches(c, "lens", current)
    <3>1. c.text = doc[current].text
      BY <2>1, CurrentFacts DEF QueriesInv, QueryMethod
    <3> QED BY <2>1, <3>1 DEF Refuse, Matches
  <2> QED BY <2>1, LastAnswered DEF Refuse
<1> QED
  BY <1>1 DEF Refuse, LensInv

LEMMA LensVisible ==
    ASSUME AskedInv, LensInv, NEW d \in Doc, NEW t, NEW running \in BOOLEAN, Visible(d, t, running),
           UNCHANGED enabled, current' = d,
           server'.running /\ "lens" \in enabled => LastCalls(calls', "lens", d) # {}
    PROVE  LensInv'
<1>1. lens' \in LensRecord
  BY LensRequestedKept DEF Visible, LensInv
<1> QED
  BY <1>1 DEF LensInv, LensKnown

LEMMA LensStep ==
    ASSUME AskedInv, QueriesInv, LensInv, [Next]_vars
    PROVE  LensInv'
<1>1. CASE UNCHANGED <<enabled, doc, current, server, calls, lens>>
  BY <1>1, LensSame
<1>2. CASE UNCHANGED vars
  BY <1>1, <1>2 DEF vars, documentVars, drawnVars
<1>3. ASSUME NEW d \in Doc, OpenDocument(d) \/ Activate(d) PROVE LensInv'
  BY <1>3, ShownSteps, LensVisible, CurrentFacts DEF QueryMethod, ServerType
<1>4. ASSUME NEW d \in Doc, Edit(d) PROVE LensInv'
  <2>1. UNCHANGED lens
    BY <1>4 DEF Edit
  <2>2. CASE server.running
    BY <1>4, <2>1, <2>2, EditSteps, LensSame, CurrentFacts
  <2>3. CASE ~server.running
    BY <1>4, <2>1, <2>3, EditSteps DEF LensInv, LensKnown
  <2> QED BY <2>2, <2>3
<1>5. ASSUME NEW d \in Doc, UpdateIdle(d) PROVE LensInv'
  <2>1. lens' \in LensRecord /\ lens'.drawn = lens.drawn /\ lens'.none = lens.none
        /\ (lens' = lens \/ lens'.asked = d)
    BY <1>5, LensRequestedKept DEF UpdateIdle, LensInv
  <2>2. LensKnown'
    <3>1. CASE ~server.running
      BY <1>5, <3>1, UpdateIdleSteps DEF LensKnown
    <3>2. CASE server.running /\ d = current
      BY <1>5, <3>2, UpdateIdleSteps, CurrentFacts DEF LensKnown, QueryMethod
    <3>3. CASE server.running /\ d # current
      BY <1>5, <2>1, <3>3, UpdateIdleSteps, CurrentFacts DEF LensInv, LensKnown, QueryMethod
    <3> QED BY <3>1, <3>2, <3>3
  <2> QED BY <2>1, <2>2 DEF LensInv
<1>6. ASSUME NEW d \in Doc, CloseDocument(d) PROVE LensInv'
  <2>1. lens' = [lens EXCEPT !.drawn[d] = NULL, !.none = @ \ {d}]
    BY <1>6 DEF CloseDocument, LensClosed
  <2>2. /\ lens' \in LensRecord
        /\ lens'.commands = lens.commands /\ lens'.asked = lens.asked
        /\ \A e \in Doc : e # d => lens'.drawn[e] = lens.drawn[e]
        /\ lens'.none = lens.none \ {d}
    BY <2>1 DEF LensInv, LensRecord
  <2> QED BY <1>6, <2>2, CloseSteps, CurrentFacts DEF LensInv, LensKnown
<1>7. CASE ServerInitialized
  <2>1. CASE current = NULL
    BY <1>7, <2>1 DEF ServerInitialized, LensInv, LensKnown
  <2>2. CASE current # NULL
    BY <1>7, <2>2, InitializedSteps, LensVisible, CurrentFacts DEF QueryMethod
  <2> QED BY <2>1, <2>2
<1>8. CASE ServerCrashed
  BY <1>8 DEF ServerCrashed, LensInv, LensKnown
<1>9. CASE FreeServer
  <2>1. server'.running = server.running /\ UNCHANGED <<enabled, doc, current, calls, lens>>
    BY <1>9, CurrentFacts DEF FreeServer, ServerType
  <2> QED BY <2>1, LensSame
<1>10. ASSUME NEW i \in 1 .. MaxCalls, Answer(i) PROVE LensInv'
  <2>1. /\ UNCHANGED <<enabled, doc, current, server>>
        /\ Answerable(i) /\ calls' = WithoutCall(i)
    BY <1>10 DEF Answer
  <2>2. CASE LensAnswer(i)
    BY <2>1, <2>2, LensAnswerKept DEF LensAnswer
  <2>3. CASE ~LensAnswer(i)
    <3>1. UNCHANGED lens /\ calls[i].method # "lens"
      BY <1>10, <2>3 DEF Answer, TokensAnswer, SymbolsAnswer, HighlightAnswer, CompletionAnswer,
         SelectionAnswer, PopupAnswer, drawnVars
    <3>2. LastCalls(calls', "lens", current) = {} => LastCalls(calls, "lens", current) = {}
      BY <2>1, <3>1, LastAnswered DEF Matches
    <3> QED BY <2>1, <3>1, <3>2 DEF LensInv, LensKnown
  <2> QED BY <2>2, <2>3
<1>11. ASSUME NEW i \in 1 .. MaxCalls, Refuse(i) PROVE LensInv'
  BY <1>11, LensRefuseKept
<1>12. CASE ServerTells \/ UserSwitchesPage
  BY <1>1, <1>12 DEF ServerTells, UserSwitchesPage, documentVars, drawnVars
<1>13. CASE HighlightMoves \/ UserMovesPopup \/ UserExpandsSelection \/ UserCompletes
  <2>1. UNCHANGED <<enabled, doc, current, server, lens>>
    BY <1>13 DEF HighlightMoves, UserMovesPopup, UserExpandsSelection, UserCompletes, drawnVars
  <2>2. LastCalls(calls', "lens", current) = LastCalls(calls, "lens", current)
    BY <1>13, HighlightMovesCalls, PopupCalls, SelectionCalls, UserCompletesCalls DEF OnlyOf, AskedInv
  <2> QED BY <2>1, <2>2, LensSame
<1>14. CASE UserSelects
  BY <1>14, SelectsSteps, LensSame DEF UserSelects
<1> QED
  BY <1>2, <1>3, <1>4, <1>5, <1>6, <1>7, <1>8, <1>9, <1>10, <1>11, <1>12, <1>13, <1>14 DEF Next

\* The lenses drawn in the current document are those of its text once nothing is under
\* way, and they can be run, unless another document was asked for last or the last answer
\* was null: for any documents and texts, although one list has the commands of all.
THEOREM LensesRun == Spec => []LensRunnable
<1>1. Init => LensInv
  BY DEF Init, DocumentsInit, LensInit, LensInv, LensRecord, LensKnown
<1>2. AskedInv /\ QueriesInv /\ LensInv /\ [Next]_vars => LensInv'
  BY LensStep
<1>3. AskedInv /\ LensInv => LensRunnable
  <2> SUFFICES ASSUME AskedInv, LensInv, current \in Doc, "lens" \in enabled, Settled("lens", current),
                      current \notin lens.none
               PROVE  /\ lens.drawn[current] = doc[current].text
                      /\ lens.asked = current =>
                            [doc |-> current, text |-> doc[current].text] \in ToSet(lens.commands)
    BY DEF LensRunnable
  <2>1. LastCalls(calls, "lens", current) = {}
    BY PendingIsLast DEF AskedInv, Settled
  <2> QED BY <2>1, DocAssumption DEF LensInv, LensKnown, Settled
<1> QED
  BY <1>1, <1>2, <1>3, AskedAlways, QueriesAlways, PTL DEF Spec

-----------------------------------------------------------------------------
(* Highlighting *)

HighlightRecord == [drawn : [Doc -> Identifier \cup {NULL}], caret : Identifier \cup {NULL},
                    source : BOOLEAN, perform : BOOLEAN, scheduled : BOOLEAN]

\* Where the caret came to rest, its identifier was asked for last, or is drawn.
HighlightKnown ==
    current # NULL /\ server.running /\ highlight.scheduled /\ highlight.caret # NULL
                   /\ ~highlight.source
        => /\ \A c \in LastCalls(calls, "highlight", current) :
                 c.arg = highlight.caret /\ c.text = doc[current].text
           /\ LastCalls(calls, "highlight", current) = {} =>
                 highlight.drawn[current] = highlight.caret

HighlightInv ==
    /\ highlight \in HighlightRecord
    /\ "highlight" \notin enabled => ~highlight.source /\ ~highlight.scheduled
    /\ HighlightKnown

\* A document is drawn with id.
Drawn(h, d, id) == [h EXCEPT !.drawn[d] = id]

LEMMA DrawnKept ==
    ASSUME NEW h \in HighlightRecord, NEW d \in Doc, NEW id \in Identifier \cup {NULL}
    PROVE  /\ Drawn(h, d, id) \in HighlightRecord
           /\ Drawn(h, d, id).drawn[d] = id
           /\ \A e \in Doc : e # d => Drawn(h, d, id).drawn[e] = h.drawn[e]
           /\ Drawn(h, d, id).caret = h.caret /\ Drawn(h, d, id).source = h.source
           /\ Drawn(h, d, id).perform = h.perform /\ Drawn(h, d, id).scheduled = h.scheduled
<1> DEFINE drawn == [h.drawn EXCEPT ![d] = id]
<1>1. /\ drawn \in [Doc -> Identifier \cup {NULL}] /\ drawn[d] = id
      /\ \A e \in Doc : e # d => drawn[e] = h.drawn[e]
  BY DEF HighlightRecord
<1>2. Drawn(h, d, id) = [h EXCEPT !.drawn = drawn]
  BY DEF Drawn
<1> HIDE DEF drawn
<1> QED
  BY <1>1, <1>2 DEF HighlightRecord

\* The caret is at caret, and was not asked for, or was.
At(h, caret, scheduled) == [h EXCEPT !.caret = caret, !.scheduled = scheduled]

LEMMA AtKept ==
    ASSUME NEW h \in HighlightRecord, NEW caret \in Identifier \cup {NULL}, NEW scheduled \in BOOLEAN
    PROVE  /\ At(h, caret, scheduled) \in HighlightRecord
           /\ At(h, caret, scheduled).caret = caret
           /\ At(h, caret, scheduled).scheduled = scheduled
           /\ At(h, caret, scheduled).source = h.source
           /\ At(h, caret, scheduled).drawn = h.drawn
BY DEF At, HighlightRecord

LEMMA HighlightVisible ==
    ASSUME AskedInv, HighlightInv, NEW d \in Doc, NEW t, NEW running \in BOOLEAN,
           Visible(d, t, running), UNCHANGED enabled, current' = d
    PROVE  HighlightInv'
<1>1. PICK caret \in Identifier \cup {NULL} : highlight' = HighlightShown(d, caret, running)
  BY DEF Visible, CaretAt, HighlightInv, HighlightRecord
<1> DEFINE id == IF running THEN NULL ELSE highlight.drawn[d]
<1>2. highlight' = At(Drawn(highlight, d, id), caret, FALSE)
  BY <1>1 DEF HighlightShown, At, Drawn, HighlightInv, HighlightRecord
<1>3. id \in Identifier \cup {NULL}
  BY DEF HighlightInv, HighlightRecord
<1> HIDE DEF id
<1>4. Drawn(highlight, d, id) \in HighlightRecord
      /\ Drawn(highlight, d, id).source = highlight.source
  BY <1>3, DrawnKept DEF HighlightInv
<1>5. highlight' \in HighlightRecord /\ ~highlight'.scheduled
      /\ highlight'.source = highlight.source
  BY <1>2, <1>4, AtKept
<1> QED
  BY <1>5 DEF HighlightInv, HighlightKnown

\* An edit: in the current document the caret is somewhere else, in another one it stays.
LEMMA HighlightEditedKept ==
    ASSUME AskedInv, HighlightInv, NEW d \in Doc, NEW caret \in CaretAt,
           highlight' = HighlightEdited(d, caret),
           UNCHANGED <<enabled, current>>, server'.running = server.running,
           \A e \in Doc : e # d => doc'[e] = doc[e],
           LastCalls(calls', "highlight", current) = LastCalls(calls, "highlight", current)
    PROVE  HighlightInv'
<1> DEFINE g == [Drawn(highlight, d, NULL) EXCEPT !.perform = FALSE]
           h == IF Asks("highlight", <<d>>) # <<>> /\ server.running THEN g ELSE highlight
<1>1. Drawn(highlight, d, NULL) \in HighlightRecord
      /\ Drawn(highlight, d, NULL).caret = highlight.caret
      /\ Drawn(highlight, d, NULL).source = highlight.source
      /\ Drawn(highlight, d, NULL).scheduled = highlight.scheduled
      /\ \A e \in Doc : e # d => Drawn(highlight, d, NULL).drawn[e] = highlight.drawn[e]
  BY DrawnKept DEF HighlightInv
<1>2. g \in HighlightRecord /\ g.caret = highlight.caret /\ g.source = highlight.source
      /\ g.scheduled = highlight.scheduled
      /\ \A e \in Doc : e # d => g.drawn[e] = highlight.drawn[e]
  BY <1>1 DEF HighlightRecord
<1>3. g = [highlight EXCEPT !.drawn[d] = NULL, !.perform = FALSE]
  BY DEF Drawn, HighlightInv, HighlightRecord
<1> HIDE DEF g
<1>4. highlight' = IF d = current THEN At(h, caret, FALSE) ELSE h
  BY <1>3 DEF HighlightEdited, At
<1>5. h \in HighlightRecord /\ h.caret = highlight.caret /\ h.source = highlight.source
      /\ h.scheduled = highlight.scheduled
      /\ \A e \in Doc : e # d => h.drawn[e] = highlight.drawn[e]
  BY <1>2 DEF HighlightInv
<1> HIDE DEF h
<1>6. caret \in Identifier \cup {NULL}
  BY DEF CaretAt
<1>7. CASE d = current
  <2>1. highlight' = At(h, caret, FALSE)
    BY <1>4, <1>7
  <2>2. At(h, caret, FALSE) \in HighlightRecord /\ ~At(h, caret, FALSE).scheduled
        /\ At(h, caret, FALSE).source = h.source
    BY <1>5, <1>6, AtKept
  <2>3. highlight' \in HighlightRecord /\ ~highlight'.scheduled
        /\ highlight'.source = highlight.source
    BY <1>5, <2>1, <2>2
  <2> QED BY <2>3 DEF HighlightInv, HighlightKnown
<1>8. CASE d # current
  <2>1. highlight' = h
    BY <1>4, <1>8
  <2>2. current # NULL => doc'[current] = doc[current] /\ h.drawn[current] = highlight.drawn[current]
    BY <1>5, <1>8, CurrentFacts
  <2> QED BY <1>5, <2>1, <2>2 DEF HighlightInv, HighlightKnown
<1> QED
  BY <1>7, <1>8

\* The last answer for the current document is to the identifier that was asked for last,
\* and its text did not change meanwhile: it highlights what it was asked for.
LEMMA HighlightAnswerKept ==
    ASSUME AskedInv, HighlightInv, NEW i, Answerable(i), calls' = WithoutCall(i),
           UNCHANGED <<enabled, doc, current, server>>, calls[i].method = "highlight",
           NEW found \in BOOLEAN, HighlightAnswered(calls[i], found),
           calls[i].arg \in Identifier
    PROVE  HighlightInv'
<1> DEFINE c == calls[i]
           id == IF found THEN c.arg ELSE NULL
<1>1. c.doc \in Doc
  <2>1. c \in ToSet(calls)
    BY CallsAnswered DEF AskedInv
  <2> QED BY <2>1 DEF AskedInv, CallsInv, GoodCall
<1>2. \/ LastCalls(calls', "highlight", current) = LastCalls(calls, "highlight", current)
      \/ LastCalls(calls', "highlight", current) = {}
  BY CallsAnswered DEF AskedInv
<1>3. \/ LastCalls(calls', "highlight", current) # {}
      \/ LastCalls(calls, "highlight", current) = {} /\ c.doc # current
      \/ LastCalls(calls, "highlight", current) = {c} /\ c.doc = current
  BY LastAnswered DEF Matches
<1>4. CASE c.doc # current
  <2>1. highlight' = highlight
    BY <1>4 DEF HighlightAnswered
  <2> QED BY <1>2, <1>3, <1>4, <2>1 DEF HighlightInv, HighlightKnown
<1>5. CASE c.doc = current
  <2>1. highlight' = Drawn(highlight, c.doc, id) /\ (found \/ c.text # doc[c.doc].text)
    BY <1>5 DEF HighlightAnswered, Drawn
  <2>2. id \in Identifier \cup {NULL} /\ (found => id = c.arg)
    OBVIOUS
  <2> HIDE DEF id
  <2>3. /\ highlight' \in HighlightRecord
        /\ highlight'.drawn[c.doc] = id
        /\ highlight'.caret = highlight.caret /\ highlight'.source = highlight.source
        /\ highlight'.scheduled = highlight.scheduled
    BY <1>1, <2>1, <2>2, DrawnKept DEF HighlightInv
  <2>4. HighlightKnown'
    <3> SUFFICES ASSUME current # NULL, server.running, highlight.scheduled,
                        highlight.caret # NULL, ~highlight.source
                 PROVE  /\ \A b \in LastCalls(calls', "highlight", current) :
                              b.arg = highlight.caret /\ b.text = doc[current].text
                        /\ LastCalls(calls', "highlight", current) = {} => id = highlight.caret
      BY <1>5, <2>3 DEF HighlightKnown
    <3>1. \A b \in LastCalls(calls, "highlight", current) :
             b.arg = highlight.caret /\ b.text = doc[current].text
      BY DEF HighlightInv, HighlightKnown
    <3>2. LastCalls(calls, "highlight", current) = {c} => id = highlight.caret
      BY <1>5, <2>1, <2>2, <3>1
    <3> QED BY <1>2, <1>3, <1>5, <3>1, <3>2
  <2> QED BY <2>3, <2>4 DEF HighlightInv
<1> QED
  BY <1>4, <1>5

\* The calls are for identifiers.
HighlightArgs == \A c \in ToSet(calls) : c.method = "highlight" => c.arg \in Identifier

LEMMA HighlightArgsStep ==
    ASSUME AskedInv, HighlightInv, HighlightArgs, [Next]_vars
    PROVE  HighlightArgs'
<1> USE DEF AskedInv
<1>1. CASE \A c \in ToSet(calls') : c \in ToSet(calls) \/ c.method # "highlight"
  BY <1>1 DEF HighlightArgs
<1>2. CASE UNCHANGED calls
  BY <1>1, <1>2
<1>3. CASE UNCHANGED vars
  BY <1>2, <1>3 DEF vars, documentVars
<1>4. ASSUME NEW d \in Doc,
             OpenDocument(d) \/ Activate(d) \/ Edit(d) \/ UpdateIdle(d) \/ CloseDocument(d)
      PROVE  HighlightArgs'
  <2>1. CASE OpenDocument(d) \/ Activate(d) \/ UpdateIdle(d)
    BY <1>1, <2>1, ShownCalls, UpdateIdleCalls DEF QueriesFor, QueryMethod
  <2>2. CASE Edit(d)
    BY <1>1, <2>2, EditCalls DEF OnlyOf
  <2>3. CASE CloseDocument(d)
    BY <1>2, <2>3 DEF CloseDocument
  <2> QED BY <1>4, <2>1, <2>2, <2>3
<1>5. CASE ServerInitialized
  BY <1>1, <1>2, <1>5, InitializedCalls DEF QueriesFor, QueryMethod
<1>6. CASE ServerCrashed
  <2>1. ToSet(calls') = {}
    BY <1>6 DEF ServerCrashed, ToSet
  <2> QED BY <1>1, <2>1
<1>7. CASE FreeServer \/ ServerTells \/ UserSwitchesPage \/ UserSelects
  BY <1>2, <1>7 DEF FreeServer, ServerTells, UserSwitchesPage, UserSelects, documentVars
<1>8. ASSUME NEW i \in 1 .. MaxCalls, Answer(i) \/ Refuse(i) PROVE HighlightArgs'
  <2>1. ToSet(calls') \subseteq ToSet(calls)
    BY <1>8, CallsAnswered DEF Answer, Refuse
  <2> QED BY <1>1, <2>1
<1>9. CASE HighlightMoves
  <2>1. UNCHANGED <<enabled, server, current>>
    BY <1>9 DEF HighlightMoves
  <2>2. \/ calls' = calls \o <<>>
        \/ server.running /\ current # NULL
           /\ \E caret \in Identifier \cup {NULL} : calls' = calls \o HighlightCall(caret)
    <3>1. ASSUME NEW caret \in CaretAt, MoveCaret(caret)
          PROVE  \/ calls' = calls \o <<>>
                 \/ server.running /\ current # NULL
                    /\ \E car \in Identifier \cup {NULL} : calls' = calls \o HighlightCall(car)
      <4> DEFINE moved == [highlight EXCEPT !.caret = caret, !.perform = TRUE,
                                            !.scheduled = @ /\ caret = highlight.caret]
      <4>1. moved.caret = caret /\ caret \in Identifier \cup {NULL}
        BY DEF CaretAt, HighlightInv, HighlightRecord
      <4>2. \/ calls' = calls \o <<>>
            \/ server.running /\ current # NULL /\ calls' = calls \o HighlightCall(moved.caret)
        BY <3>1 DEF MoveCaret, ScheduleRequest, MakeCalls
      <4> QED BY <4>1, <4>2
    <3>2. ASSUME RequestIdle
          PROVE  \/ calls' = calls \o <<>>
                 \/ server.running /\ current # NULL
                    /\ \E car \in Identifier \cup {NULL} : calls' = calls \o HighlightCall(car)
      <4> DEFINE h == [highlight EXCEPT !.source = FALSE]
      <4>1. h.caret \in Identifier \cup {NULL}
        BY DEF HighlightInv, HighlightRecord
      <4>2. \/ calls' = calls \o <<>>
            \/ server.running /\ current # NULL /\ calls' = calls \o HighlightCall(h.caret)
        BY <3>2 DEF RequestIdle, MakeCalls
      <4> QED BY <4>1, <4>2
    <3> QED BY <1>9, <3>1, <3>2 DEF HighlightMoves
  <2>3. ASSUME server.running, current # NULL, NEW caret \in Identifier \cup {NULL},
               calls' = calls \o HighlightCall(caret)
        PROVE  HighlightArgs'
    <3>1. \A b \in ToSet(calls') : b \in ToSet(calls) \/ (b.arg = caret /\ caret # NULL)
      BY <2>1, <2>3, HighlightCalls
    <3> QED BY <2>3, <3>1 DEF HighlightArgs
  <2> QED BY <1>2, <2>2, <2>3, NoCallMade
<1>10. CASE UserMovesPopup
  BY <1>1, <1>10, PopupCalls DEF OnlyOf
<1>11. CASE UserExpandsSelection
  BY <1>1, <1>11, SelectionCalls DEF OnlyOf
<1>12. CASE UserCompletes
  BY <1>1, <1>12, UserCompletesCalls DEF OnlyOf
<1> QED
  BY <1>3, <1>4, <1>5, <1>6, <1>7, <1>8, <1>9, <1>10, <1>11, <1>12 DEF Next

\* The identifier at the caret is asked for, now or by the timer.
LEMMA HighlightAskedKept ==
    ASSUME AskedInv, HighlightInv, "highlight" \in enabled, current # NULL, server.running,
           UNCHANGED <<enabled, doc, current, server>>,
           highlight' \in HighlightRecord, ~highlight'.source,
           calls' = calls \o HighlightCall(highlight'.caret)
    PROVE  HighlightInv'
<1>1. highlight'.caret # NULL =>
         LastCalls(calls', "highlight", current) = {Call("highlight", current, highlight'.caret)}
  BY HighlightCalls DEF AskedInv
<1>2. Call("highlight", current, highlight'.caret).arg = highlight'.caret
      /\ Call("highlight", current, highlight'.caret).text = doc[current].text
  BY DEF Call
<1> QED
  BY <1>1, <1>2 DEF HighlightInv, HighlightKnown

LEMMA MoveCaretKept ==
    ASSUME AskedInv, HighlightInv, NEW caret \in CaretAt, MoveCaret(caret),
           UNCHANGED <<enabled, doc, current, server>>
    PROVE  HighlightInv'
<1> DEFINE sched == highlight.scheduled /\ caret = highlight.caret
           moved == [highlight EXCEPT !.caret = caret, !.perform = TRUE, !.scheduled = @ /\ caret = highlight.caret]
<1>1. /\ moved \in HighlightRecord /\ moved.caret = caret /\ moved.source = highlight.source
      /\ moved.drawn = highlight.drawn
      /\ moved.scheduled => highlight.scheduled /\ caret = highlight.caret
  BY DEF CaretAt, HighlightInv, HighlightRecord
<1>2. "highlight" \in enabled /\ current \in Doc /\ current # NULL
  BY CurrentFacts DEF MoveCaret
<1>3. CASE ~(highlight.perform /\ server.running)
  <2>1. highlight' = moved /\ calls' = calls \o <<>>
    BY <1>3 DEF MoveCaret, MakeCalls
  <2>2. calls' = calls
    BY <2>1, NoCallMade DEF AskedInv
  <2> HIDE DEF moved
  <2> QED BY <1>1, <1>2, <2>1, <2>2 DEF HighlightInv, HighlightKnown
<1>4. CASE highlight.perform /\ server.running
  <2>1. PICK now \in BOOLEAN : ScheduleRequest(moved, now)
    BY <1>4 DEF MoveCaret
  <2> HIDE DEF moved
  <2> DEFINE id == IF caret = NULL THEN NULL ELSE moved.drawn[current]
             g == [Drawn(moved, current, id) EXCEPT !.scheduled = TRUE, !.source = ~now /\ caret # NULL]
  <2>2. id \in Identifier \cup {NULL}
    BY <1>1, <1>2 DEF HighlightRecord
  <2>3. highlight' = g
    BY <1>1, <2>1 DEF ScheduleRequest, Drawn, HighlightRecord
  <2> HIDE DEF id
  <2>4. g \in HighlightRecord /\ g.caret = caret /\ (g.source <=> ~now /\ caret # NULL)
    <3>1. Drawn(moved, current, id) \in HighlightRecord /\ Drawn(moved, current, id).caret = caret
      BY <1>1, <1>2, <2>2, DrawnKept
    <3> QED BY <3>1 DEF HighlightRecord
  <2> HIDE DEF g
  <2>5. CASE now
    <3>1. calls' = calls \o HighlightCall(caret)
      BY <1>1, <2>1, <2>5 DEF ScheduleRequest, MakeCalls
    <3> QED BY <1>2, <1>4, <2>3, <2>4, <2>5, <3>1, HighlightAskedKept
  <2>6. CASE ~now
    BY <1>2, <2>3, <2>4, <2>6 DEF HighlightInv, HighlightKnown
  <2> QED BY <2>5, <2>6
<1> QED
  BY <1>3, <1>4

LEMMA RequestIdleKept ==
    ASSUME AskedInv, HighlightInv, RequestIdle, UNCHANGED <<enabled, doc, current, server>>
    PROVE  HighlightInv'
<1> DEFINE h == [highlight EXCEPT !.source = FALSE]
           ask == server.running /\ current # NULL
<1>1. h \in HighlightRecord /\ ~h.source /\ "highlight" \in enabled
  BY DEF RequestIdle, HighlightInv, HighlightRecord
<1>2. /\ highlight' = IF ask THEN HighlightRequested(h) ELSE h
      /\ calls' = calls \o (IF ask THEN HighlightCall(h.caret) ELSE <<>>)
  BY DEF RequestIdle, MakeCalls
<1> HIDE DEF h
<1>3. CASE ask
  <2>1. current \in Doc
    BY <1>3, CurrentFacts
  <2>2. highlight' \in HighlightRecord /\ ~highlight'.source /\ highlight'.caret = h.caret
    <3>1. Drawn(h, current, NULL) \in HighlightRecord /\ ~Drawn(h, current, NULL).source
          /\ Drawn(h, current, NULL).caret = h.caret
      BY <1>1, <2>1, DrawnKept
    <3>2. highlight' \in {h, Drawn(h, current, NULL)}
      BY <1>2, <1>3 DEF HighlightRequested, Drawn
    <3> QED BY <1>1, <3>1, <3>2
  <2>3. calls' = calls \o HighlightCall(highlight'.caret)
    BY <1>2, <1>3, <2>2
  <2> QED BY <1>1, <1>3, <2>2, <2>3, HighlightAskedKept
<1>4. CASE ~ask
  BY <1>1, <1>2, <1>4 DEF HighlightInv, HighlightKnown
<1> QED
  BY <1>3, <1>4

LEMMA HighlightSame ==
    ASSUME HighlightInv, UNCHANGED <<enabled, current, highlight>>,
           server'.running => server.running,
           current # NULL => doc'[current].text = doc[current].text,
           LastCalls(calls', "highlight", current) = LastCalls(calls, "highlight", current)
    PROVE  HighlightInv'
BY DEF HighlightInv, HighlightKnown

LEMMA HighlightRefuseKept ==
    ASSUME AskedInv, HighlightInv, NEW i \in 1 .. MaxCalls, Refuse(i)
    PROVE  HighlightInv'
<1> DEFINE c == calls[i]
<1>1. /\ UNCHANGED <<enabled, doc, current, server, highlight>>
      /\ Answerable(i) /\ calls' = WithoutCall(i)
      /\ c.text # doc[c.doc].text
  BY DEF Refuse
<1>2. \/ LastCalls(calls', "highlight", current) = LastCalls(calls, "highlight", current)
      \/ /\ LastCalls(calls, "highlight", current) = {c}
         /\ Matches(c, "highlight", current)
  BY <1>1, CallsAnswered DEF AskedInv
<1>3. CASE LastCalls(calls, "highlight", current) = {c} /\ Matches(c, "highlight", current)
  \* then nothing came to rest
  BY <1>1, <1>3 DEF HighlightInv, HighlightKnown, Matches
<1> QED
  BY <1>1, <1>2, <1>3, HighlightSame

LEMMA HighlightStep ==
    ASSUME AskedInv, HighlightInv, HighlightArgs, [Next]_vars
    PROVE  HighlightInv'
<1>1. CASE UNCHANGED <<enabled, doc, current, server, calls, highlight>>
  BY <1>1, HighlightSame
<1>2. CASE UNCHANGED vars
  BY <1>1, <1>2 DEF vars, documentVars, drawnVars
<1>3. ASSUME NEW d \in Doc, OpenDocument(d) \/ Activate(d) PROVE HighlightInv'
  BY <1>3, ShownSteps, HighlightVisible, CurrentFacts DEF ServerType
<1>4. ASSUME NEW d \in Doc, Edit(d) PROVE HighlightInv'
  BY <1>4, EditSteps, HighlightEditedKept DEF Edit
<1>5. ASSUME NEW d \in Doc, UpdateIdle(d) PROVE HighlightInv'
  <2>1. LastCalls(calls', "highlight", current) = LastCalls(calls, "highlight", current)
    BY <1>5, UpdateIdleSteps DEF QueryMethod
  <2>2. current # NULL => doc'[current].text = doc[current].text
    BY <1>5, UpdateIdleSteps, CurrentFacts
  <2>3. UNCHANGED <<enabled, current, highlight>> /\ server'.running = server.running
    BY <1>5, UpdateIdleSteps DEF UpdateIdle
  <2> QED BY <2>1, <2>2, <2>3, HighlightSame
<1>6. ASSUME NEW d \in Doc, CloseDocument(d) PROVE HighlightInv'
  <2> DEFINE caret == IF d = current THEN NULL ELSE highlight.caret
             sched == highlight.scheduled /\ d # current
  <2>1. highlight' = At(Drawn(highlight, d, NULL), caret, sched)
    BY <1>6 DEF CloseDocument, HighlightClosed, At, Drawn, HighlightInv, HighlightRecord
  <2>2. caret \in Identifier \cup {NULL} /\ sched \in BOOLEAN
    BY DEF HighlightInv, HighlightRecord
  <2>3. CASE d = current
    <3>1. highlight' \in HighlightRecord /\ highlight'.source = highlight.source
          /\ ~highlight'.scheduled
      <4>1. ~sched
        BY <2>3
      <4> HIDE DEF caret, sched
      <4> QED BY <2>1, <2>2, <4>1, DrawnKept, AtKept DEF HighlightInv
    <3> QED BY <1>6, <2>3, <3>1, CloseSteps DEF HighlightInv, HighlightKnown
  <2>4. CASE d # current
    <3>1. caret = highlight.caret /\ (sched <=> highlight.scheduled)
      BY <2>4
    <3> HIDE DEF caret, sched
    <3>2. /\ highlight' \in HighlightRecord /\ highlight'.source = highlight.source
          /\ highlight'.scheduled = sched /\ highlight'.caret = caret
          /\ \A e \in Doc : e # d => highlight'.drawn[e] = highlight.drawn[e]
      BY <2>1, <2>2, DrawnKept, AtKept DEF HighlightInv
    <3> QED BY <1>6, <2>4, <3>1, <3>2, CloseSteps, CurrentFacts DEF HighlightInv, HighlightKnown
  <2> QED BY <2>3, <2>4
<1>7. CASE ServerInitialized
  <2>1. CASE current = NULL
    BY <1>7, <2>1 DEF ServerInitialized, HighlightInv, HighlightKnown
  <2>2. CASE current # NULL
    BY <1>7, <2>2, InitializedSteps, HighlightVisible, CurrentFacts
  <2> QED BY <2>1, <2>2
<1>8. CASE ServerCrashed
  BY <1>8 DEF ServerCrashed, HighlightInv, HighlightKnown
<1>9. CASE FreeServer
  <2>1. server'.running = server.running /\ UNCHANGED <<enabled, doc, current, calls, highlight>>
    BY <1>9, CurrentFacts DEF FreeServer, ServerType
  <2> QED BY <2>1, HighlightSame
<1>10. ASSUME NEW i \in 1 .. MaxCalls, Answer(i) PROVE HighlightInv'
  <2>1. /\ UNCHANGED <<enabled, doc, current, server>>
        /\ Answerable(i) /\ calls' = WithoutCall(i)
    BY <1>10 DEF Answer
  <2>2. CASE HighlightAnswer(i)
    <3>1. calls[i].method = "highlight" /\ \E found \in BOOLEAN : HighlightAnswered(calls[i], found)
      BY <2>2 DEF HighlightAnswer
    <3>2. calls[i].arg \in Identifier
      BY <2>1, <3>1, CallsAnswered DEF AskedInv, HighlightArgs
    <3> QED BY <2>1, <3>1, <3>2, HighlightAnswerKept
  <2>3. CASE ~HighlightAnswer(i)
    <3>1. UNCHANGED highlight /\ calls[i].method # "highlight"
      BY <1>10, <2>3 DEF Answer, TokensAnswer, SymbolsAnswer, LensAnswer, CompletionAnswer,
         SelectionAnswer, PopupAnswer, drawnVars
    <3>2. LastCalls(calls', "highlight", current) = LastCalls(calls, "highlight", current)
      BY <2>1, <3>1, CallsAnswered DEF AskedInv, Matches
    <3> QED BY <2>1, <3>1, <3>2, HighlightSame
  <2> QED BY <2>2, <2>3
<1>11. ASSUME NEW i \in 1 .. MaxCalls, Refuse(i) PROVE HighlightInv'
  BY <1>11, HighlightRefuseKept
<1>12. CASE ServerTells \/ UserSwitchesPage
  BY <1>1, <1>12 DEF ServerTells, UserSwitchesPage, documentVars, drawnVars
<1>13. CASE UserMovesPopup \/ UserExpandsSelection \/ UserCompletes
  <2>1. UNCHANGED <<enabled, doc, current, server, highlight>>
    BY <1>13 DEF UserMovesPopup, UserExpandsSelection, UserCompletes, drawnVars
  <2>2. LastCalls(calls', "highlight", current) = LastCalls(calls, "highlight", current)
    BY <1>13, PopupCalls, SelectionCalls, UserCompletesCalls DEF OnlyOf, AskedInv
  <2> QED BY <2>1, <2>2, HighlightSame
<1>14. CASE UserSelects
  <2>1. PICK caret \in CaretAt : highlight' = HighlightEdited(current, caret)
    BY <1>14 DEF UserSelects
  <2>2. current \in Doc
    BY <1>14, CurrentFacts DEF UserSelects
  <2> QED BY <1>14, <2>1, <2>2, SelectsSteps, HighlightEditedKept
<1>15. CASE HighlightMoves
  BY <1>15, MoveCaretKept, RequestIdleKept DEF HighlightMoves
<1> QED
  BY <1>2, <1>3, <1>4, <1>5, <1>6, <1>7, <1>8, <1>9, <1>10, <1>11, <1>12, <1>13, <1>14, <1>15 DEF Next

\* Where the caret came to rest, its identifier is highlighted and no other once nothing
\* is under way: for any identifiers and documents, however many places the caret was at,
\* whichever of them were asked for, and however many edits were made meanwhile.
THEOREM HighlightsCatchUp == Spec => []HighlightCatchesUp
<1>1. Init => HighlightInv /\ HighlightArgs
  <2>1. Init => HighlightInv
    BY DEF Init, DocumentsInit, HighlightInit, HighlightInv, HighlightRecord, HighlightKnown
  <2>2. Init => HighlightArgs
    BY DEF Init, DocumentsInit, HighlightArgs, ToSet
  <2> QED BY <2>1, <2>2
<1>2. AskedInv /\ HighlightInv /\ HighlightArgs /\ [Next]_vars => HighlightInv' /\ HighlightArgs'
  BY HighlightStep, HighlightArgsStep
<1>3. AskedInv /\ HighlightInv => HighlightCatchesUp
  <2> SUFFICES ASSUME AskedInv, HighlightInv, current # NULL, highlight.scheduled,
                      highlight.caret # NULL, ~highlight.source, Settled("highlight", current)
               PROVE  highlight.drawn[current] = highlight.caret
    BY DEF HighlightCatchesUp
  <2>1. LastCalls(calls, "highlight", current) = {}
    BY PendingIsLast DEF AskedInv, Settled
  <2> QED BY <2>1 DEF HighlightInv, HighlightKnown, Settled
<1> QED
  BY <1>1, <1>2, <1>3, AskedAlways, PTL DEF Spec

-----------------------------------------------------------------------------
(* The semantic tokens *)

\* What is known of a document that is not astray: the difference that waits is to the
\* tokens that are cached, the tokens are those of the text, or they were asked for, and a
\* document that is open without any awaits all its tokens.
TokensKnown(d) ==
    /\ Firsts(calls, d, tokens[d])
    /\ tokens[d] # NULL => tokens[d].of = tokens[d].result_id
    /\ d \in server.open_docs /\ ~doc[d].timer /\ LastCalls(calls, "tokens", d) = {}
          => tokens[d] = NULL \/ tokens[d].of = doc[d].text
    /\ doc[d].open /\ tokens[d] = NULL => \A c \in LastCalls(calls, "tokens", d) : c.arg = NULL

TokensRecord == {NULL} \cup [of : Nat, result_id : Nat]

TokensInv ==
    /\ tokens \in [Doc -> TokensRecord]
    /\ "tokens" \notin enabled => \A d \in Doc : tokens[d] = NULL
    /\ server.running => \A d \in Doc : d \notin astray => TokensKnown(d)

LEMMA CallsOfQueries ==
    ASSUME NEW d, NEW t
    PROVE  ToSet(Queries(d, t)) = {Query(m, d, t) : m \in QueryMethod \cap enabled}
<1>1. <<>> \in Seq(ToSet(<<>>)) /\ ToSet(<<>>) = {}
  BY DEF ToSet
<1>2. ToSet(WithQueries(<<>>, d, t)) = {Query(m, d, t) : m \in QueryMethod \cap enabled}
  <2> DEFINE qs == {Query(m, d, t) : m \in QueryMethod \cap enabled}
  <2>1. ToSet(WithQueries(<<>>, d, t)) = ToSet(<<>>) \cup qs
    BY <1>1, QueriesMade
  <2> HIDE DEF qs
  <2>2. ToSet(WithQueries(<<>>, d, t)) = qs
    BY <1>1, <2>1
  <2> QED BY <2>2 DEF qs
<1>3. WithQueries(<<>>, d, t) = Queries(d, t)
  <2>1. PICK T : Queries(d, t) \in Seq(T)
    BY QueriesAreCalls
  <2> QED BY <2>1 DEF WithQueries
<1> QED
  BY <1>2, <1>3

\* A document that is not astray after a step.
LEMMA NotAstray ==
    ASSUME AskedInv, NEW d \in Doc, NEW t, NEW asks \in BOOLEAN,
           Ask(IF asks THEN Queries(d, t) ELSE <<>>), QueriesFor(d, t, asks),
           NEW e \in Doc, e \notin astray', NEW tk, Firsts(calls, e, tk),
           e = d /\ asks => t[d] = NULL \/ tk = t[d]
    PROVE  e \notin astray /\ Firsts(calls', e, tk)
<1> DEFINE q == Query("tokens", d, t)
           cs == IF asks THEN Queries(d, t) ELSE <<>>
<1>1. /\ \A b \in ToSet(cs) :
            b.method = "tokens" /\ b.arg # NULL /\ Pending("tokens", b.doc) => b.doc \in astray'
      /\ \A b \in astray : b \in astray'
  BY DEF Ask, TokensRaced, Differences
<1>2. q.method = "tokens" /\ q.doc = d
      /\ (q.arg # NULL => t[d] # NULL /\ q.arg = t[d].result_id)
  BY DEF Query, Call
<1>3. CASE ~asks
  BY <1>1, <1>3 DEF QueriesFor
<1>4. CASE asks
  <2>1. "tokens" \in enabled => q \in ToSet(cs)
    BY <1>4, CallsOfQueries DEF QueryMethod
  <2> HIDE DEF q, cs
  <2>2. "tokens" \in enabled /\ e = d => q.arg = NULL \/ ~Pending("tokens", d)
    BY <1>1, <1>2, <2>1
  <2>3. "tokens" \in enabled => MayFollow(calls, q, e, tk)
    <3>1. CASE e # d
      BY <1>2, <3>1 DEF MayFollow, Matches
    <3>2. ASSUME "tokens" \in enabled, e = d, q.arg # NULL PROVE MayFollow(calls, q, e, tk)
      <4>1. LastCalls(calls, "tokens", d) = {}
        BY <2>2, <3>2, PendingIsLast DEF AskedInv
      <4> QED BY <1>2, <1>4, <3>2, <4>1 DEF MayFollow
    <3> QED BY <3>1, <3>2 DEF MayFollow
  <2>4. QueryFollows(calls, d, t, e, tk)
    BY <2>3 DEF QueryFollows, q
  <2> QED BY <1>1, <1>4, <2>4 DEF QueriesFor
<1> QED
  BY <1>3, <1>4

LEMMA ForgottenTokens ==
    ASSUME tokens \in [Doc -> TokensRecord], NEW ds
    PROVE  /\ TokensDestroyed(ds) \in [Doc -> TokensRecord]
           /\ \A d \in Doc : TokensDestroyed(ds)[d] = IF d \in ds THEN NULL ELSE tokens[d]
BY DEF TokensDestroyed, TokensRecord

\* A step that makes no call for tokens.
LEMMA TokensSame ==
    ASSUME TokensInv, UNCHANGED <<enabled, tokens, astray>>, server'.running => server.running,
           \A d \in Doc : \/ doc'[d].timer
                          \/ /\ doc'[d].timer = doc[d].timer /\ doc'[d].text = doc[d].text
                             /\ d \in server'.open_docs => d \in server.open_docs
                          \/ d \notin server'.open_docs,
           \A d \in Doc : doc'[d].open => doc[d].open,
           \A d \in Doc : LastCalls(calls', "tokens", d) = LastCalls(calls, "tokens", d),
           \A d, tk : Firsts(calls, d, tk) => Firsts(calls', d, tk)
    PROVE  TokensInv'
<1> SUFFICES ASSUME server'.running, NEW d \in Doc, d \notin astray PROVE TokensKnown(d)'
  BY DEF TokensInv
<1> QED
  BY DEF TokensInv, TokensKnown

\* Where none are cached, all tokens are asked for.
LEMMA AskedForAll ==
    ASSUME AskedInv, NEW d \in Doc, NEW t, t[d] = NULL, QueriesFor(d, t, TRUE)
    PROVE  \A c \in LastCalls(calls', "tokens", d) : c.arg = NULL
<1>1. CASE "tokens" \in enabled
  <2>1. LastCalls(calls', "tokens", d) = {Query("tokens", d, t)}
    BY <1>1 DEF QueriesFor, QueryMethod
  <2> QED BY <2>1 DEF Query, Call
<1>2. CASE "tokens" \notin enabled
  <2>1. LastCalls(calls', "tokens", d) = LastCalls(calls, "tokens", d)
    BY <1>2 DEF QueriesFor
  <2> QED BY <1>2, <2>1, NoneOff DEF AskedInv, QueryMethod
<1> QED
  BY <1>1, <1>2

\* Calls for whole texts are made for d, which is open at the server.
LEMMA TokensAskedKept ==
    ASSUME AskedInv, TokensInv, server.running, UNCHANGED <<enabled, tokens>>, NEW d \in Doc,
           NEW asks \in BOOLEAN,
           Ask(IF asks THEN Queries(d, tokens) ELSE <<>>), QueriesFor(d, tokens, asks),
           \A e \in Doc : e # d => doc'[e] = doc[e],
           \A e \in server'.open_docs : e = d \/ e \in server.open_docs,
           ~asks => d \notin server'.open_docs /\ ~doc'[d].open
    PROVE  TokensInv'
<1> SUFFICES ASSUME NEW e \in Doc, e \notin astray' PROVE TokensKnown(e)'
  BY DEF TokensInv
<1>1. \A m \in QueryMethod : \A f : f # d => LastCalls(calls', m, f) = LastCalls(calls, m, f)
  BY QueriesOfText
<1>2. asks => \A m \in QueryMethod \cap enabled : LastCalls(calls', m, d) # {}
  BY QueriesOfText
<1>3. e \notin astray
  BY DEF Ask, TokensRaced
<1>4. TokensKnown(e)
  BY <1>3 DEF TokensInv
<1>5. Firsts(calls', e, tokens[e])
  BY <1>4, NotAstray DEF TokensKnown
<1>6. CASE e # d
  BY <1>1, <1>4, <1>5, <1>6 DEF TokensKnown, QueryMethod
<1>7. CASE e = d
  <2>1. asks /\ tokens[d] = NULL => \A c \in LastCalls(calls', "tokens", d) : c.arg = NULL
    BY AskedForAll
  <2> QED BY <1>2, <1>4, <1>5, <1>7, <2>1 DEF TokensKnown, TokensInv, QueryMethod
<1> QED
  BY <1>6, <1>7

LEMMA TokensInitialized ==
    ASSUME AskedInv, TokensInv, ServerInitialized
    PROVE  TokensInv'
<1>1. UNCHANGED enabled /\ tokens' = TokensDestroyed(Doc)
  BY DEF ServerInitialized
<1>2. tokens' \in [Doc -> TokensRecord] /\ \A d \in Doc : tokens'[d] = NULL
  BY <1>1, ForgottenTokens DEF TokensInv
<1>3. calls = <<>>
  BY DEF AskedInv, CallsInv, ServerInitialized
<1>4. \A d, tk : Firsts(<<>>, d, tk)
  BY DEF Firsts
<1>5. ASSUME NEW e \in Doc, e \notin astray'
      PROVE  Firsts(calls', e, NULL) /\ \A c \in LastCalls(calls', "tokens", e) : c.arg = NULL
  <2>1. CASE current = NULL
    BY <1>3, <1>4, <2>1, LastOfNone DEF ServerInitialized
  <2>2. CASE current # NULL
    <3> DEFINE t == TokensDestroyed(Doc)
    <3>1. current \in Doc
      BY <2>2, CurrentFacts
    <3>2. QueriesFor(current, t, TRUE)
      BY <2>2, InitializedCalls DEF AskedInv
    <3>3. Ask(IF TRUE THEN Queries(current, t) ELSE <<>>)
      BY <2>2 DEF ServerInitialized, Visible
    <3>4. t[current] = NULL
      BY <3>1, ForgottenTokens DEF TokensInv
    <3> HIDE DEF t
    <3>5. Firsts(calls', e, NULL)
      BY <1>3, <1>4, <1>5, <3>1, <3>2, <3>3, <3>4, NotAstray
    <3>6. CASE e = current
      BY <3>1, <3>2, <3>4, <3>5, <3>6, AskedForAll
    <3>7. CASE e # current
      BY <1>3, <3>2, <3>5, <3>7, LastOfNone DEF QueriesFor
    <3> QED BY <3>6, <3>7
  <2> QED BY <2>1, <2>2
<1> QED
  BY <1>1, <1>2, <1>5 DEF TokensInv, TokensKnown

\* Tokens are forgotten, of documents that are closed or that await no difference.
LEMMA TokensForgottenKept ==
    ASSUME TokensInv, UNCHANGED <<enabled, calls>>, NEW ds, tokens' = TokensDestroyed(ds),
           \A d \in astray : d \in astray',
           server'.running => server.running,
           \A d \in server'.open_docs : d \in server.open_docs,
           \A d \in Doc : d \in server'.open_docs => doc'[d] = doc[d],
           \A d \in Doc : doc'[d].open => doc[d].open,
           \A d \in ds : d \in astray' \/ ~doc'[d].open
                           \/ \A c \in LastCalls(calls, "tokens", d) : c.arg = NULL
    PROVE  TokensInv'
<1>1. tokens' \in [Doc -> TokensRecord]
      /\ \A d \in Doc : tokens'[d] = IF d \in ds THEN NULL ELSE tokens[d]
  BY ForgottenTokens DEF TokensInv
<1>2. \A d : Firsts(calls, d, tokens[d]) => Firsts(calls, d, NULL)
  BY DEF Firsts
<1>3. ASSUME server'.running, NEW d \in Doc, d \notin astray' PROVE TokensKnown(d)'
  <2>1. TokensKnown(d)
    BY <1>3 DEF TokensInv
  <2>2. CASE d \in ds
    BY <1>1, <1>2, <1>3, <2>1, <2>2 DEF TokensKnown
  <2>3. CASE d \notin ds
    BY <1>1, <2>1, <2>3 DEF TokensKnown
  <2> QED BY <2>2, <2>3
<1> QED
  BY <1>1, <1>3 DEF TokensInv

\* Where a call of a document is answered before all the others, no difference is left.
LEMMA NoFirstsLeft ==
    ASSUME NEW S, NEW cs \in Seq(S), NEW k \in 1 .. Len(cs), NEW d, Matches(cs[k], "tokens", d),
           \A j \in 1 .. Len(cs) : Matches(cs[j], "tokens", d) /\ cs[j].arg # NULL => j = k
    PROVE  /\ \A tk : Firsts(RemoveAt(cs, k), d, tk)
           /\ \A c : c \in LastCalls(RemoveAt(cs, k), "tokens", d) => c.arg = NULL
<1> DEFINE r == RemoveAt(cs, k)
           n == Len(cs)
           at(j) == IF j < k THEN j ELSE j + 1
<1>1. /\ Len(r) = n - 1 /\ n \in Nat \ {0} /\ k \in 1 .. n
      /\ \A j \in 1 .. n - 1 : r[j] = cs[at(j)]
  BY RemoveAtProperties, SMTT(30)

<1> HIDE DEF r
<1>2. \A j \in 1 .. n - 1 : at(j) \in 1 .. n /\ at(j) # k
  BY <1>1
<1> HIDE DEF at
<1>3. \A j \in 1 .. n - 1 : ~(Matches(r[j], "tokens", d) /\ r[j].arg # NULL)
  BY <1>1, <1>2
<1>4. \A tk : Firsts(r, d, tk)
  BY <1>1, <1>3 DEF Firsts
<1>5. \A c : c \in LastCalls(r, "tokens", d) => c.arg = NULL
  BY <1>1, <1>3 DEF LastCalls, LastAt
<1> QED
  BY <1>4, <1>5 DEF r

LEMMA FirstAnswered ==
    ASSUME AskedInv, NEW i, Answerable(i), NEW d, Matches(calls[i], "tokens", d), NEW tk,
           Firsts(calls, d, tk)
    PROVE  \A j \in 1 .. Len(calls) : Matches(calls[j], "tokens", d) /\ calls[j].arg # NULL => j = i
<1>1. i \in 1 .. Len(calls) /\ Len(calls) \in Nat /\ \A j \in 1 .. i - 1 : calls[j].method # "tokens"
  BY DEF Answerable, Reordered, Matches, AskedInv, CallsInv
<1> SUFFICES ASSUME NEW j \in 1 .. Len(calls), Matches(calls[j], "tokens", d), calls[j].arg # NULL,
                    j # i
             PROVE  FALSE
  OBVIOUS
<1>2. CASE j < i
  BY <1>1, <1>2 DEF Matches
<1>3. CASE j > i
  <2>1. i \in 1 .. j - 1
    BY <1>1, <1>3
  <2> QED BY <2>1 DEF Firsts
<1> QED
  BY <1>1, <1>2, <1>3

LEMMA OneAwaited ==
    ASSUME AskedInv, NEW i \in 1 .. Len(calls), NEW d, Matches(calls[i], "tokens", d),
           Awaited("tokens", d) = 1
    PROVE  \A j \in 1 .. Len(calls) : Matches(calls[j], "tokens", d) => j = i
<1> DEFINE I == {j \in 1 .. Len(calls) : calls[j].method = "tokens" /\ calls[j].doc = d}
<1>1. IsFiniteSet(I)
  <2>1. Len(calls) \in Nat
    BY DEF AskedInv, CallsInv
  <2>2. IsFiniteSet(1 .. Len(calls))
    BY <2>1, FS_Interval
  <2> QED BY <2>2, FS_Subset
<1>2. Cardinality(I) = 1
  BY DEF Awaited
<1> HIDE DEF I
<1>3. \E x : I = {x}
  BY <1>1, <1>2, FS_Singleton
<1> QED
  BY <1>3 DEF I, Matches

LEMMA TokensAnswerKept ==
    ASSUME AskedInv, QueriesInv, TokensInv, NEW i, Answerable(i), calls' = WithoutCall(i),
           UNCHANGED <<enabled, doc, current, server>>, calls[i].method = "tokens",
           NEW result, TokensAnswered(calls[i], result)
    PROVE  TokensInv'
<1> DEFINE c == calls[i]
           d == c.doc
           full == [of |-> c.text, result_id |-> c.text]
<1>1. /\ c \in ToSet(calls) /\ d \in Doc /\ c.text \in Nat /\ "tokens" \in enabled
      /\ server.running /\ Matches(c, "tokens", d)
      /\ calls \in Seq(ToSet(calls)) /\ i \in 1 .. Len(calls)
  <2>1. c \in ToSet(calls)
    BY CallsAnswered DEF AskedInv
  <2>2. i \in 1 .. Len(calls)
    BY DEF Answerable
  <2>3. server.running
    BY <2>2 DEF AskedInv, CallsInv
  <2> QED BY <2>1, <2>2, <2>3 DEF AskedInv, CallsInv, GoodCall, FeatureOf, Matches
<1>2. \A e, tk : Firsts(calls, e, tk) => Firsts(calls', e, tk)
  BY <1>1, FirstsOfRemoved DEF WithoutCall
<1>3. \A e \in Doc : e # d => LastCalls(calls', "tokens", e) = LastCalls(calls, "tokens", e)
  BY CallsAnswered DEF AskedInv, Matches
<1>4. full \in TokensRecord
  BY <1>1 DEF TokensRecord
<1>5. CASE ~(doc[d].open /\ server.running)
  <2>1. UNCHANGED <<tokens, astray>>
    BY <1>5 DEF TokensAnswered
  <2>2. d \notin server.open_docs /\ ~doc[d].open
    BY <1>1, <1>5 DEF AskedInv, IInv, DocumentsInv
  <2>3. ASSUME NEW e \in Doc, e \notin astray PROVE TokensKnown(e)'
    <3>1. TokensKnown(e)
      BY <1>1, <2>3 DEF TokensInv
    <3> HIDE DEF d
    <3> QED BY <1>2, <1>3, <2>1, <2>2, <3>1 DEF TokensKnown
  <2> QED BY <2>1, <2>3 DEF TokensInv
<1>6. CASE doc[d].open /\ server.running
  <2> DEFINE tk == TokensResult(c, result)
  <2>1. /\ tokens' = [tokens EXCEPT ![d] = tk]
        /\ astray' = AstrayAfter(c, result)
        /\ result \in IF c.arg = NULL THEN {"full", "none"}
                      ELSE {"full", "delta", "partial", "none"}
    BY <1>6 DEF TokensAnswered
  <2>2. /\ result \in {"full", "none"} => tk \in {NULL, full}
        /\ result \in {"delta", "partial"} =>
              tk = IF tokens[d] = NULL THEN NULL
                   ELSE [of |-> IF result = "delta" /\ tokens[d].of = c.arg THEN c.text ELSE NoText,
                         result_id |-> c.text]
    BY <2>1 DEF TokensResult, FullResult, DeltaResult
  <2> result \in {"full", "delta", "partial", "none"}
    BY <2>1
  <2>3. tk \in TokensRecord
    <3>1. \A n \in Nat : [of |-> n, result_id |-> c.text] \in TokensRecord
      BY <1>1 DEF TokensRecord
    <3>2. NULL \in TokensRecord /\ NoText \in Nat
      BY DEF TokensRecord, NoText
    <3> HIDE DEF tk
    <3> QED BY <1>1, <1>4, <2>2, <3>1, <3>2
  <2> HIDE DEF tk
  <2>4. tokens' \in [Doc -> TokensRecord] /\ tokens'[d] = tk
        /\ \A e \in Doc : e # d => tokens'[e] = tokens[e]
    BY <1>1, <2>1, <2>3 DEF TokensInv
  <2>5. d \notin astray => TokensKnown(d)
    BY <1>1 DEF TokensInv
  <2>6. ASSUME d \notin astray'
        PROVE  /\ tk \in {NULL, full} /\ Firsts(calls', d, tk)
               /\ \A b \in LastCalls(calls', "tokens", d) : b.arg = NULL
    <3> result \in {"full", "delta", "none"}
      BY <2>1, <2>6 DEF AstrayAfter
    <3>1. CASE d \in astray
      <4>1. result # "delta" /\ Awaited("tokens", d) = 1
        BY <2>1, <2>6, <3>1 DEF AstrayAfter
      <4>2. \A j \in 1 .. Len(calls) : Matches(calls[j], "tokens", d) => j = i
        BY <1>1, <4>1, OneAwaited
      <4>3. /\ Firsts(calls', d, tk)
            /\ \A b \in LastCalls(calls', "tokens", d) : b.arg = NULL
        <5>1. \A j \in 1 .. Len(calls) : Matches(calls[j], "tokens", d) /\ calls[j].arg # NULL => j = i
          BY <4>2
        <5>2. /\ \A t : Firsts(RemoveAt(calls, i), d, t)
              /\ \A b : b \in LastCalls(RemoveAt(calls, i), "tokens", d) => b.arg = NULL
          BY <1>1, <5>1, NoFirstsLeft
        <5> QED BY <5>2 DEF WithoutCall
      <4> QED BY <2>2, <4>1, <4>3
    <3>2. CASE d \notin astray
      <4>1. Firsts(calls, d, tokens[d])
            /\ (tokens[d] # NULL => tokens[d].of = tokens[d].result_id)
        BY <2>5, <3>2 DEF TokensKnown
      <4>2. \A j \in 1 .. Len(calls) : Matches(calls[j], "tokens", d) /\ calls[j].arg # NULL => j = i
        BY <1>1, <4>1, FirstAnswered
      <4>3. /\ Firsts(calls', d, tk)
            /\ \A b \in LastCalls(calls', "tokens", d) : b.arg = NULL
        <5>1. \A j \in 1 .. Len(calls) : Matches(calls[j], "tokens", d) /\ calls[j].arg # NULL => j = i
          BY <4>2
        <5>2. /\ \A t : Firsts(RemoveAt(calls, i), d, t)
              /\ \A b : b \in LastCalls(RemoveAt(calls, i), "tokens", d) => b.arg = NULL
          BY <1>1, <5>1, NoFirstsLeft
        <5> QED BY <5>2 DEF WithoutCall
      <4>4. CASE result = "delta"
        <5>1. c.arg # NULL
          BY <2>1, <4>4
        <5>2. tokens[d] # NULL => tokens[d].result_id = c.arg
          BY <1>1, <4>1, <5>1 DEF Firsts
        <5>3. tokens[d] # NULL => tk = full
          BY <2>2, <4>1, <4>4, <5>2
        <5>4. tokens[d] = NULL => tk = NULL
          BY <2>2, <4>4
        <5> QED BY <4>3, <5>3, <5>4
      <4>5. CASE result # "delta"
        BY <2>2, <4>3, <4>5
      <4> QED BY <4>4, <4>5
    <3> QED BY <3>1, <3>2
  <2>7. LastCalls(calls', "tokens", d) = {} => LastCalls(calls, "tokens", d) = {c}
    BY <1>1, LastAnswered
  <2>8. d \in server.open_docs /\ ~doc[d].timer /\ LastCalls(calls', "tokens", d) = {}
           => c.text = doc[d].text
    BY <1>1, <2>7 DEF QueriesInv, QueryMethod
  <2>9. full.of = c.text /\ full.result_id = c.text
    OBVIOUS
  <2>10. \A e : e # d /\ e \notin astray' => e \notin astray
    BY <2>1 DEF AstrayAfter
  <2>11. ASSUME NEW e \in Doc, e \notin astray' PROVE TokensKnown(e)'
    <3> HIDE DEF d, full
    <3>1. CASE e = d
      <4>1. /\ tk \in {NULL, full} /\ Firsts(calls', d, tk)
            /\ \A b \in LastCalls(calls', "tokens", d) : b.arg = NULL
        BY <2>6, <2>11, <3>1
      <4> QED BY <2>4, <2>8, <2>9, <3>1, <4>1 DEF TokensKnown
    <3>2. CASE e # d
      <4>1. TokensKnown(e)
        BY <1>1, <2>10, <2>11, <3>2 DEF TokensInv
      <4> QED BY <1>2, <1>3, <2>4, <3>2, <4>1 DEF TokensKnown
    <3> QED BY <3>1, <3>2
  <2> QED BY <1>1, <2>4, <2>11 DEF TokensInv
<1> QED
  BY <1>5, <1>6

\* A call that is gone and left the tokens as they are: it was for something else, or it
\* was for a text the document has no longer.
LEMMA TokensUnanswered ==
    ASSUME AskedInv, QueriesInv, TokensInv, NEW i, Answerable(i), calls' = WithoutCall(i),
           UNCHANGED <<enabled, doc, current, server, tokens, astray>>,
           calls[i].method # "tokens" \/ calls[i].text # doc[calls[i].doc].text
    PROVE  TokensInv'
<1>1. calls \in Seq(ToSet(calls)) /\ i \in 1 .. Len(calls)
  BY DEF AskedInv, CallsInv, Answerable
<1>2. \A e, tk : Firsts(calls, e, tk) => Firsts(calls', e, tk)
  BY <1>1, FirstsOfRemoved DEF WithoutCall
<1>3. ASSUME server.running, NEW d \in Doc, d \notin astray PROVE TokensKnown(d)'
  <2>1. TokensKnown(d) /\ Firsts(calls', d, tokens[d])
    BY <1>2, <1>3 DEF TokensInv, TokensKnown
  <2>2. ASSUME d \in server.open_docs, ~doc[d].timer, LastCalls(calls', "tokens", d) = {}
        PROVE  LastCalls(calls, "tokens", d) = {}
    <3>1. CASE Matches(calls[i], "tokens", d)
      \* it was the last, and had the text of the document
      <4>1. LastCalls(calls, "tokens", d) = {calls[i]}
        BY <2>2, <3>1, LastAnswered
      <4>2. calls[i].text = doc[d].text
        BY <1>3, <2>2, <4>1 DEF QueriesInv, QueryMethod
      <4> QED BY <3>1, <4>2 DEF Matches
    <3>2. CASE ~Matches(calls[i], "tokens", d)
      BY <2>2, <3>2, LastAnswered
    <3> QED BY <3>1, <3>2
  <2>3. LastCalls(calls', "tokens", d) \in {LastCalls(calls, "tokens", d), {}}
    BY CallsAnswered DEF AskedInv
  <2> QED BY <2>1, <2>2, <2>3 DEF TokensKnown
<1> QED
  BY <1>3 DEF TokensInv

\* A step of the user that makes no call for tokens.
LEMMA TokensOthers ==
    ASSUME TokensInv, UNCHANGED <<enabled, doc, server, tokens, astray>>, NEW n, n # "tokens",
           OnlyOf(n)
    PROVE  TokensInv'
<1>1. /\ \A d \in Doc : LastCalls(calls', "tokens", d) = LastCalls(calls, "tokens", d)
      /\ \A d, tk : Firsts(calls, d, tk) => Firsts(calls', d, tk)
  BY DEF OnlyOf
<1> QED
  BY <1>1, TokensSame

\* Where no server runs, nothing is known.
LEMMA TokensWithout ==
    ASSUME TokensInv, UNCHANGED <<enabled, tokens>>, ~server'.running
    PROVE  TokensInv'
BY DEF TokensInv

LEMMA TokensStep ==
    ASSUME AskedInv, QueriesInv, TokensInv, [Next]_vars
    PROVE  TokensInv'
<1>1. CASE UNCHANGED <<enabled, doc, server, calls, tokens, astray>>
  BY <1>1, TokensSame
<1>2. CASE UNCHANGED vars
  BY <1>1, <1>2 DEF vars, documentVars, drawnVars
<1>3. ASSUME NEW d \in Doc, OpenDocument(d) \/ Activate(d) PROVE TokensInv'
  <2>1. /\ UNCHANGED <<enabled, tokens>> /\ server'.running = server.running
        /\ Visible(d, tokens, server.running)
    BY <1>3, ShownSteps
  <2>2. CASE server.running
    <3>1. QueriesFor(d, tokens, TRUE)
      BY <1>3, <2>2, ShownCalls DEF AskedInv, QueriesFor
    <3>2. Ask(IF TRUE THEN Queries(d, tokens) ELSE <<>>)
      BY <2>1, <2>2 DEF Visible
    <3>3. \A e \in Doc : e # d => doc'[e] = doc[e]
      BY <1>3, CurrentFacts DEF OpenDocument, Activate
    <3>4. \A e \in server'.open_docs : e = d \/ e \in server.open_docs
      BY <1>3, CurrentFacts DEF OpenDocument, Activate, Opened, ServerType
    <3> QED BY <2>1, <2>2, <3>1, <3>2, <3>3, <3>4, TokensAskedKept
  <2>3. CASE ~server.running
    BY <2>1, <2>3, TokensWithout
  <2> QED BY <2>2, <2>3
<1>4. ASSUME NEW d \in Doc, Edit(d) PROVE TokensInv'
  <2>1. /\ UNCHANGED <<enabled, tokens, astray>> /\ server' = Opened(d)
        /\ server'.running = server.running
    BY <1>4, EditSteps DEF Edit
  <2>2. CASE server.running
    <3>1. OnlyOf("completion")
      BY <1>4, EditCalls DEF AskedInv
    <3>2. \A e \in server'.open_docs : e = d \/ e \in server.open_docs
      BY <2>1, CurrentFacts DEF Opened, ServerType
    <3>3. \A e \in Doc : \/ doc'[e].timer
                         \/ /\ doc'[e].timer = doc[e].timer /\ doc'[e].text = doc[e].text
                            /\ e \in server'.open_docs => e \in server.open_docs
      BY <1>4, <2>2, <3>2, EditSteps
    <3>4. /\ \A e \in Doc : LastCalls(calls', "tokens", e) = LastCalls(calls, "tokens", e)
          /\ \A e, tk : Firsts(calls, e, tk) => Firsts(calls', e, tk)
      BY <3>1 DEF OnlyOf
    <3>5. \A e \in Doc : doc'[e].open => doc[e].open
      BY <1>4, CurrentFacts DEF Edit
    <3> QED BY <2>1, <3>3, <3>4, <3>5, TokensSame
  <2>3. CASE ~server.running
    BY <2>1, <2>3, TokensWithout
  <2> QED BY <2>2, <2>3
<1>5. ASSUME NEW d \in Doc, UpdateIdle(d) PROVE TokensInv'
  <2> DEFINE ask == doc[d].open /\ server.running
  <2>1. /\ UNCHANGED <<enabled, tokens>> /\ server'.running = server.running
        /\ \A e \in Doc : e # d => doc'[e] = doc[e]
        /\ Ask(IF ask THEN Queries(d, tokens) ELSE <<>>)
        /\ server' = IF ask THEN Opened(d) ELSE server
    BY <1>5, UpdateIdleSteps DEF UpdateIdle
  <2>2. QueriesFor(d, tokens, ask)
    BY <1>5, UpdateIdleCalls DEF AskedInv
  <2>3. ask \in BOOLEAN
    BY CurrentFacts DEF ServerType
  <2>4. \A e \in server'.open_docs : e = d \/ e \in server.open_docs
    BY <2>1, CurrentFacts DEF Opened, ServerType
  <2>5. server.running /\ ~ask => d \notin server'.open_docs /\ ~doc'[d].open
    BY <1>5, <2>1, UpdateIdleSteps DEF AskedInv, IInv, DocumentsInv
  <2> HIDE DEF ask
  <2>6. CASE server.running
    BY <2>1, <2>2, <2>3, <2>4, <2>5, <2>6, TokensAskedKept
  <2>7. CASE ~server.running
    BY <2>1, <2>7, TokensWithout
  <2> QED BY <2>6, <2>7
<1>6. ASSUME NEW d \in Doc, CloseDocument(d) PROVE TokensInv'
  <2>1. /\ UNCHANGED <<enabled, calls, astray>> /\ tokens' = TokensDestroyed({d})
        /\ server'.running = server.running /\ server'.open_docs = server.open_docs \ {d}
        /\ \A e \in Doc : e # d => doc'[e] = doc[e]
        /\ ~doc'[d].open
    BY <1>6, CloseSteps, CurrentFacts DEF CloseDocument, TokensCleared
  <2>2. \A e \in server'.open_docs : e \in server.open_docs
    BY <2>1
  <2>3. \A e \in Doc : e \in server'.open_docs => doc'[e] = doc[e]
    BY <2>1
  <2>4. \A e \in Doc : doc'[e].open => doc[e].open
    BY <2>1
  <2> QED BY <2>1, <2>2, <2>3, <2>4, TokensForgottenKept
<1>7. CASE ServerInitialized
  BY <1>7, TokensInitialized
<1>8. CASE ServerCrashed
  BY <1>8, TokensWithout DEF ServerCrashed
<1>9. CASE FreeServer
  <2>1. /\ UNCHANGED <<enabled, doc, calls>> /\ tokens' = TokensDestroyed(server.unfreed)
        /\ server'.running = server.running /\ server'.open_docs = server.open_docs
        /\ TokensLost(server.unfreed)
    BY <1>9, CurrentFacts DEF FreeServer, ServerType
  <2>2. \A d \in astray : d \in astray'
    BY <2>1 DEF TokensLost
  <2>3. ASSUME NEW d \in server.unfreed, d \notin astray', NEW c \in LastCalls(calls, "tokens", d)
        PROVE  c.arg = NULL
    <3>1. Matches(c, "tokens", d) /\ c \in ToSet(calls)
      BY LastMatches DEF AskedInv, CallsInv
    <3> QED BY <2>1, <2>3, <3>1 DEF TokensLost, Differences, Matches
  <2> QED BY <2>1, <2>2, <2>3, TokensForgottenKept
<1>10. ASSUME NEW i \in 1 .. MaxCalls, Answer(i) PROVE TokensInv'
  <2>1. UNCHANGED <<enabled, doc, current, server>> /\ Answerable(i) /\ calls' = WithoutCall(i)
    BY <1>10 DEF Answer
  <2>2. CASE TokensAnswer(i)
    BY <2>1, <2>2, TokensAnswerKept DEF TokensAnswer
  <2>3. CASE ~TokensAnswer(i)
    <3>1. UNCHANGED <<tokens, astray>> /\ calls[i].method # "tokens"
      BY <1>10, <2>3 DEF Answer, SymbolsAnswer, LensAnswer, HighlightAnswer, CompletionAnswer,
         SelectionAnswer, PopupAnswer, drawnVars
    <3> QED BY <2>1, <3>1, TokensUnanswered
  <2> QED BY <2>2, <2>3
<1>11. ASSUME NEW i \in 1 .. MaxCalls, Refuse(i) PROVE TokensInv'
  BY <1>11, TokensUnanswered DEF Refuse
<1>12. CASE ServerTells \/ UserSwitchesPage
  BY <1>1, <1>12 DEF ServerTells, UserSwitchesPage, documentVars, drawnVars
<1>13. CASE HighlightMoves
  BY <1>13, HighlightMovesCalls, TokensOthers DEF HighlightMoves, AskedInv
<1>14. CASE UserMovesPopup
  BY <1>14, PopupCalls, TokensOthers DEF UserMovesPopup, AskedInv, drawnVars
<1>15. CASE UserExpandsSelection
  BY <1>15, SelectionCalls, TokensOthers DEF UserExpandsSelection, AskedInv
<1>16. CASE UserCompletes
  BY <1>16, UserCompletesCalls, TokensOthers DEF UserCompletes, AskedInv, drawnVars
<1>17. CASE UserSelects
  <2>1. /\ UNCHANGED <<enabled, calls, tokens, astray>> /\ server' = Opened(current)
        /\ server'.running = server.running
    BY <1>17, SelectsSteps DEF UserSelects
  <2>2. \A e \in server'.open_docs : e = current \/ e \in server.open_docs
    BY <2>1, CurrentFacts DEF Opened, ServerType
  <2>3. \A e \in Doc : \/ doc'[e].timer
                       \/ /\ doc'[e].timer = doc[e].timer /\ doc'[e].text = doc[e].text
                          /\ e \in server'.open_docs => e \in server.open_docs
    BY <1>17, <2>2, SelectsSteps
  <2>4. \A e \in Doc : doc'[e].open => doc[e].open
    BY <1>17, CurrentFacts DEF UserSelects
  <2> QED BY <2>1, <2>3, <2>4, TokensSame
<1> QED
  BY <1>2, <1>3, <1>4, <1>5, <1>6, <1>7, <1>8, <1>9, <1>10, <1>11, <1>12, <1>13, <1>14, <1>15,
     <1>16, <1>17 DEF Next

LEMMA TokensAlways == Spec => []TokensInv
<1>1. Init => TokensInv
  <2>1. Init => tokens \in [Doc -> TokensRecord] /\ \A d \in Doc : tokens[d] = NULL
    BY DEF Init, TokensInit, TokensRecord
  <2> QED BY <2>1 DEF Init, DocumentsInit, TokensInv
<1>2. AskedInv /\ QueriesInv /\ TokensInv /\ [Next]_vars => TokensInv'
  BY TokensStep
<1> QED
  BY <1>1, <1>2, AskedAlways, QueriesAlways, PTL DEF Spec

\* The tokens that are cached for a document are those of its text once nothing is under
\* way, and the result the next difference is asked to is the one they are of, unless two
\* differences to the same result were asked for at once or edits had no data: for any
\* documents and texts, with differences or without, and whatever the server leaves out,
\* refuses or crashes in.
THEOREM TokensOfText == Spec => []TokensFresh
<1>1. AskedInv /\ TokensInv => TokensFresh
  <2> SUFFICES ASSUME AskedInv, TokensInv, server.running,
                      NEW d \in Doc, d \notin astray, tokens[d] # NULL
               PROVE  /\ tokens[d].of = tokens[d].result_id
                      /\ Settled("tokens", d) => tokens[d].of = doc[d].text
    BY DEF TokensFresh
  <2>1. TokensKnown(d)
    BY DEF TokensInv
  <2>2. Settled("tokens", d) => LastCalls(calls, "tokens", d) = {}
    BY PendingIsLast DEF AskedInv, Settled
  <2> QED BY <2>1, <2>2 DEF TokensKnown, Settled
<1> QED
  BY <1>1, AskedAlways, TokensAlways, PTL

-----------------------------------------------------------------------------
(* The tokens that are drawn *)

PaintedRecord == [of : [Doc -> Nat \cup {NULL}], none : SUBSET Doc]

\* The current document is drawn with the tokens of its text, or they were asked for, or
\* the last answer brought none or did not fit.
PaintedKnown ==
    server.running /\ current # NULL /\ LastCalls(calls, "tokens", current) = {}
                   /\ "tokens" \in enabled /\ ~doc[current].timer
                   /\ current \notin astray \cup painted.none
        => painted.of[current] = doc[current].text

PaintedInv == painted \in PaintedRecord /\ PaintedKnown

LEMMA PaintedSame ==
    ASSUME PaintedInv, UNCHANGED <<enabled, current, painted>>,
           server'.running => server.running, \A d \in astray : d \in astray',
           \/ current = NULL
           \/ doc'[current].timer
           \/ /\ doc'[current].timer = doc[current].timer
              /\ doc'[current].text = doc[current].text
              /\ LastCalls(calls', "tokens", current) = {} => LastCalls(calls, "tokens", current) = {}
    PROVE  PaintedInv'
BY DEF PaintedInv, PaintedKnown

\* What an answer brings that does not lead astray, when no other is awaited.
LEMMA PaintedWith ==
    ASSUME AskedInv, TokensInv, painted \in PaintedRecord, NEW i, Answerable(i), NEW d \in Doc,
           Matches(calls[i], "tokens", d), LastCalls(calls, "tokens", d) = {calls[i]},
           doc[d].open, server.running, NEW result, result # "none",
           TokensAnswered(calls[i], result), d \notin astray'
    PROVE  painted'.of = [painted.of EXCEPT ![d] = calls[i].text]
<1> DEFINE c == calls[i]
<1>1. /\ c.doc = d /\ painted' = Painted(c, result) /\ astray' = AstrayAfter(c, result)
      /\ result \in IF c.arg = NULL THEN {"full", "none"} ELSE {"full", "delta", "partial", "none"}
  BY DEF TokensAnswered, Matches
<1>2. CASE result = "full"
  BY <1>1, <1>2 DEF Painted, PaintedRecord, TokensResult, FullResult
<1>3. CASE result = "delta"
  <2>1. c.arg # NULL /\ d \notin astray
    BY <1>1, <1>3 DEF AstrayAfter
  <2>2. TokensKnown(d)
    BY <2>1 DEF TokensInv
  <2>3. tokens[d] # NULL
    BY <2>1, <2>2 DEF TokensKnown
  <2>4. tokens[d].of = c.arg
    BY <2>1, <2>2, <2>3 DEF TokensKnown, Firsts, Answerable
  <2>5. TokensResult(c, result).of = c.text
    BY <1>1, <1>3, <2>3, <2>4 DEF TokensResult, DeltaResult
  <2> QED BY <1>1, <1>3, <2>3, <2>5 DEF Painted, PaintedRecord
<1>4. result # "partial"
  BY <1>1 DEF AstrayAfter
<1> QED
  BY <1>1, <1>2, <1>3, <1>4

LEMMA PaintedAnswerKept ==
    ASSUME AskedInv, QueriesInv, TokensInv, PaintedInv, NEW i, Answerable(i), calls' = WithoutCall(i),
           UNCHANGED <<enabled, doc, current, server>>, calls[i].method = "tokens",
           NEW result, TokensAnswered(calls[i], result)
    PROVE  PaintedInv'
<1> DEFINE c == calls[i]
           d == c.doc
           cached == TokensResult(c, result)
<1>1. d \in Doc /\ c.text \in Nat /\ server.running /\ Matches(c, "tokens", d)
  <2>1. c \in ToSet(calls)
    BY CallsAnswered DEF AskedInv
  <2>2. server.running
    BY DEF Answerable, AskedInv, CallsInv
  <2> QED BY <2>1, <2>2 DEF AskedInv, CallsInv, GoodCall, Matches
<1>2. LastCalls(calls', "tokens", current) = {} =>
         \/ LastCalls(calls, "tokens", current) = {} /\ d # current
         \/ LastCalls(calls, "tokens", current) = {c} /\ d = current
  BY LastAnswered DEF Matches
<1>3. CASE ~doc[d].open
  <2>1. UNCHANGED <<painted, astray>> /\ d # current
    BY <1>1, <1>3, CurrentFacts DEF TokensAnswered
  <2> QED BY <1>2, <2>1, PaintedSame
<1>4. CASE doc[d].open
  <2>1. /\ painted' = Painted(c, result) /\ astray' = AstrayAfter(c, result)
        /\ tokens' = [tokens EXCEPT ![d] = cached]
        /\ result \in {"full", "delta", "partial", "none"}
    BY <1>1, <1>4 DEF TokensAnswered
  <2>2. \/ result # "full" /\ tokens[d] = NULL
        \/ result = "none"
        \/ cached.of \in Nat
    BY <1>1, <2>1 DEF TokensResult, FullResult, DeltaResult, NoText
  <2> HIDE DEF cached
  <2>3. /\ painted' \in PaintedRecord
        /\ \A e \in Doc : e # d => painted'.of[e] = painted.of[e]
        /\ \A e \in Doc : e # d /\ e \notin painted'.none => e \notin painted.none
        /\ result = "none" => d \in painted'.none
        /\ \A e \in Doc : e # d /\ e \notin astray' => e \notin astray
    <3>1. painted.of \in [Doc -> Nat \cup {NULL}] /\ painted.none \in SUBSET Doc
      BY DEF PaintedInv, PaintedRecord
    <3>2. \A e \in Doc : e # d /\ e \notin astray' => e \notin astray
      BY <2>1 DEF AstrayAfter
    <3>3. CASE result = "none"
      <4> DEFINE none == painted.none \cup {d}
      <4>1. painted' = [painted EXCEPT !.none = none]
        BY <2>1, <3>3 DEF Painted
      <4>2. painted' \in PaintedRecord /\ painted'.of = painted.of /\ painted'.none = none
        BY <1>1, <4>1 DEF PaintedInv, PaintedRecord
      <4> QED BY <3>2, <3>3, <4>2
    <3>4. CASE result # "none"
      <4> DEFINE none == painted.none \ {d}
                 of == [painted.of EXCEPT ![d] = IF result # "full" /\ tokens[d] = NULL THEN @
                                                 ELSE cached.of]
      <4>1. painted' = [painted EXCEPT !.none = none, !.of = of]
        BY <2>1, <3>4 DEF Painted, PaintedInv, PaintedRecord, cached
      <4>2. of \in [Doc -> Nat \cup {NULL}] /\ \A e \in Doc : e # d => of[e] = painted.of[e]
        BY <1>1, <2>2, <3>1, <3>4
      <4> HIDE DEF of
      <4>3. painted' \in PaintedRecord /\ painted'.of = of /\ painted'.none = none
        BY <3>1, <4>1, <4>2 DEF PaintedInv, PaintedRecord
      <4> QED BY <3>2, <3>4, <4>2, <4>3
    <3> QED BY <3>3, <3>4
  <2>4. PaintedKnown'
    <3> SUFFICES ASSUME server.running, current \in Doc, LastCalls(calls', "tokens", current) = {},
                        "tokens" \in enabled, ~doc[current].timer,
                        current \notin astray', current \notin painted'.none
                 PROVE  painted'.of[current] = doc[current].text
      BY CurrentFacts DEF PaintedKnown
    <3>1. CASE d # current
      BY <1>2, <2>3, <3>1, DocAssumption DEF PaintedInv, PaintedKnown
    <3>2. CASE d = current
      <4>1. LastCalls(calls, "tokens", d) = {c} /\ result # "none"
        BY <1>2, <2>3, <3>2
      <4>2. painted'.of = [painted.of EXCEPT ![d] = c.text]
        BY <1>1, <1>4, <3>2, <4>1, PaintedWith DEF PaintedInv
      <4>3. c.text = doc[d].text
        <5>1. d \in server.open_docs
          BY <3>2, CurrentFacts, DocAssumption
        <5> QED BY <3>2, <4>1, <5>1 DEF QueriesInv, QueryMethod
      <4> QED BY <1>1, <3>2, <4>2, <4>3 DEF PaintedInv, PaintedRecord
    <3> QED BY <3>1, <3>2
  <2> QED BY <2>3, <2>4 DEF PaintedInv
<1> QED
  BY <1>3, <1>4

LEMMA PaintedVisible ==
    ASSUME AskedInv, PaintedInv, NEW d \in Doc, UNCHANGED <<enabled, painted>>, current' = d,
           server'.running /\ "tokens" \in enabled => LastCalls(calls', "tokens", d) # {}
    PROVE  PaintedInv'
BY DEF PaintedInv, PaintedKnown

LEMMA PaintedStep ==
    ASSUME AskedInv, QueriesInv, TokensInv, PaintedInv, [Next]_vars
    PROVE  PaintedInv'
<1>1. CASE UNCHANGED <<enabled, doc, current, server, calls, painted, astray>>
  BY <1>1, PaintedSame
<1>2. CASE UNCHANGED vars
  BY <1>1, <1>2 DEF vars, documentVars, drawnVars
<1>3. ASSUME NEW d \in Doc, OpenDocument(d) \/ Activate(d) PROVE PaintedInv'
  <2>1. UNCHANGED painted
    BY <1>3 DEF OpenDocument, Activate
  <2> QED BY <1>3, <2>1, ShownSteps, PaintedVisible DEF QueryMethod
<1>4. ASSUME NEW d \in Doc, Edit(d) PROVE PaintedInv'
  <2>1. UNCHANGED <<painted, astray>>
    BY <1>4 DEF Edit
  <2>2. CASE server.running
    BY <1>4, <2>1, <2>2, EditSteps, PaintedSame, CurrentFacts
  <2>3. CASE ~server.running
    BY <1>4, <2>1, <2>3, EditSteps DEF PaintedInv, PaintedKnown
  <2> QED BY <2>2, <2>3
<1>5. ASSUME NEW d \in Doc, UpdateIdle(d) PROVE PaintedInv'
  <2>1. UNCHANGED painted /\ \A e \in astray : e \in astray'
    BY <1>5 DEF UpdateIdle, Ask, TokensRaced
  <2>2. CASE ~server.running
    BY <1>5, <2>1, <2>2, UpdateIdleSteps DEF PaintedInv, PaintedKnown
  <2>3. CASE server.running /\ d = current
    BY <1>5, <2>1, <2>3, UpdateIdleSteps, CurrentFacts DEF PaintedInv, PaintedKnown, QueryMethod
  <2>4. CASE server.running /\ d # current
    BY <1>5, <2>1, <2>4, UpdateIdleSteps, PaintedSame, CurrentFacts DEF QueryMethod
  <2> QED BY <2>2, <2>3, <2>4
<1>6. ASSUME NEW d \in Doc, CloseDocument(d) PROVE PaintedInv'
  <2>1. UNCHANGED astray
        /\ painted' = [painted EXCEPT !.of[d] = NULL, !.none = @ \ {d}]
    BY <1>6 DEF CloseDocument, TokensCleared
  <2>2. /\ painted' \in PaintedRecord
        /\ \A e \in Doc : e # d => painted'.of[e] = painted.of[e]
        /\ painted'.none = painted.none \ {d}
    BY <2>1 DEF PaintedInv, PaintedRecord
  <2> QED BY <1>6, <2>1, <2>2, CloseSteps, CurrentFacts DEF PaintedInv, PaintedKnown
<1>7. CASE ServerInitialized
  <2>1. UNCHANGED painted
    BY <1>7 DEF ServerInitialized
  <2>2. CASE current = NULL
    BY <1>7, <2>1, <2>2 DEF ServerInitialized, PaintedInv, PaintedKnown
  <2>3. CASE current # NULL
    BY <1>7, <2>1, <2>3, InitializedSteps, PaintedVisible, CurrentFacts DEF QueryMethod
  <2> QED BY <2>2, <2>3
<1>8. CASE ServerCrashed
  BY <1>8 DEF ServerCrashed, PaintedInv, PaintedKnown
<1>9. CASE FreeServer
  <2>1. /\ server'.running = server.running /\ UNCHANGED <<enabled, doc, current, calls, painted>>
        /\ \A e \in astray : e \in astray'
    BY <1>9, CurrentFacts DEF FreeServer, TokensLost, ServerType
  <2> QED BY <2>1, PaintedSame
<1>10. ASSUME NEW i \in 1 .. MaxCalls, Answer(i) PROVE PaintedInv'
  <2>1. /\ UNCHANGED <<enabled, doc, current, server>>
        /\ Answerable(i) /\ calls' = WithoutCall(i)
    BY <1>10 DEF Answer
  <2>2. CASE TokensAnswer(i)
    BY <2>1, <2>2, PaintedAnswerKept DEF TokensAnswer
  <2>3. CASE ~TokensAnswer(i)
    <3>1. UNCHANGED <<painted, astray>> /\ calls[i].method # "tokens"
      BY <1>10, <2>3 DEF Answer, SymbolsAnswer, LensAnswer, HighlightAnswer, CompletionAnswer,
         SelectionAnswer, PopupAnswer, drawnVars
    <3>2. LastCalls(calls', "tokens", current) = {} => LastCalls(calls, "tokens", current) = {}
      BY <2>1, <3>1, LastAnswered DEF Matches
    <3> QED BY <2>1, <3>1, <3>2, PaintedSame
  <2> QED BY <2>2, <2>3
<1>11. ASSUME NEW i \in 1 .. MaxCalls, Refuse(i) PROVE PaintedInv'
  <2>1. /\ UNCHANGED <<enabled, doc, current, server, painted, astray>>
        /\ Answerable(i) /\ calls' = WithoutCall(i) /\ calls[i].text # doc[calls[i].doc].text
    BY <1>11 DEF Refuse
  <2>2. ASSUME LastCalls(calls', "tokens", current) = {}, server.running, current # NULL,
               ~doc[current].timer
        PROVE  LastCalls(calls, "tokens", current) = {}
    \* a call that is refused is for another text, and the last one is not
    <3>1. CASE LastCalls(calls, "tokens", current) = {calls[i]} /\ Matches(calls[i], "tokens", current)
      <4>1. calls[i].text = doc[current].text
        BY <2>2, <3>1, CurrentFacts DEF QueriesInv, QueryMethod
      <4> QED BY <2>1, <3>1, <4>1 DEF Matches
    <3> QED BY <2>1, <2>2, <3>1, LastAnswered
  <2> QED BY <2>1, <2>2 DEF PaintedInv, PaintedKnown
<1>12. CASE ServerTells \/ UserSwitchesPage
  BY <1>1, <1>12 DEF ServerTells, UserSwitchesPage, documentVars, drawnVars
<1>13. CASE HighlightMoves \/ UserMovesPopup \/ UserExpandsSelection \/ UserCompletes
  <2>1. UNCHANGED <<enabled, doc, current, server, painted, astray>>
    BY <1>13 DEF HighlightMoves, UserMovesPopup, UserExpandsSelection, UserCompletes, drawnVars
  <2>2. LastCalls(calls', "tokens", current) = LastCalls(calls, "tokens", current)
    BY <1>13, HighlightMovesCalls, PopupCalls, SelectionCalls, UserCompletesCalls DEF OnlyOf, AskedInv
  <2> QED BY <2>1, <2>2, PaintedSame
<1>14. CASE UserSelects
  BY <1>14, SelectsSteps, PaintedSame DEF UserSelects
<1> QED
  BY <1>2, <1>3, <1>4, <1>5, <1>6, <1>7, <1>8, <1>9, <1>10, <1>11, <1>12, <1>13, <1>14 DEF Next

\* Once nothing is under way for the current document, it is drawn with the tokens of its
\* text, unless the last answer brought none or a difference that did not fit: for any
\* documents and texts, although the cache of the document is dropped when it is closed,
\* when its server starts anew and when a crashed one is freed.
THEOREM TokensDrawnOfText == Spec => []TokensDrawn
<1>1. Init => PaintedInv
  BY DEF Init, DocumentsInit, TokensInit, PaintedInv, PaintedRecord, PaintedKnown
<1>2. AskedInv /\ QueriesInv /\ TokensInv /\ PaintedInv /\ [Next]_vars => PaintedInv'
  BY PaintedStep
<1>3. AskedInv /\ PaintedInv => TokensDrawn
  <2> SUFFICES ASSUME AskedInv, PaintedInv, current \in Doc \ astray, "tokens" \in enabled,
                      Settled("tokens", current), current \notin painted.none
               PROVE  painted.of[current] = doc[current].text
    BY DEF TokensDrawn
  <2>1. LastCalls(calls, "tokens", current) = {}
    BY PendingIsLast DEF AskedInv, Settled
  <2> QED BY <2>1, DocAssumption DEF PaintedInv, PaintedKnown, Settled
<1> QED
  BY <1>1, <1>2, <1>3, AskedAlways, QueriesAlways, TokensAlways, PTL DEF Spec
=============================================================================
