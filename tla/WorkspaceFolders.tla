------------------------- MODULE WorkspaceFolders -------------------------
(***************************************************************************)
(* Workspace folders: src/lsp/src/lsp-workspace-folders.c.  A server that  *)
(* supports them is told the project root of every document, as far as it  *)
(* is outside of the open project.                                         *)
(***************************************************************************)
EXTENDS Documents

CONSTANTS
    Root,          \* the directories files are in
    ProjectBase    \* the base path of the Geany project, or NULL

ASSUME RootAssumption == NULL \notin Root /\ ProjectBase \in Root \cup {NULL}

VARIABLE folders
    \* of: the project root of the file of each document; table: wks_folder_table;
    \* told: the folders the server knows from what it was notified of

FoldersOK == folders \in [of : [Doc -> Root \cup {NULL}], table : SUBSET Root, told : SUBSET (Root \cup {NULL})]

FoldersInit == folders = [of |-> [d \in Doc |-> NULL], table |-> {}, told |-> {}]

\* Where the file may be that a document is opened with.
FileRoot == IF "folders" \in enabled THEN Root ELSE {NULL}

\* lsp_workspace_folders_doc_open() when the server learns of d.
FoldersOpened(f, d) ==
    IF "folders" \notin enabled \/ ~server.running \/ d \in server.open_docs \/ f.of[d] = ProjectBase
    THEN f
    ELSE [f EXCEPT !.table = @ \cup {f.of[d]}, !.told = @ \cup {f.of[d]}]

\* Mutant: a root is removed with the document that is closed.
FoldersClosedOne(d) ==
    IF d \notin server.open_docs THEN folders
    ELSE [folders EXCEPT !.table = @ \ {folders.of[d]}, !.told = @ \ {folders.of[d]}]

\* lsp_workspace_folders_doc_closed(): the roots no other document is in are removed; it
\* is not called for documents the server does not know.
FoldersClosed(d) ==
    LET used   == {folders.of[e] : e \in {e \in Doc \ {d} : doc[e].open}}
        unused == folders.table \ used
    IN IF d \notin server.open_docs THEN folders
       ELSE [folders EXCEPT !.table = @ \ unused, !.told = @ \ unused]

\* A new server has an empty table and is told the project by initialize_cb(), then it
\* learns of the documents ds.
FoldersStarted(ds) ==
    IF "folders" \notin enabled THEN folders
    ELSE LET roots == {folders.of[d] : d \in ds} \ {ProjectBase}
         IN [folders EXCEPT !.table = roots, !.told = roots \cup ({ProjectBase} \ {NULL})]

-----------------------------------------------------------------------------
\* As long as a document is open at the server, the server knows the folder of its
\* project, whichever documents were opened and closed before; it knows exactly the
\* folders it is told when it asks for them.
FoldersTold ==
    "folders" \in enabled /\ server.running =>
        /\ \A d \in server.open_docs : folders.of[d] \in folders.told
        /\ folders.told = folders.table \cup ({ProjectBase} \ {NULL})
=============================================================================
