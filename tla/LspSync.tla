------------------------------ MODULE LspSync ------------------------------
(***************************************************************************)
(* Which documents the language servers know, and what they know of them:  *)
(* src/lsp/src/lsp-sync.c, its callers among the Geany signal handlers of  *)
(* lsp-main.c, and the choice of a document's server in lsp-server.c.      *)
(*                                                                         *)
(* An action is one signal handler or callback of the main loop.  A        *)
(* handler works on a copy M of the two tables and Commit()s it, so that   *)
(* the order of the calls it makes is the order of the operators here.     *)
(* Notifications reach a server in the order they are sent (JsonrpcClient  *)
(* models that), so a server's view changes with the call that sends one.  *)
(* LspServer models why servers start, fail and stop; here they just do.   *)
(* SaveChain models code actions and formatting on save; here none are     *)
(* configured, as in the default lsp.conf.                                 *)
(***************************************************************************)
EXTENDS Naturals, Sequences, FiniteSets, SequencesExt

CONSTANTS
    Doc,          \* the GeanyDocuments
    Ft,           \* the filetypes with a section and a cmd in the configuration
    None,         \* the filetype None: no section
    NULL,         \* the C NULL pointer
    Incremental,  \* the filetypes whose server uses incremental sync
    Mapped,       \* the filetype whose lang_id_mappings match mapped names
    Name,         \* the names of files
    MappedName,   \* those that match lang_id_mappings
    NameOf, FtOf, \* bound: the names and the filetypes each document may get
    StaleFt,      \* may steps be taken that leave a document with a stale cached filetype?
    MRU_SIZE,     \* the most documents a server has open
    MaxText,      \* bound: texts a document goes through
    MaxVersion    \* bound: version numbers of each document

ASSUME DocAssumption == IsFiniteSet(Doc)
ASSUME FtAssumption == Incremental \subseteq Ft /\ Mapped \in Ft /\ None \notin Ft
ASSUME NameAssumption == MappedName \subseteq Name /\ NULL \notin Name /\ StaleFt \in BOOLEAN
ASSUME FilesAssumption ==
    NameOf \in [Doc -> SUBSET Name] /\ FtOf \in [Doc -> SUBSET (Ft \cup {None})]
ASSUME NullAssumption == NULL \notin Ft \cup {None} /\ NULL \notin Doc
ASSUME SizeAssumption ==
    MRU_SIZE \in Nat \ {0} /\ MaxText \in Nat \ {0} /\ MaxVersion \in [Doc -> Nat]

VARIABLES
    doc,            \* the documents of the editor, with the plugin's data of each
    server,         \* the server of each filetype, with what the process knows
    current,        \* document_get_current()
    session_loaded, \* a document was shown since the servers were initialized
    update_source   \* the documents for which the timer of on_update_idle() runs

vars == <<doc, server, current, session_loaded, update_source>>

-----------------------------------------------------------------------------
Uri == Doc \X Name

\* Texts are told apart only: a change leads from one to the next.  A server that
\* applied a change to the wrong text has a garbled one.
Text    == 1 .. MaxText
Garbled == MaxText + 1

Closed == [open |-> FALSE, path |-> NULL, file_type |-> None, text |-> 1,
           changed |-> FALSE, marked |-> FALSE, version |-> 0, cached_ft |-> NULL]
Fresh  == [state |-> "down", open_docs |-> {}, mru_docs |-> <<>>,
           view |-> <<>>, confused |-> FALSE]

\* What a process knows of the documents that were opened to it.
Known == [text : Text \cup {Garbled}, version : Nat]

\* marked: the document has CODE_ACTIONS_PERFORMED data.
DocType ==
    [open : BOOLEAN, path : Name \cup {NULL}, file_type : Ft \cup {None}, text : Text,
     changed : BOOLEAN, marked : BOOLEAN, version : Nat,
     cached_ft : Ft \cup {None, NULL}]

\* A process knows some of the documents.
ViewOK(view) == DOMAIN view \subseteq Uri /\ view \in [DOMAIN view -> Known]

IsServer(s) ==
    /\ s \in [state     : {"down", "starting", "running"},
              open_docs : SUBSET Doc,
              mru_docs  : Seq(Doc),
              view      : {s.view},
              confused  : BOOLEAN]
    /\ ViewOK(s.view)

TypeOK ==
    /\ doc \in [Doc -> DocType]
    /\ \A d \in Doc : doc[d].open \/ doc[d] = Closed
    /\ DOMAIN server = Ft
    /\ \A f \in Ft : IsServer(server[f])
    /\ current \in {d \in Doc : doc[d].open} \cup {NULL}
    /\ session_loaded \in BOOLEAN
    /\ update_source \subseteq Doc

\* plugin_init() with no document open.
Init ==
    /\ doc = [d \in Doc |-> Closed]
    /\ server = [f \in Ft |-> Fresh]
    /\ current = NULL
    /\ session_loaded = FALSE
    /\ update_source = {}

M0 == [doc |-> doc, server |-> server]

UriOf(M, d) == <<d, M.doc[d].path>>

-----------------------------------------------------------------------------
(* The server of a document *)

\* lsp_server_get_ft_impl(): mappings match only files that have a name.
FtImpl(M, d) == IF M.doc[d].path \in MappedName THEN Mapped ELSE M.doc[d].file_type

\* lsp_server_get_ft(): the first answer is kept with the document.
GetFt(M, d) ==
    IF M.doc[d].cached_ft # NULL THEN M ELSE [M EXCEPT !.doc[d].cached_ft = FtImpl(M, d)]

\* The filetype kept with d is not the one it has.
Stale(M, d) == M.doc[d].cached_ft \notin {NULL, FtImpl(M, d)}

\* The handler ends with the tables M.
Commit(M) ==
    /\ \A d \in Doc : M.doc[d].version <= MaxVersion[d]
    /\ StaleFt \/ \A d \in Doc : ~Stale(M, d)
    /\ doc' = M.doc
    /\ server' = M.server

ClearCachedFt(M, d) == [M EXCEPT !.doc[d].cached_ft = NULL]

\* server_get_or_start_for_ft(); a server that is given up counts as one that starts
\* and never gets ready.
StartForFt(M, f) ==
    IF f \in Ft /\ M.server[f].state = "down"
    THEN [M EXCEPT !.server[f].state = "starting"] ELSE M

\* The filetype whose server serves d, or NULL: server_get_configured_for_doc(), after
\* GetFt().
Configured(M, d) ==
    IF M.doc[d].path # NULL /\ M.doc[d].cached_ft \in Ft THEN M.doc[d].cached_ft ELSE NULL

\* lsp_server_get() with its effects, and what lsp_server_get_if_running() returns then.
Get(M, d)     == LET G == GetFt(M, d) IN StartForFt(G, Configured(G, d))
Running(M, f) == f \in Ft /\ M.server[f].state = "running"
GotServer(M, d) ==
    LET f == Configured(M, d) IN IF Running(M, f) THEN f ELSE NULL

-----------------------------------------------------------------------------
(* lsp-sync.c *)

\* The process of f is told that it may forget u.
TellClosed(M, f, u) ==
    [M EXCEPT !.server[f].confused = @ \/ u \notin DOMAIN M.server[f].view,
              !.server[f].view     = Restrict(@, DOMAIN @ \ {u})]

\* The process of f is told of u.
Tell(M, f, u, text, version) ==
    [M EXCEPT !.server[f].view =
        [x \in DOMAIN @ \cup {u} |->
            IF x = u THEN [text |-> text, version |-> version] ELSE @[x]]]

DestroyDocData(M, f, d) == [M EXCEPT !.server[f].mru_docs = RemoveFirst(@, d)]

DidClose(M, f, d) ==
    LET D == DestroyDocData(M, f, d)
    IN IF d \notin M.server[f].open_docs THEN D
       ELSE TellClosed([D EXCEPT !.server[f].open_docs = @ \ {d}], f, UriOf(M, d))

\* Mutant: one document more than the limit.
MakeRoomAfter(M, f) ==
    IF Len(M.server[f].mru_docs) <= MRU_SIZE THEN M
    ELSE DidClose(M, f, Head(M.server[f].mru_docs))

MakeRoom(M, f) ==
    IF Len(M.server[f].mru_docs) < MRU_SIZE THEN M
    ELSE DidClose(M, f, Head(M.server[f].mru_docs))

\* get_next_doc_version_num()
NextVersion(M, d) == [M EXCEPT !.doc[d].version = @ + 1]

DidOpen(M, f, d) ==
    IF f = NULL \/ d \in M.server[f].open_docs THEN M
    ELSE LET u == UriOf(M, d)
             V == NextVersion(MakeRoom(M, f), d)
             O == [V EXCEPT !.server[f].open_docs = @ \cup {d},
                            !.server[f].mru_docs  = Append(@, d),
                            !.server[f].confused  = @ \/ u \in DOMAIN V.server[f].view]
         IN Tell(O, f, u, V.doc[d].text, V.doc[d].version)

\* The documents of a sequence are opened one after the other.
DidOpenAll(M, f, order) ==
    LET opened[i \in 0 .. Len(order)] ==
            IF i = 0 THEN M ELSE DidOpen(opened[i - 1], f, order[i])
    IN opened[Len(order)]

DidSave(M, f, d) ==
    [M EXCEPT !.server[f].confused = @ \/ UriOf(M, d) \notin DOMAIN M.server[f].view]

\* A change of the text of d from t to t + 1 when sync is incremental, else the
\* text that d has now.
DidChange(M, f, d, t) ==
    LET u   == UriOf(M, d)
        V   == NextVersion(M, d)
        old == M.server[f].view[u]
        new == IF f \notin Incremental THEN M.doc[d].text
               ELSE IF old.text = t THEN t + 1 ELSE Garbled
    IN IF u \notin DOMAIN M.server[f].view THEN [V EXCEPT !.server[f].confused = TRUE]
       ELSE Tell([V EXCEPT !.server[f].confused = @ \/ V.doc[d].version <= old.version],
                 f, u, new, V.doc[d].version)

-----------------------------------------------------------------------------
(* lsp-main.c *)

\* on_save_finish() when f serves d: a changed document is saved, which opens it first
\* when f does not have it.
SaveFinish(M, f, d) ==
    LET U == [M EXCEPT !.doc[d].marked = FALSE, !.doc[d].changed = FALSE]
    IN IF ~M.doc[d].marked THEN M
       ELSE IF M.doc[d].changed THEN DidSave(DidOpen(U, f, d), f, d) ELSE U

\* on_document_visible(); the queries of on_update_idle() it ends with find the
\* document open.
Visible(M, d) ==
    LET G == Get(M, d)
        f == GotServer(G, d)
    IN IF f = NULL THEN G ELSE DidOpen(SaveFinish(G, f, d), f, d)

\* Mutant: full synchronization sends its text before a deletion, too.
ModifiedEarly(M, d, kind) ==
    LET G == Get(M, d)
        f == GotServer(G, d)
        t == M.doc[d].text
        B == DidOpen(G, f, d)
        C == IF kind = "delete" THEN DidChange(B, f, d, t) ELSE B
        E == [C EXCEPT !.doc[d].text = t + 1, !.doc[d].changed = TRUE]
    IN IF f = NULL THEN [G EXCEPT !.doc[d].text = t + 1, !.doc[d].changed = TRUE]
       ELSE IF kind = "insert" THEN DidChange(E, f, d, t) ELSE E

\* Mutant: a document that is not open at its server is not opened first.
ModifiedUnopened(M, d, kind) ==
    LET G == Get(M, d)
        f == GotServer(G, d)
        t == M.doc[d].text
        E == [G EXCEPT !.doc[d].text = t + 1, !.doc[d].changed = TRUE]
    IN IF f = NULL THEN E ELSE DidChange(E, f, d, t)

\* SCN_MODIFIED before and after Scintilla changes the text: a document that is not
\* open is opened with the old text; a deletion is sent before it with incremental
\* synchronization, and after it otherwise.
Modified(M, d, kind) ==
    LET G == Get(M, d)
        f == GotServer(G, d)
        t == M.doc[d].text
        early == kind = "delete" /\ f \in Incremental
        B == DidOpen(G, f, d)
        C == IF early THEN DidChange(B, f, d, t) ELSE B
        E == [C EXCEPT !.doc[d].text = t + 1, !.doc[d].changed = TRUE]
    IN IF f = NULL THEN [G EXCEPT !.doc[d].text = t + 1, !.doc[d].changed = TRUE]
       ELSE IF early THEN E ELSE DidChange(E, f, d, t)

\* Mutant: the old server keeps the document open.
FiletypeSetKeeps(M, d, old) ==
    IF ~session_loaded THEN M ELSE Visible(ClearCachedFt(StartForFt(M, old), d), d)

\* on_document_filetype_set(), after the filetype changed from old.
FiletypeSet(M, d, old) ==
    LET S     == StartForFt(M, old)
        G     == Get(ClearCachedFt(S, d), d)
        s_old == IF Running(S, old) THEN old ELSE NULL
        s_new == GotServer(G, d)
    IN IF ~session_loaded THEN M
       ELSE IF s_old = s_new THEN G
       ELSE Visible(IF s_old = NULL THEN G ELSE DidClose(G, s_old, d), d)

\* on_document_save()
Saved(M, d) ==
    LET G == Get(M, d)
        f == GotServer(G, d)
    IN IF f = NULL THEN G
       ELSE DidSave(IF d \in G.server[f].open_docs THEN G ELSE Visible(G, d), f, d)

-----------------------------------------------------------------------------
(* The editor *)

\* A new document has no name yet; Geany shows it.
NewDocument(d) ==
    /\ ~doc[d].open
    /\ Commit(Visible([M0 EXCEPT !.doc[d].open = TRUE], d))
    /\ current' = d
    /\ session_loaded' = TRUE
    /\ UNCHANGED update_source

\* A file is opened: on_document_filetype_set() runs, but not yet on_document_visible().
OpenDocument(d, n, f) ==
    /\ ~doc[d].open
    /\ Commit(FiletypeSet([M0 EXCEPT !.doc[d].open = TRUE, !.doc[d].path = n,
                                     !.doc[d].file_type = f], d, None))
    /\ UNCHANGED <<current, session_loaded, update_source>>

\* on_document_activate()
Activate(d) ==
    /\ doc[d].open
    /\ Commit(Visible(M0, d))
    /\ current' = d
    /\ session_loaded' = TRUE
    /\ UNCHANGED update_source

\* lsp_server_get() for d: any feature that is asked whether it applies to d.
Query(d) ==
    /\ doc[d].open
    /\ Commit(Get(M0, d))
    /\ UNCHANGED <<current, session_loaded, update_source>>

\* on_editor_notify(); every document can change, not only the current one.
Edit(d, kind) ==
    /\ doc[d].open
    /\ doc[d].text < MaxText
    /\ LET E == Modified(M0, d, kind)
       IN /\ Commit(E)
          /\ update_source' = IF GotServer(E, d) = NULL THEN update_source
                              ELSE update_source \cup {d}
    /\ UNCHANGED <<current, session_loaded>>

\* Mutant: the timer does not ask whether the document is still there.
UpdateIdleUnchecked(d) ==
    /\ d \in update_source
    /\ LET G == GetFt(M0, d) IN Commit(DidOpen(G, GotServer(G, d), d))
    /\ update_source' = update_source \ {d}
    /\ UNCHANGED <<current, session_loaded>>

\* on_update_idle(), some time after a change: its queries open the document, which
\* may have been closed, or replaced by another at the same address.
UpdateIdle(d) ==
    /\ d \in update_source
    /\ LET G == GetFt(M0, d)
       IN Commit(IF doc[d].open THEN DidOpen(G, GotServer(G, d), d) ELSE M0)
    /\ update_source' = update_source \ {d}
    /\ UNCHANGED <<current, session_loaded>>

\* document_set_filetype() of the current document.
SetFiletype(d, f) ==
    /\ d = current
    /\ f # doc[d].file_type
    /\ Commit(FiletypeSet([M0 EXCEPT !.doc[d].file_type = f], d, doc[d].file_type))
    /\ UNCHANGED <<current, session_loaded, update_source>>

\* on_document_before_save() marks the document, on_document_save() follows.
Save(d) ==
    /\ doc[d].open
    /\ doc[d].path # NULL
    /\ LET G == Get(M0, d)
           f == GotServer(G, d)
           B == [G EXCEPT !.doc[d].changed = FALSE, !.doc[d].marked = @ \/ f # NULL]
           S == Saved(B, d)
       IN /\ Commit(S)
          /\ session_loaded' = (session_loaded \/ S.server # B.server)
    /\ UNCHANGED <<current, update_source>>

\* on_document_before_save_as() closes the document under its old name.
SaveAs(d, n) ==
    /\ doc[d].open
    /\ n # doc[d].path
    /\ LET G == Get(M0, d)
           f == GotServer(G, d)
           C == IF f = NULL THEN G ELSE DidClose(G, f, d)
           S == Saved([C EXCEPT !.doc[d].path = n, !.doc[d].changed = FALSE], d)
       IN /\ Commit(S)
          /\ session_loaded' = (session_loaded \/ GotServer(S, d) # NULL)
    /\ UNCHANGED <<current, update_source>>

\* on_document_close(); the plugin's data of the document goes with it.
CloseDocument(d) ==
    /\ doc[d].open
    /\ LET G == GetFt(M0, d)
           f == GotServer(G, d)
           C == IF f = NULL THEN G ELSE DidClose(G, f, d)
       IN Commit([C EXCEPT !.doc[d] = Closed])
    /\ current' = IF current = d THEN NULL ELSE current
    /\ UNCHANGED <<session_loaded, update_source>>

-----------------------------------------------------------------------------
(* The servers *)

\* on_server_initialized(): the current document and the modified ones are opened.
ServerInitialized(f) ==
    /\ server[f].state = "starting"
    /\ LET R == [M0 EXCEPT !.server[f].state = "running"]
           Q == [R EXCEPT !.doc = [d \in Doc |->
                     IF R.doc[d].open THEN GetFt(R, d).doc[d] ELSE R.doc[d]]]
           served == {d \in Doc : /\ GotServer(Q, d) = f
                                  /\ Q.doc[d].changed \/ d = current}
       IN /\ \E order \in SetToSeqs(served) :
                Commit(DidOpenAll(Q, f, order))
          /\ session_loaded' = (session_loaded \/ current \in served)
    /\ UNCHANGED <<current, update_source>>

\* process_stopped(): a fresh server takes the place of one that crashed.
ServerCrashed(f) ==
    /\ server[f].state \in {"starting", "running"}
    /\ server' = [server EXCEPT ![f] = Fresh]
    /\ UNCHANGED <<doc, current, session_loaded, update_source>>

\* stop_and_init_all_servers() and restart_all_servers().
RestartAll(show) ==
    /\ LET R == [doc |-> doc, server |-> [f \in Ft |-> Fresh]]
       IN Commit(IF show /\ current # NULL THEN Visible(R, current) ELSE R)
    /\ session_loaded' = (show /\ current # NULL)
    /\ UNCHANGED <<current, update_source>>

-----------------------------------------------------------------------------
Next ==
    \/ \E d \in Doc :
          \/ NewDocument(d)
          \/ \E n \in NameOf[d], f \in FtOf[d] : OpenDocument(d, n, f)
          \/ Activate(d)
          \/ Query(d)
          \/ \E kind \in {"insert", "delete"} : Edit(d, kind)
          \/ UpdateIdle(d)
          \/ \E f \in FtOf[d] : SetFiletype(d, f)
          \/ Save(d)
          \/ \E n \in NameOf[d] : SaveAs(d, n)
          \/ CloseDocument(d)
    \/ \E f \in Ft : ServerInitialized(f) \/ ServerCrashed(f)
    \/ \E show \in BOOLEAN : RestartAll(show)

Spec == Init /\ [][Next]_vars

-----------------------------------------------------------------------------
(* Properties *)

\* The server of a document that is open there knows it by its name and has the text
\* and the version the editor has, after every handler.
Mirrored ==
    \A f \in Ft : \A d \in server[f].open_docs :
        /\ doc[d].open /\ UriOf(M0, d) \in DOMAIN server[f].view
        /\ server[f].view[UriOf(M0, d)] = [text |-> doc[d].text, version |-> doc[d].version]

\* No server is told to open what is open there, or to change, save or close what is
\* not, or that a document went back to an earlier version.
ProtocolKept == \A f \in Ft : ~server[f].confused

\* A server keeps at most MRU_SIZE documents, and the two books the plugin keeps of
\* them agree.
OpenBounded ==
    \A f \in Ft :
        /\ Len(server[f].mru_docs) <= MRU_SIZE
        /\ ToSet(server[f].mru_docs) = server[f].open_docs
        /\ IsInjective(server[f].mru_docs)

\* A document is open at the server that serves it and at no other; what was closed,
\* renamed or given another filetype is open nowhere under its old name.
OpenWhereServed ==
    \A f \in Ft : \A u \in DOMAIN server[f].view :
        /\ u[1] \in server[f].open_docs
        /\ u[2] = doc[u[1]].path
        /\ GotServer(M0, u[1]) = f

\* A file whose name matches lang_id_mappings is served by the server they belong to.
MappingUsed ==
    \A d \in Doc : doc[d].path \in MappedName => doc[d].cached_ft \in {NULL, Mapped}
=============================================================================
