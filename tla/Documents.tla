----------------------------- MODULE Documents -----------------------------
(***************************************************************************)
(* What the features of the plugin share: the documents of the editor, the *)
(* language server of their filetype and the calls it has not answered.    *)
(*                                                                         *)
(* LspSync models the mirroring of texts and LspServer the life of a       *)
(* server in full; here a server runs or does not, and its process has the *)
(* text of every document that is open there.  A crashed server is freed   *)
(* some time after its successor took its place.                           *)
(***************************************************************************)
EXTENDS Naturals, Sequences, FiniteSets, SequencesExt

CONSTANTS
    Doc,       \* the GeanyDocuments: addresses that are used again for other files
    NULL,      \* the C NULL pointer
    MaxText,   \* bound: the texts each document goes through
    MaxCalls   \* bound: calls that wait for an answer

ASSUME DocAssumption == NULL \notin Doc
ASSUME BoundAssumption == MaxText \in [Doc -> Nat \ {0}] /\ MaxCalls \in Nat

VARIABLES
    enabled,   \* the features lsp.conf switches on
    doc,       \* the documents
    current,   \* document_get_current()
    server,    \* the server of their filetype
    calls      \* calls waiting for an answer, in the order they were made

documentVars == <<enabled, doc, current, server, calls>>

-----------------------------------------------------------------------------
\* A text is told from every other text this address had, in this file or another.
Text == UNION {1 .. MaxText[d] : d \in Doc}

\* timer: the timer of on_update_idle() runs.
DocType == [open : BOOLEAN, text : Text, timer : BOOLEAN]

\* unfreed: the documents that were open at a server that crashed and is not freed yet.
ServerType == [running : BOOLEAN, open_docs : SUBSET Doc, unfreed : SUBSET Doc]

DocumentsOK ==
    /\ doc \in [Doc -> DocType]
    /\ current \in {d \in Doc : doc[d].open} \cup {NULL}
    /\ server \in ServerType

DocumentsInit ==
    /\ doc = [d \in Doc |-> [open |-> FALSE, text |-> 1, timer |-> FALSE]]
    /\ current = NULL
    /\ server = [running |-> FALSE, open_docs |-> {}, unfreed |-> {}]
    /\ calls = <<>>

-----------------------------------------------------------------------------
\* A call that names document d; the server answers it from the text it had then.
Call(method, d, arg) == [method |-> method, doc |-> d, text |-> doc[d].text, arg |-> arg]

\* The calls of a feature that is switched on.
Asks(feature, cs) == IF feature \in enabled THEN cs ELSE <<>>

\* How many calls of a method wait for d.
Awaited(method, d) ==
    Cardinality({i \in 1 .. Len(calls) : calls[i].method = method /\ calls[i].doc = d})

Pending(method, d) == Awaited(method, d) > 0

\* A server answers the calls of one method in their order; only the calls named here
\* may overtake each other.
Reordered == {"completion"}

Answerable(i) ==
    /\ i \in 1 .. Len(calls)
    /\ calls[i].method \in Reordered \/ \A j \in 1 .. i - 1 : calls[j].method # calls[i].method

WithoutCall(i) == RemoveAt(calls, i)

MakeCalls(cs) ==
    /\ Len(calls) + Len(cs) <= MaxCalls
    /\ calls' = calls \o cs

\* Nothing is under way that could change what is known of d.
Settled(method, d) ==
    /\ server.running /\ d \in server.open_docs
    /\ doc[d].open /\ ~doc[d].timer
    /\ ~Pending(method, d)
=============================================================================
