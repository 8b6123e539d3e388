------------------------------ MODULE Popups ------------------------------
(***************************************************************************)
(* Hover and signature popups: src/lsp/src/lsp-popup.c, lsp-hover.c and    *)
(* lsp-signature.c.  There is one popup window; the mouse and the keyboard *)
(* contend for it, each through a server that answers later.               *)
(***************************************************************************)
EXTENDS Documents

VARIABLE popup
    \* doc: the document popup_sci belongs to while the popup is shown, or NULL; kind:
    \* popup_kind; focused: whether the editor had the focus when it was shown (history);
    \* dwell: dwell_doc while dwell_timer_source runs, or NULL; focus: the editor of the
    \* current document has the focus

PopupOK ==
    popup \in [doc : Doc \cup {NULL}, kind : {"hover", "signature"}, focused : BOOLEAN,
               dwell : Doc \cup {NULL}, focus : BOOLEAN]

PopupInit ==
    popup = [doc |-> NULL, kind |-> "hover", focused |-> FALSE, dwell |-> NULL, focus |-> FALSE]

\* lsp_popup_showing_signature()
ShowingSignature(p, d) == p.doc = d /\ p.kind = "signature"

\* lsp_popup_hide()
PopupHidden(p, d) == IF p.doc = d THEN [p EXCEPT !.doc = NULL] ELSE p

\* lsp_signature_hide_calltip()
CalltipHidden(p, d) == IF ShowingSignature(p, d) THEN PopupHidden(p, d) ELSE p

\* show_popup() for d
PopupShown(p, d, kind) ==
    IF server.running THEN [p EXCEPT !.doc = d, !.kind = kind, !.focused = p.focus] ELSE p

\* Mutant: signatures survive the focus, too.
FocusLostHover(p) ==
    IF p.focus /\ p.doc = current /\ p.kind = "hover" THEN [p EXCEPT !.focus = FALSE, !.doc = NULL]
    ELSE [p EXCEPT !.focus = FALSE]

\* on_sci_focus_out()
FocusLost(p) ==
    IF p.focus /\ p.doc = current THEN [p EXCEPT !.focus = FALSE, !.doc = NULL]
    ELSE [p EXCEPT !.focus = FALSE]

\* Another document is shown; the focus may stay with the editor.
PopupSwitched(d, focus) ==
    IF d = current THEN popup ELSE [FocusLost(popup) EXCEPT !.focus = focus]

\* Its Scintilla is destroyed.
PopupClosed(d) == PopupHidden(IF d = current THEN FocusLost(popup) ELSE popup, d)

\* SCN_UPDATEUI after the caret moved or the view was scrolled; at SCN_CHARADDED only
\* signatures stay.
PopupMoved(p, d) == PopupHidden(CalltipHidden(p, d), d)
PopupTyped(p, d) == IF ShowingSignature(p, d) THEN p ELSE PopupHidden(p, d)

-----------------------------------------------------------------------------
(* The mouse *)

\* on_sci_motion_notify(): the timer starts anew.
Motion ==
    /\ current # NULL /\ popup.dwell # current
    /\ popup' = [popup EXCEPT !.dwell = current]
    /\ UNCHANGED calls

\* on_sci_leave_notify(); the mouse may have gone into the popup.
Leave(inside) ==
    /\ current # NULL
    /\ LET p == [popup EXCEPT !.dwell = NULL]
       IN popup' = IF inside \/ ShowingSignature(p, current) THEN p ELSE PopupHidden(p, current)
    /\ UNCHANGED calls

\* on_dwell_timer_expired(): there is no text under the mouse, or a diagnostic, which may
\* not be displayed, or the server is asked, or does not know hover.
DwellExpired ==
    /\ popup.dwell # NULL
    /\ LET d    == popup.dwell
           p    == [popup EXCEPT !.dwell = NULL]
           dead == ~doc[d].open \/ ~server.running \/ d # current \/ ~p.focus
       IN \/ /\ dead \/ ShowingSignature(p, d)
             /\ popup' = p /\ MakeCalls(<<>>)
          \/ /\ ~dead /\ ~ShowingSignature(p, d)
             /\ \/ popup' = PopupHidden(p, d) /\ MakeCalls(<<>>)
                \/ popup' \in {p, PopupShown(p, d, "hover")} /\ MakeCalls(<<>>)
                \/ popup' = p /\ MakeCalls(<<Call("hover", d, FALSE)>>)

-----------------------------------------------------------------------------
(* The keyboard *)

\* The user asks for the popup at the caret; the focus may be in a menu.
HoverPopup ==
    /\ current # NULL /\ server.running
    /\ popup' = popup
    /\ MakeCalls(<<Call("hover", current, TRUE)>>)

\* lsp_signature_send_request(): after a closing bracket the popup is hidden, after a
\* character that triggers nothing it stays.
SignatureRequest(asks) ==
    /\ current # NULL /\ server.running
    /\ popup' = IF asks THEN popup ELSE CalltipHidden(popup, current)
    /\ MakeCalls(IF asks THEN <<Call("signature", current, NULL)>> ELSE <<>>)

\* Escape, as far as there is no autocompletion list, a click, a moved caret.
Escape ==
    /\ popup.doc # NULL
    /\ popup' = PopupMoved(popup, popup.doc)
    /\ UNCHANGED calls

\* The focus goes to another widget, or comes back.
Focus ==
    /\ current # NULL
    /\ popup' = IF popup.focus THEN FocusLost(popup) ELSE [popup EXCEPT !.focus = TRUE]
    /\ UNCHANGED calls

PopupMoves ==
    /\ "popup" \in enabled
    /\ \/ Motion \/ \E inside \in BOOLEAN : Leave(inside)
       \/ DwellExpired
       \/ HoverPopup \/ \E asks \in BOOLEAN : SignatureRequest(asks)
       \/ Escape \/ Focus

-----------------------------------------------------------------------------
(* The answers *)

\* Mutant: the answer is compared to what is shown when nothing is to be shown, only.
HoverShownLate(c, text) ==
    IF c.doc # current \/ ~(c.arg \/ popup.focus) THEN popup
    ELSE IF text THEN PopupShown(popup, current, "hover")
    ELSE IF ~c.arg /\ ~ShowingSignature(popup, current) THEN PopupHidden(popup, current)
    ELSE popup

\* hover_cb() with a text to show or without, which errors are, too.
HoverShown(c, text) ==
    IF c.doc # current \/ ~(c.arg \/ popup.focus) THEN popup
    ELSE IF ~c.arg /\ ShowingSignature(popup, current) THEN popup
    ELSE IF text THEN PopupShown(popup, current, "hover")
    ELSE IF ~c.arg THEN PopupHidden(popup, current)
    ELSE popup

\* signature_cb(): the caret may have left the place that was asked for, which does not
\* matter to a null answer when a signature is shown.
SignatureShown(c, found, near) ==
    IF c.doc # current THEN popup
    ELSE IF found = "null" /\ ShowingSignature(popup, current) THEN CalltipHidden(popup, current)
    ELSE IF ~near THEN popup
    ELSE IF found = "some" THEN PopupShown(popup, current, "signature")
    ELSE CalltipHidden(popup, current)

HoverAnswered(c) == \E text \in BOOLEAN : popup' = HoverShown(c, text)

SignatureAnswered(c) ==
    \E found \in {"null", "none", "some"}, near \in BOOLEAN : popup' = SignatureShown(c, found, near)

\* Calls that failed: hover_cb() alone looks at them.
PopupFailed(cs) ==
    IF \E i \in 1 .. Len(cs) : cs[i].method = "hover" /\ HoverShown(cs[i], FALSE) # popup
    THEN [popup EXCEPT !.doc = NULL] ELSE popup

-----------------------------------------------------------------------------
\* A popup that came up while the editor had the focus stays with its document: it is not
\* left over another one, nor over another window, however late it came.
PopupOverCurrent ==
    popup.doc # NULL /\ popup.focused => popup.doc = current /\ popup.focus

\* Signature popups are driven by the keyboard: what the mouse does, did or asked for
\* before neither replaces nor hides them.
SignatureKept ==
    [][LET mouse == \/ Motion \/ DwellExpired \/ \E inside \in BOOLEAN : Leave(inside)
                    \/ \E i \in 1 .. Len(calls) :
                          /\ calls[i].method = "hover" /\ ~calls[i].arg
                          /\ calls' = WithoutCall(i)
       IN mouse /\ ShowingSignature(popup, current)
              => popup'.doc = popup.doc /\ popup'.kind = popup.kind]_popup
=============================================================================
