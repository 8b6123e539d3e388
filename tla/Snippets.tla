------------------------------ MODULE Snippets ------------------------------
(***************************************************************************)
(* Snippets of completion items: lsp_utils_process_snippet() of            *)
(* src/lsp/src/lsp-utils.c, which removes tab stops and variables from a   *)
(* text and says where the carets go.  A text is a sequence of one-        *)
(* character strings.                                                      *)
(***************************************************************************)
EXTENDS Integers, SequencesExt

Digit == {"0", "1", "2"}
Alpha == {"a", "b", "_"}

\* zero, one: the positions in out of the final tab stop $0 and of the first one, $1.
Start == [mode |-> "outer", depth |-> 0, out |-> <<>>, zero |-> {}, one |-> {}]

\* Mutant: the first digit counts, so that $10 is taken for $1.
TabStopFirstDigit(st, s, i) ==
    CASE s[i] = "0" -> [st EXCEPT !.zero = @ \cup {Len(st.out)}]
      [] s[i] = "1" -> [st EXCEPT !.one = @ \cup {Len(st.out)}]
      [] OTHER -> st

\* The tab stop that begins with the digit at i, when that is its only digit.
TabStop(st, s, i) ==
    IF i < Len(s) /\ s[i + 1] \in Digit THEN st
    ELSE CASE s[i] = "0" -> [st EXCEPT !.zero = @ \cup {Len(st.out)}]
           [] s[i] = "1" -> [st EXCEPT !.one = @ \cup {Len(st.out)}]
           [] OTHER -> st

Copied(st, text) == [st EXCEPT !.mode = "outer", !.out = @ \o text]

\* Inside of ${...}: everything to the brace that closes it is dropped.
InBrace(st, c) ==
    LET depth == st.depth + (IF c = "{" THEN 1 ELSE 0) - (IF c = "}" THEN 1 ELSE 0)
    IN [st EXCEPT !.depth = depth, !.mode = IF depth = 0 THEN "outer" ELSE "skip"]

\* The character at i of the snippet s.  A character that ends a tab stop or a variable
\* is copied without a look at what it is.
Step(st, s, i) ==
    LET c == s[i]
    IN CASE st.mode = "outer" -> IF c = "$" THEN [st EXCEPT !.mode = "dollar"]
                                 ELSE Copied(st, <<c>>)
         [] st.mode = "dollar" ->
              CASE c \in Digit -> [TabStop(st, s, i) EXCEPT !.mode = "digits"]
                [] c \in Alpha -> [st EXCEPT !.mode = "name"]
                [] c = "{" -> [st EXCEPT !.mode = "brace", !.depth = 1]
                [] OTHER -> Copied(st, <<"$", c>>)
         [] st.mode = "digits" -> IF c \in Digit THEN st ELSE Copied(st, <<c>>)
         [] st.mode = "name" -> IF c \in Digit \cup Alpha THEN st ELSE Copied(st, <<c>>)
         [] st.mode = "brace" -> InBrace(IF c \in Digit THEN TabStop(st, s, i) ELSE st, c)
         [] st.mode = "skip" -> InBrace(st, c)

\* lsp_utils_process_snippet()
ProcessSnippet(s) ==
    LET states[i \in 0 .. Len(s)] == IF i = 0 THEN Start ELSE Step(states[i - 1], s, i)
        end == states[Len(s)]
    IN [text |-> end.out,
        carets |-> IF end.one # {} THEN end.one
                   ELSE IF end.zero # {} THEN end.zero
                   ELSE {Len(end.out)}]
=============================================================================
