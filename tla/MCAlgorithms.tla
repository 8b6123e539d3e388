---------------------------- MODULE MCAlgorithms ----------------------------
EXTENDS Algorithms

Part(source, text, stop, ends) == [source |-> source, text |-> text, stop |-> stop, ends |-> ends]

MCDocument == <<"p", "q", "r">>
MCInserted == {<<>>, <<"z", "y">>}

\* a  .  $0  $1  $10  $ab  ${1}  ${0:{a}}  ${1:${0}}  ${a}  $.
MCItem ==
    {Part(<<"a">>, <<"a">>, "", ""), Part(<<".">>, <<".">>, "", ""),
     Part(<<"$", "0">>, <<>>, "0", "digit"), Part(<<"$", "1">>, <<>>, "1", "digit"),
     Part(<<"$", "1", "0">>, <<>>, "", "digit"), Part(<<"$", "a", "b">>, <<>>, "", "name"),
     Part(<<"$", "{", "1", "}">>, <<>>, "1", ""),
     Part(<<"$", "{", "0", ".", "{", "a", "}", "}">>, <<>>, "0", ""),
     Part(<<"$", "{", "1", ".", "$", "{", "0", "}", "}">>, <<>>, "1", ""),
     Part(<<"$", "{", "a", "}">>, <<>>, "", ""), Part(<<"$", ".">>, <<"$", ".">>, "", "")}

\* Classes and their members from the top of a text to its end: one or two classes, of the
\* same or different names, at different places, on one line or several; or no symbols.
Sym(name, scope, line) == [name |-> name, scope |-> scope, line |-> line]

Class(name, line, members) ==
    <<Sym(name, <<>>, line)>> \o [k \in DOMAIN members |-> Sym(members[k], <<name>>, line + k)]

Members == {<<>>, <<"x">>, <<"y">>, <<"x", "y">>}

MCSymbolLists ==
    {<<>>}
    \cup {Class(a, line, ms) : a \in {"A"}, line \in {1, 4}, ms \in Members}
    \cup {Class(a, line, ms) \o Class(b, line + 3, ns) :
              a, b \in {"A", "B"}, line \in {1, 4}, ms, ns \in Members}

MCMatch == [l \in {"foo", "foobar", "FOO", "xfoo", "f-o", "zzz"} |->
    CASE l = "foo" -> 0 [] l = "foobar" -> 1 [] l = "FOO" -> 2 [] l = "xfoo" -> 4 [] OTHER -> 5]

MCCompletionItem == [label : {"foo", "foobar", "xfoo", "f-o", "zzz"}, sort : 1 .. 2, snippet : BOOLEAN]
=============================================================================
