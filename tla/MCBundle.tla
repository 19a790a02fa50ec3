------------------------------ MODULE MCBundle ------------------------------
EXTENDS BundleProofs

\* Every name of up to three symbols, and names that are too long, end in what is
\* trimmed, or become reserved when they are cut.
Symbols == {"con", "CON", "eacute", "e+acute", "nbsp", "a", "/", " ", "."}

Spaces == [i \in 1 .. 6 |-> " "]

MCNames ==
  UNION {[1 .. n -> Symbols] : n \in 0 .. 3}
  \cup {<<"con">> \o Spaces \o <<"a">>, <<"a", "a", "a", "a", "a", " ", "a">>,
        <<"a", "a", "a", "a", "a", "a", ".", "a">>, <<"a", ".">> \o Spaces \o <<".", "a">>,
        <<".", "receipt", ".", "json">>, <<".", "receipt", " ", ".", "json">>,
        <<"a", "eacute", "eacute", "eacute", ".", "a">>}

\* Names that are one file, that cut to one file, or that look like a numbered one.
MCFewNames ==
  {<<"a">>, <<"A", " ">>, <<"a", " ", "(2)">>, <<"a", "a", "a", "a", " ", "(2)">>,
   <<"e+acute", ".", "a">>, <<"eacute", ".", "a">>, <<"CON">>}
=============================================================================
