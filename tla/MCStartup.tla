------------------------------ MODULE MCStartup ------------------------------
EXTENDS Startup

CONSTANTS h1, h2, h3

MCCwd == <<"/", "proxy">>

\* Set and not set, absolute and relative, with and without a word.
Plain == [workdir |-> <<>>, slug |-> <<>>, env |-> <<>>, home |-> <<"/">>, key |-> TRUE]

MCFlags ==
    { [Plain EXCEPT !.workdir = d, !.slug = s] :
        d \in { <<>>, <<"/", "work", "web">>, <<".", "web">>, <<"/", "--">> }, s \in { <<>>, <<"mine">> } }
    \union
    { [Plain EXCEPT !.env = e, !.home = h, !.key = FALSE] :
        e \in { <<>>, <<"/", "work">> }, h \in { <<>>, <<"/", "web">> } }
=============================================================================
