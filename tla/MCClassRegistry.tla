-------------------------- MODULE MCClassRegistry --------------------------
EXTENDS AotClasses

\* Up to three declarations in every order, with cycles, a base that is missing
\* and a name that is declared twice; the second may have two bases.
Unknown == 3
Single == [name : 1..2, bases : {<<>>, <<1>>, <<2>>, <<Unknown>>}]
Double == [name : 1..3, bases : {<<>>, <<1>>, <<1, 2>>, <<2, 3>>, <<Unknown>>}]
MCModules ==
    {<<>>} \cup {<<d>> : d \in Single}
      \cup {<<d, e, f>> : d \in Single, e \in Double, f \in Single}
=============================================================================
