-------------------------------- MODULE MCMvs --------------------------------
(***************************************************************************)
(* A main module and three others.  Versions 2 and 3 differ in build       *)
(* metadata only.  Old files have go 1.16, new ones go 1.21.               *)
(***************************************************************************)
EXTENDS Mvs, TLC

MCModule  == {"main", "a", "b", "c"}
MCVersion == {1, 2, 3}
MCRank    == [v \in MCVersion |-> IF v = 3 THEN 2 ELSE v]

Go(n)        == [kind |-> "go", minor |-> n]
Needs(m, v)  == [kind |-> "require", mod |-> m, ver |-> v, indirect |-> FALSE]
Entry(m, v)  == [kind |-> "entry", mod |-> m, ver |-> v, indirect |-> TRUE]
Bare(k)      == [kind |-> k]

Old(lines) == <<Go(16)>> \o lines
New(lines) == <<Go(21)>> \o lines

\* superseded: a@1, superseded by a@2, alone requires b and the higher c.
\* returning: a and b require main back, at versions of their own.
MCWorld == {"superseded", "returning"}

MCText ==
    [ superseded |->
        (  <<"main", 1>> :> Old(<<Needs("a", 1), Bare("opensRequire"), Entry("b", 1), Bare("closes")>>)
        @@ <<"a", 1>> :> Old(<<Needs("b", 1), Needs("c", 2), Bare("opens"), Entry("c", 2), Bare("closes")>>)
        @@ <<"a", 2>> :> New(<<Needs("c", 1)>>)
        @@ <<"b", 1>> :> New(<<Needs("a", 2), Bare("opens"), Entry("c", 3), Bare("closes")>>)
        @@ <<"c", 1>> :> New(<<Needs("b", 1)>>)),
      returning |->
        (  <<"main", 1>> :> New(<<Needs("a", 2)>>)
        @@ <<"a", 2>> :> Old(<<Needs("main", 2), Needs("b", 1)>>)
        @@ <<"b", 1>> :> New(<<Needs("c", 1)>>)
        @@ <<"main", 2>> :> New(<<Needs("c", 2)>>)
        @@ <<"c", 2>> :> New(<<Needs("a", 2), Needs("b", 2), Needs("b", 3)>>)) ]

\* The published main module, and local ones: two vintages, and an empty file.
MCQuery ==
    { [local |-> FALSE, version |-> 1, text |-> <<>>],
      [local |-> TRUE,  version |-> 1, text |-> Old(<<Needs("a", 1), Needs("b", 1)>>)],
      [local |-> TRUE,  version |-> 1,
       text  |-> New(<<Bare("opensRequire"), Entry("a", 2), Entry("b", 1), Bare("closes"), Needs("b", NoVersion)>>)],
      [local |-> TRUE,  version |-> 1, text |-> <<>>] }
=============================================================================
