-------------------------------- MODULE MCText --------------------------------
(***************************************************************************)
(* The instance of the filters, MCFilters, with one of poornames.sh, a     *)
(* script of filters: two runs of it, on a directory of its own, the one   *)
(* the script is started in, the root, a link, a file, and a directory     *)
(* that cd cannot enter.  They share no state: what the others have does   *)
(* not change.                                                             *)
(***************************************************************************)
EXTENDS MCFilters, PoorNames, TLC

CONSTANTS Project, Link, File, Closed

MCTargetOf ==
  (Root :> Root) @@ (Here :> Here) @@ (Project :> Project) @@ (Closed :> Closed)
    @@ (Link :> Project) @@ (File :> NoDir) @@ (Dash :> NoDir)

Name(start, odd, long, lower) ==
  [start |-> start, odd |-> odd, long |-> long, lower |-> lower]

(* . and .., a good name, one that breaks one guideline, one that breaks two,*)
(* two that differ in case, and ...                                         *)
MCListing ==
  (Project :> { Name("dots only", FALSE, FALSE, "."), Name("x", FALSE, FALSE, "a"),
                Name("x", FALSE, TRUE, "b"), Name("-", TRUE, FALSE, "c"),
                Name("x", FALSE, FALSE, "d"), Name("x", TRUE, FALSE, "d") })
    @@ (Here :> { Name("x", FALSE, FALSE, "e"), Name(".x", FALSE, FALSE, "f"),
                  Name("...", FALSE, FALSE, "...") })
    @@ (Root :> { Name("..x", FALSE, FALSE, "g") })
    @@ (Closed :> { Name("x", FALSE, TRUE, "h") })

MCOperands ==
  { <<>>, <<Project>>, <<Here>>, <<Closed>>, <<Link>>, <<File>>, <<Dash>>,
    <<Project, Here>>, <<Project, Here, Root>> }

(* A directory in which every name that breaks a guideline is one that some *)
(* filter lists.                                                            *)
OnlyProject == { <<Project>> }
------------------------------------------------------------------------------
PoorNamesIdle == Init /\ \A r \in Runs : run[r].args = <<>>

FiltersIdle ==
  /\ program = "poornames" /\ pc = "idle" /\ rest = <<>>
  /\ Tr2Idle /\ SortIdle /\ FileIdle

TextInit ==
  \/ MCInit /\ PoorNamesIdle
  \/ FiltersIdle /\ Init

TextNext ==
  \/ MCNext /\ UNCHANGED vars
  \/ program = "poornames" /\ Next /\ UNCHANGED MCVars

TextVars == <<MCVars, vars>>
TextSpec ==
  /\ TextInit /\ [][TextNext]_TextVars
  /\ WF_TextVars((SfrobSteps \/ SfrobuSteps) /\ UNCHANGED vars)
===============================================================================
