------------------------------ MODULE MCPanels ------------------------------
(***************************************************************************)
(* Model values for Panels: the events of the ring, those of Monitor (its  *)
(* TypeOK says that they are the same), and what is interchangeable.       *)
(***************************************************************************)
EXTENDS Panels, TLC

MCEvent ==
    [at : {-1 - Window - MaxSkew} \cup -MaxSkew..MaxNow + MaxSkew,
     cmd : {"get", "set", ""}]

(* The commands that are counted, and the servers but the first.            *)
Symmetry == Permutations(Cmds) \cup Permutations(Addrs \ {Origin})

=============================================================================
