---------------------------- MODULE MCUntrustedOs ----------------------------
(* Constant values for model-checking UntrustedOs.                         *)
EXTENDS UntrustedOs, FiniteSets

MCPerms == {{"r", "w"}, {"r", "w", "x"}, {"w"}}
MCSrcTcs == {[cssa |-> 0, nssa |-> 1, ossa |-> 0, dbgoptin |-> FALSE],
             [cssa |-> 1, nssa |-> 1, ossa |-> 2, dbgoptin |-> TRUE]}
MCDisplacements == {-1, 0, 1}

-----------------------------------------------------------------------------
(* Two enclaves: the first with a TCS and its frame, the second with a REG *)
(* page that is the frame of a TCS still to come.  The first steps of a    *)
(* behaviour add these pages, readable and writable where they are REG     *)
(* pages; from then on every leaf is free, on these pages and on the one   *)
(* that is left.                                                           *)
MCPair == <<[pt |-> "SECS", secs |-> NoPage], [pt |-> "TCS", secs |-> 0],
            [pt |-> "REG", secs |-> 0],
            [pt |-> "SECS", secs |-> NoPage], [pt |-> "REG", secs |-> 3]>>

BuildPair ==
  LET new == Cardinality({p \in Page : epcm[p].valid})
  IN  new < Len(MCPair) =>
        /\ epcm'[new].valid
        /\ epcm'[new].pt = MCPair[new + 1].pt
        /\ epcm'[new].secs = MCPair[new + 1].secs
        /\ epcm'[new].pt # "SECS" => epcm'[new].addr = new
        /\ epcm'[new].pt = "REG" => epcm'[new].perm = {"r", "w"}
        /\ epcm'[new].pt = "TCS" => tcs'[new].ossa = new + 1

MCPairSpec == Init /\ [][Next /\ BuildPair]_vars

MCPairDisplacements == {-1, 0}
MCPairPerms == {{"r", "w"}, {"r", "w", "x"}}
MCPairTcs == {[cssa |-> 0, nssa |-> 1, ossa |-> 2, dbgoptin |-> FALSE],
              [cssa |-> 0, nssa |-> 1, ossa |-> 4, dbgoptin |-> FALSE]}
=============================================================================
