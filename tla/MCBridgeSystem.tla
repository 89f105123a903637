--------------------------- MODULE MCBridgeSystem ---------------------------
(***************************************************************************)
(* BridgeSystem for TLC.  A run explores one or more scenarios, chosen in  *)
(* Init: all tasks of all of them together have too many interleavings,    *)
(* so each leaves out what its question does not need.                     *)
(***************************************************************************)
EXTENDS BridgeSystem, TLC

CONSTANT Scenarios   \* the scenarios explored

ASSUME ScenariosAssumption == Scenarios \subseteq {"reconnect", "orphan", "crash", "sweep", "all"}

VARIABLE scenario

mcVars == <<vars, scenario>>

Connecting(c) == conn[c] # "idle" \/ mon[c] # "idle"
OneConnect == \A b, c \in Conns : Connecting(b) /\ Connecting(c) => b = c
NoHealthCheck == health = IdleTask /\ login # "bad_credentials"
NoAudit == jobs[Orphan].status = "none"
NoSweep == sweep = "idle"
\* A disconnect runs from beginning to end while no reconnect is under way.
DisconnectAlone == disc = IdleTask \/ \A c \in Conns : ~Connecting(c)
\* The sweep deletes the row it selected, not one that took its place.
SweepAtOnce == sweep = "delete" => \E r \in rows : r.status = "connecting"

InScenario ==
    CASE scenario = "reconnect" -> NoHealthCheck /\ NoAudit /\ restarts = 0
      [] scenario = "orphan" -> OneConnect /\ NoSweep /\ disc = IdleTask /\ restarts = 0
      [] scenario = "crash" -> OneConnect /\ NoSweep /\ NoHealthCheck /\ NoAudit
      [] scenario = "sweep" -> DisconnectAlone /\ SweepAtOnce
      [] scenario = "all" -> TRUE

MCInit == Init /\ scenario \in Scenarios
MCNext == Next /\ UNCHANGED scenario /\ InScenario'
MCSpec == MCInit /\ [][MCNext]_mcVars
\* For "all" only, which leaves out nothing.
MCFairSpec == MCSpec /\ Fairness

\* Connect invocations are interchangeable: nothing compares them and no
\* action prefers one.
ConnSymmetry == Permutations(Conns)
=============================================================================
