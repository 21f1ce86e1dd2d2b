------------------------------ MODULE MCDeploy ------------------------------
(* Small pipelines cut out of applyPhases for TLC. *)
EXTENDS Deploy, PhaseTable

CONSTANT Names   \* the phases kept, in pipeline order

MCNPhases == Len(Names)
MCBodyEnds == [i \in 1..Len(Names) |-> BodyEndsOf(Names[i])]
MCEarlyEnds == [i \in 1..Len(Names) |-> EarlyEndsOf(Names[i])]
MCReopening == {i \in 1..Len(Names) : Reopens(Names[i])}

RebootPair == <<"ubuntu_upgrade", "nvidia_driver">>
RebootThree == <<"ubuntu_upgrade", "edid", "stream_validate">>
LastTwo == <<"tailscale", "optional_apps">>
Mixed == <<"nvidia_driver", "tailscale">>

Anywhere == ControlPoint \ {"idle"}
(* Every point but the one between emptying and filling the unit file. *)
NotInsideUnitWrite == Anywhere \ {"unit_write"}
=============================================================================
