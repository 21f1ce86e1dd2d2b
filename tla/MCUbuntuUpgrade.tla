-------------------------- MODULE MCUbuntuUpgrade --------------------------
(* Instances of UbuntuUpgrade: profiles shipped in config/profiles and     *)
(* variations an operator may make of them.                                *)
EXTENDS UbuntuUpgrade

(* hdr-4k120: 25.10, in one or two hops. *)
Pinned == [target |-> 2510, candidates |-> <<>>, selection |-> "", min |-> None,
           auto |-> TRUE, nonLTS |-> TRUE, direct |-> "auto"]

(* hdr-4k120-auto: the resolver picks. *)
Resolved == [Pinned EXCEPT !.target = None, !.candidates = <<2604, 2510, 2404>>,
                           !.selection = "latest-compatible"]

(* 26.04 is taken under "any" only; forced, every hop is a direct one. *)
Forced == [Resolved EXCEPT !.selection = "any", !.direct = "force"]

(* Refusals: non-LTS, no automatic upgrade, do-release-upgrade, no target.  *)
Cautious == [Pinned EXCEPT !.nonLTS = FALSE]
LTSOnly == [Resolved EXCEPT !.nonLTS = FALSE]
ByHand == [Resolved EXCEPT !.auto = FALSE]
Off == [Pinned EXCEPT !.direct = "off"]
Nothing == [Pinned EXCEPT !.target = None]
TwoExact == [Resolved EXCEPT !.selection = "exact"]
AtLeast == [Resolved EXCEPT !.selection = "min-version", !.min = 2510]

OnHost(p, r, bios, saveFails) ==
  [profile |-> p, release |-> r, bios |-> bios, saveFails |-> saveFails]

(* Two hops on a BIOS host, one on a UEFI host whose disk may be full, and  *)
(* every refusal.                                                           *)
AllHosts ==
  {OnHost(Forced, 2204, TRUE, FALSE), OnHost(Pinned, 2404, FALSE, TRUE),
   OnHost(Resolved, 2310, FALSE, FALSE)}
    \cup {OnHost(p, 2404, FALSE, TRUE) : p \in {Cautious, ByHand, Off, Nothing, TwoExact}}
    \cup {OnHost(p, 2510, FALSE, TRUE) : p \in {LTSOnly, AtLeast}}

Noble == {OnHost(Pinned, 2404, FALSE, FALSE)}
=============================================================================
