------------------------- MODULE MCClusterNetworks -------------------------
(* ClusterNetworks for TLC: two IPv4 prefixes, an IPv6 one, and specs that   *)
(* are plain, advertise node IPs next to an underlay, or have entries that   *)
(* only a CRD without its validation rules admits.                           *)
EXTENDS ClusterNetworks

MCCIDRs == {1, 2, 6}
MCIPv4 == {1, 2}

MCSpecs == {[forbidden |-> {}, underlay |-> {}, nodeIP |-> FALSE],
            [forbidden |-> {6}, underlay |-> {2}, nodeIP |-> TRUE],
            [forbidden |-> {0}, underlay |-> {}, nodeIP |-> FALSE]}

MCItems == {[accepted |-> TRUE, exports |-> {"PodNetwork"}, networks |-> {"DefaultNetwork"}]}
=============================================================================
