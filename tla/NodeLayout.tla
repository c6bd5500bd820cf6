----------------------------- MODULE NodeLayout -----------------------------
(***************************************************************************)
(* How many rows a node takes in the list and which channels each row      *)
(* shows: channel_pairing::group_channels and volume_display, display_rows,*)
(* node_height of node_widget.  A node is what view::Node carries of its   *)
(* channels: `volumes`, one number per channel, and `positions`, the       *)
(* channel names PipeWire reported, which arrive in an event of their own. *)
(* Channels are numbered from 1 here and from 0 in the source.             *)
(***************************************************************************)
EXTENDS Naturals, Sequences, FiniteSets

CONSTANT None

(* LR_PAIRS: the channels the protocol names as left and right of a pair.  *)
LRPairs == {<<"FL", "FR">>, <<"SL", "SR">>, <<"RL", "RR">>, <<"FLC", "FRC">>,
            <<"TFL", "TFR">>, <<"TRL", "TRR">>, <<"RLC", "RRC">>,
            <<"FLW", "FRW">>, <<"FLH", "FRH">>, <<"TSL", "TSR">>,
            <<"LLFE", "RLFE">>, <<"BLC", "BRC">>}

IsLeftOf(c, d) == <<c, d>> \in LRPairs

(* The channels that may still partner channel i: not paired, other side.  *)
Partners(ps, i, paired) ==
    {j \in DOMAIN ps \ (paired \cup {i}) :
        IsLeftOf(ps[i], ps[j]) \/ IsLeftOf(ps[j], ps[i])}

Least(S) == CHOOSE i \in S : \A j \in S : i <= j

(* Mutant of GroupChannels: a partner is taken although it is paired.      *)
GroupChannelsTwice(ps) ==
    [i \in DOMAIN ps |->
        LET free == Partners(ps, i, {})
        IN  IF free = {} THEN <<i>>
            ELSE IF IsLeftOf(ps[i], ps[Least(free)]) THEN <<i, Least(free)>>
            ELSE <<Least(free), i>>]

(* group_channels: <<left, right>> for a pair, <<i>> for a single, in the  *)
(* order of the first channel of each group.                               *)
GroupChannels(ps) ==
    LET scan[i \in 0 .. Len(ps)] ==
            IF i = 0 THEN [paired |-> {}, groups |-> <<>>]
            ELSE LET s == scan[i - 1]
                     free == Partners(ps, i, s.paired)
                     j == Least(free)
                 IN  IF i \in s.paired THEN s
                     ELSE IF free = {}
                     THEN [paired |-> s.paired, groups |-> Append(s.groups, <<i>>)]
                     ELSE [paired |-> s.paired \cup {i, j},
                           groups |-> Append(s.groups,
                               IF IsLeftOf(ps[i], ps[j]) THEN <<i, j>> ELSE <<j, i>>)]
    IN  scan[Len(ps)].groups

(* ChannelState: the view of a list and the two settings that refine it.   *)
ChannelView == {"Unified", "Linked", "Channels"}

IsImbalanced(n) == \E c \in DOMAIN n.volumes : n.volumes[c] # n.volumes[1]

(* single_pair: the whole layout is one pair.                              *)
SinglePair(n) ==
    /\ n.positions # None
    /\ LET gs == GroupChannels(n.positions)
       IN  Len(gs) = 1 /\ Len(gs[1]) = 2

WantsSplit(cs, n) ==
    \/ cs.view = "Linked"
    \/ cs.view = "Unified" /\ IsImbalanced(n) /\ cs.imbalance = "Split"

VolumeDisplay(cs, n) ==
    IF Len(n.volumes) <= 1 THEN "Unified"
    ELSE IF cs.view = "Channels" THEN "Stacked"
    ELSE IF ~WantsSplit(cs, n) THEN "Unified"
    ELSE IF cs.split = "Radiating" /\ SinglePair(n) THEN "Radiating" ELSE "Stacked"

(* display_rows: without positions, or in Channels view, a row per channel.*)
DisplayRows(cs, n) ==
    IF cs.view = "Channels" \/ cs.split = "Stacked" \/ n.positions = None
    THEN [c \in DOMAIN n.volumes |-> <<c>>]
    ELSE GroupChannels(n.positions)

NodeHeight(cs, n, compact) ==
    IF VolumeDisplay(cs, n) = "Stacked" THEN 1 + Len(DisplayRows(cs, n))
    ELSE IF compact THEN 2 ELSE 3

(* The channels the rows of a node show; a Unified bar averages them all.  *)
ShownIn(cs, n) ==
    CASE VolumeDisplay(cs, n) = "Unified" -> <<[c \in DOMAIN n.volumes |-> c]>>
      [] VolumeDisplay(cs, n) = "Radiating" -> GroupChannels(n.positions)
      [] OTHER -> DisplayRows(cs, n)
=============================================================================
