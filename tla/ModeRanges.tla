----------------------------- MODULE ModeRanges -----------------------------
(***************************************************************************)
(* The table of mode activation conditions, and the rates table, as the    *)
(* host's setters and getters (sitl_local.c) read and rewrite them.        *)
(*                                                                         *)
(* A condition says which range of which AUX channel switches a box on.  A *)
(* slot of the table is unconfigured when it is all zero, and box 0 is     *)
(* ARM: the ARM condition of channel 0 with the range 0..0 is an empty     *)
(* slot.                                                                   *)
(*                                                                         *)
(* External: removeModeActivationCondition, rcControlsInit and the limits  *)
(* of the rate types, which are the firmware's.                            *)
(***************************************************************************)
EXTENDS Integers, FiniteSets

CONSTANTS MAX_MODE_ACTIVATION_CONDITION_COUNT,  \* slots of the table
          MAX_MODE_RANGE_STEP,                  \* largest step of a range
          SITL_LOCAL_MAX_RC_CHANNELS,           \* AUX channels a host may name
          Boxes                                 \* boxes a host may name

BOXARM == 0
NoAux  == 255                                   \* "no switch"

ASSUME ModeConstants ==
    /\ MAX_MODE_ACTIVATION_CONDITION_COUNT \in Nat \ {0}
    /\ MAX_MODE_RANGE_STEP \in Nat
    /\ SITL_LOCAL_MAX_RC_CHANNELS \in 1 .. 254
    /\ Boxes \subseteq Nat /\ BOXARM \in Boxes

Slots      == 1 .. MAX_MODE_ACTIVATION_CONDITION_COUNT
Channels   == 0 .. SITL_LOCAL_MAX_RC_CHANNELS - 1
RangeSteps == 0 .. MAX_MODE_RANGE_STEP

Condition == [modeId : Boxes, auxChannelIndex : Channels,
              startStep : RangeSteps, endStep : RangeSteps]
EmptyMac  == [modeId |-> BOXARM, auxChannelIndex |-> 0, startStep |-> 0, endStep |-> 0]
Tables    == [Slots -> Condition]

-----------------------------------------------------------------------------
Configured(mac) == mac # EmptyMac

\* Take a box's conditions out of the table and close up the rest.  Empty slots
\* have the number of BOXARM, so they go with it
removeModeActivationCondition(table, box) ==
    LET kept    == {i \in Slots : table[i].modeId # box}
        upTo(i) == Cardinality({j \in kept : j <= i})
    IN  [i \in Slots |-> IF i <= Cardinality(kept)
                         THEN table[CHOOSE j \in kept : upTo(j) = i] ELSE EmptyMac]

\* Mutant: the search takes the first slot whatever it holds
FreeSlotsOff(table) == {i \in Slots : i = 1 \/ ~Configured(table[i])}

FreeSlots(table)  == {i \in Slots : ~Configured(table[i])}
FirstOf(slots)    == CHOOSE i \in slots : \A j \in slots : i <= j

\* The conditions rcControlsInit puts on the list the mode logic walks
ActiveMacs(table) == {i \in Slots : Configured(table[i])}

\* What the setters refuse before they touch the table
Refused(aux, start, end) ==
    \/ aux # NoAux /\ aux >= SITL_LOCAL_MAX_RC_CHANNELS
    \/ start > MAX_MODE_RANGE_STEP \/ end > MAX_MODE_RANGE_STEP \/ start > end

\* sitl_local_set_mode_range and sitl_local_set_arm_switch: the table left
\* behind, and what is returned.  The old conditions are gone before the search
\* for a slot can fail
SetRange(table, box, aux, start, end) ==
    LET cleared == removeModeActivationCondition(table, box)
        free    == FreeSlots(cleared)
        mac     == [modeId |-> box, auxChannelIndex |-> aux, startStep |-> start, endStep |-> end]
    IN  IF Refused(aux, start, end) THEN [table |-> table, ret |-> -1]
        ELSE IF aux = NoAux THEN [table |-> cleared, ret |-> 0]
        ELSE IF free = {} THEN [table |-> cleared, ret |-> -1]
        ELSE [table |-> [cleared EXCEPT ![FirstOf(free)] = mac], ret |-> 0]

\* sitl_local_get_mode_range and sitl_local_get_arm_switch
GetRange(table, box) ==
    LET mine == {i \in Slots : Configured(table[i]) /\ table[i].modeId = box}
        mac  == table[FirstOf(mine)]
    IN  IF mine = {} THEN <<NoAux, 0, 0>>
        ELSE <<mac.auxChannelIndex, mac.startStep, mac.endStep>>

OtherConditions(table, box) == {table[i] : i \in {j \in Slots : Configured(table[j]) /\ table[j].modeId # box}}

-----------------------------------------------------------------------------
(* Rates.  The firmware stores hundredths; a host sees the number of the     *)
(* Rates tab, whose scale depends on the rate type.                          *)

RateTypes == {"BETAFLIGHT", "ACTUAL"}
StoredMax == 2

\* ratesSettingLimits: a type's largest stored rate
rc_rate_limit(type) == IF type = "ACTUAL" THEN 1 ELSE StoredMax

\* sitlRateScaleFactor, with the division by 100 taken out
sitlRateScaleFactor(type) == IF type = "ACTUAL" THEN 1000 ELSE 1

Rates == [rates_type : RateTypes, rcRate : 0 .. StoredMax]

\* sitl_local_get_rate
GetRate(rates) == rates.rcRate * sitlRateScaleFactor(rates.rates_type)

Constrain(n, lo, hi) == IF n < lo THEN lo ELSE IF n > hi THEN hi ELSE n

\* sitl_local_set_rate: lrintf rounds to the nearest stored value
SetRate(rates, shown) ==
    LET scale == sitlRateScaleFactor(rates.rates_type)
    IN  [rates EXCEPT !.rcRate =
            Constrain((2 * shown + scale) \div (2 * scale), 0, rc_rate_limit(rates.rates_type))]
=============================================================================
