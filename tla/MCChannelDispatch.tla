-------------------------- MODULE MCChannelDispatch --------------------------
(* The dispatch of a notification and the gate of an SMS.  They share no    *)
(* state and are looked at one or the other.                                *)
EXTENDS ChannelDispatch, DndGate, TLC

MCPlans == {<<"SMS", "WHATSAPP">>, <<"PUSH", "EMAIL">>, <<"WHATSAPP", "IN_APP">>}
MCOverrides ==
    [SMS |-> {Absent, "malformed"}, WHATSAPP |-> {Absent}, EMAIL |-> {Absent},
     PUSH |-> {Absent, "good", "malformed"}, IN_APP |-> {Absent, "other"}]

DispatchOnly ==
    /\ clock = 0 /\ ~listed /\ cache = NoAnswer /\ lastOther < 0
    /\ outcome = NoAnswer /\ \A d \in Dispatchers : dispatch[d] = NoAnswer
GateOnly == order.registered = {} /\ order.kind = "fanout" /\ \A i \in Routes : place[i] = "waiting"

MCInit == DispatchInit /\ DndInit /\ (DispatchOnly \/ GateOnly)
MCNext ==
    \/ DispatchOnly /\ DispatchNext /\ UNCHANGED dndVars
    \/ GateOnly /\ order.plan = <<"SMS", "WHATSAPP">> /\ DndNext /\ UNCHANGED dispatchVars
MCSpec == MCInit /\ [][MCNext]_<<dispatchVars, dndVars>>
=============================================================================
